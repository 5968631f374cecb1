------------------------- MODULE SocketOwnerProofs --------------------------
(***************************************************************************)
(* Every step of the calling threads, of the owner core, of the transport  *)
(* and of shutdown preserves the inductive invariant of SocketOwner; the   *)
(* theorems about SocketOwner that follow from it alone.                   *)
(***************************************************************************)
EXTENDS SocketOwnerLemmas

-----------------------------------------------------------------------------
(***************************************************************************)
(* Calling threads.                                                        *)
(***************************************************************************)

\* What a step of a calling thread does when it leaves every list alone: the
\* thread of c moves to p, and its own reference comes and goes with it.
Early   == {"idle", "submit", "sleep"}
Held(p) == IF p \in {"idle", "gone"} THEN 0 ELSE 1

QuietFields ==
  /\ cancelError' \in [Cmds -> Reasons \cup {None}]
  /\ \A d \in Cmds : cancelError[d] # None => cancelError'[d] # None
  /\ state' \in [Cmds -> States]
  /\ \A d \in Cmds : d \in OwnerHolds => state'[d] = state[d]
  /\ claimed' \in [Cmds -> BOOLEAN] /\ expired' \subseteq Timed
  /\ UNCHANGED <<outcome, resultSock, ring, burst, active, listVars, ownerVars, sockVars>>

Quiet(c, p) ==
  /\ pc' = [pc EXCEPT ![c] = p]
  /\ refs' = [refs EXCEPT ![c] = @ + Held(p) - Held(pc[c])]
  /\ \/ pc[c] \in Early /\ p \in Early \cup {"gone"}
     \/ pc[c] = "wait" /\ p \in {"expiring", "cancelling", "release", "held"}
     \/ p = pc[c]
  /\ p \in {"expiring", "cancelling"} =>
       p = pc[c] \/ (cancelError[c] = None /\ cancelError'[c] # None)
  /\ QuietFields

LEMMA QuietStep ==
  ASSUME IInv, NEW c \in Cmds, NEW p \in CallerPCs, Quiet(c, p)
  PROVE  IInv'
<1>1. /\ TypeOK /\ RefAccounting /\ LinkedOnce /\ LifeCycle /\ OwnerPhase
      /\ ParkedSound /\ BaseType
  BY Zenon, TypeOKBase DEF IInv
<1>2. /\ ring' = ring /\ burst' = burst /\ active' = active /\ waitq' = waitq
      /\ cancelList' = cancelList /\ controlList' = controlList
      /\ batch' = batch /\ deferred' = deferred /\ outcome' = outcome
      /\ UNCHANGED <<opc, accepting, budget, sock, resultSock>>
  BY Zenon DEF Quiet, QuietFields, listVars, ownerVars, sockVars
<1>3. Queued' = Queued /\ OwnerHolds' = OwnerHolds /\ Handed' = Handed
  BY Zenon, <1>2 DEF Queued, OwnerHolds, Handed
<1>4. refs \in [Cmds -> Int] /\ pc \in [Cmds -> CallerPCs]
  BY Zenon, <1>1 DEF BaseType
<1>5. \A d \in Cmds : pc'[d] = IF d = c THEN p ELSE pc[d]
  BY Zenon, <1>4 DEF Quiet
<1>6. \A d \in Cmds : refs'[d] = IF d = c THEN refs[d] + Held(p) - Held(pc[c]) ELSE refs[d]
  BY Zenon, <1>4 DEF Quiet
<1>7. refs' \in [Cmds -> Int] /\ pc' \in [Cmds -> CallerPCs]
  BY <1>4 DEF Quiet, Held
<1>8. BaseType'
  BY <1>1, <1>2, <1>7 DEF BaseType, Quiet, QuietFields
<1>9. \A d \in Cmds : One(d, CallerHolds) = Held(pc[d]) /\ One(d, CallerHolds)' = Held(pc'[d])
  BY Zenon DEF One, CallerHolds, Held
<1>10. RefAccounting'
  <2> SUFFICES ASSUME NEW d \in Cmds
               PROVE  refs'[d] = One(d, CallerHolds)' + One(d, OwnerHolds)
                                 + One(d, Range(cancelList)) + One(d, Handed)
    BY Zenon, <1>2, <1>3 DEF RefAccounting, One
  <2>1. refs[d] = Held(pc[d]) + One(d, OwnerHolds) + One(d, Range(cancelList)) + One(d, Handed)
    BY Zenon, <1>1, <1>9 DEF RefAccounting
  <2> QED BY <1>5, <1>6, <1>9, <2>1 DEF Held, One
<1>11. LinkedOnce'
  <2>1. c \in Handed => p = "gone" \/ c \in CallerHolds \/ p = pc[c]
    BY Zenon, <1>1 DEF LifeCycle, Quiet, CallerHolds, Early
  <2>2. Handed \cap CallerHolds = {}
    BY Zenon, <1>1 DEF LinkedOnce
  <2>3. Handed \cap CallerHolds' = {}
    BY Zenon, <1>5, <2>1, <2>2 DEF CallerHolds
  <2> QED BY Zenon, <1>1, <1>2, <1>3, <2>3 DEF LinkedOnce
<1>12. LifeCycle'
  <2>1. p \in Early => pc[c] \in Early
    BY Zenon DEF Quiet, Early
  <2>2. p \notin Early \cup {"gone"} => pc[c] \notin Early \cup {"gone"}
    BY Zenon DEF Quiet, Early
  <2>3. p \in {"expiring", "cancelling"} => c \notin Range(cancelList) /\ cancelError'[c] # None
    BY Zenon, <1>1 DEF LifeCycle, Quiet, QuietFields
  <2>4. \A d \in Cmds : /\ cancelError[d] # None => cancelError'[d] # None
                        /\ d \in Queued \cup active => state'[d] = state[d]
    BY Zenon DEF Quiet, QuietFields, OwnerHolds
  <2> QED BY Zenon, <1>1, <1>2, <1>3, <1>5, <2>1, <2>2, <2>3, <2>4 DEF LifeCycle, Early, Done
<1>13. OwnerPhase'
  BY Zenon, <1>1, <1>2 DEF OwnerPhase
<1>14. ParkedSound'
  BY Zenon, <1>1, <1>2, ParkedKept
<1> QED BY Zenon, <1>8, <1>10, <1>11, <1>12, <1>13, <1>14, TypeLemma DEF IInv

\* Steps of a calling thread that leave every list alone.
LEMMA QuietCallers ==
  ASSUME IInv, NEW c \in Cmds,
         \/ Clone(c) \/ WakeSubmitter(c) \/ DeadlinePasses(c) \/ WaitExpires(c)
         \/ ThreadCancelled(c) \/ Return(c)
         \/ Submit(c) /\ (Refuse(c) \/ AwaitSpace(c))
  PROVE  IInv'
<1>1. /\ pc \in [Cmds -> CallerPCs] /\ refs \in [Cmds -> Int] /\ state \in [Cmds -> States]
      /\ cancelError \in [Cmds -> Reasons \cup {None}] /\ claimed \in [Cmds -> BOOLEAN]
      /\ expired \subseteq Timed
  BY Zenon, TypeOKBase DEF IInv, BaseType
<1>2. pc[c] \in Early => c \notin OwnerHolds
  BY Zenon DEF IInv, LifeCycle, Early
<1>3. pc[c] = "idle" => refs[c] = 0
  BY DEF IInv, LifeCycle, RefAccounting, CallerHolds, One
<1>4. \A p : Held(p) = Held(pc[c]) => refs = [refs EXCEPT ![c] = @ + Held(p) - Held(pc[c])]
  <2>1. \A n, m \in Int : n + m - m = n
    OBVIOUS
  <2>2. Held(pc[c]) \in Int /\ refs[c] \in Int
    BY <1>1 DEF Held
  <2> QED BY Zenon, <1>1, <2>1, <2>2
<1>5. pc[c] \in {"submit", "sleep"} => refs[c] + Held("gone") - Held(pc[c]) = refs[c] - 1
  BY <1>1 DEF Held
<1> USE DEF Early
<1>6. CASE Clone(c)
  <2>1. Quiet(c, "submit") \/ Quiet(c, "gone")
    BY <1>1, <1>2, <1>3, <1>6 DEF Clone, Goto, Quiet, QuietFields, Held
  <2> QED BY Zenon, <2>1, QuietStep DEF CallerPCs
<1>7. CASE WakeSubmitter(c)
  <2>1. pc[c] = "sleep" /\ QuietFields
    BY Zenon, <1>1, <1>7 DEF WakeSubmitter, QuietFields
  <2>2. CASE Goto(c, "submit") /\ UNCHANGED refs
    <3>1. Held("submit") = Held(pc[c])
      BY Zenon, <2>1 DEF Held
    <3>2. Quiet(c, "submit")
      BY Zenon, <1>4, <2>1, <2>2, <3>1 DEF Goto, Quiet
    <3> QED BY Zenon, <3>2, QuietStep DEF CallerPCs
  <2>3. CASE Goto(c, "gone") /\ Put(c)
    <3>1. Quiet(c, "gone")
      BY <1>5, <2>1, <2>3, Zenon DEF Goto, Put, Quiet
    <3> QED BY Zenon, <3>1, QuietStep DEF CallerPCs
  <2> QED BY Zenon, <1>7, <2>2, <2>3 DEF WakeSubmitter
<1>8. CASE DeadlinePasses(c)
  <2> DEFINE p == pc[c]
  <2>1. UNCHANGED <<pc, refs>>
    BY Zenon, <1>8 DEF DeadlinePasses, cmdVars
  <2>2. QuietFields
    BY Zenon, <1>1, <1>8 DEF DeadlinePasses, cmdVars, QuietFields
  <2>3. pc' = [pc EXCEPT ![c] = p] /\ p \in CallerPCs
    BY Zenon, <1>1, <2>1
  <2>4. refs' = [refs EXCEPT ![c] = @ + Held(p) - Held(pc[c])]
    BY Zenon, <1>4, <2>1
  <2>5. p = pc[c]
    BY Zenon
  <2> HIDE DEF p
  <2>6. Quiet(c, p)
    BY Zenon, <2>2, <2>3, <2>4, <2>5 DEF Quiet
  <2> QED BY Zenon, <2>3, <2>6, QuietStep
<1>9. CASE WaitExpires(c) \/ ThreadCancelled(c)
  <2>1. pc[c] = "wait" /\ refs' = refs /\ QuietFields
    BY Zenon, <1>1, <1>9 DEF WaitExpires, ThreadCancelled, QuietFields, Reasons, None
  <2>2. Held(pc[c]) = 1 /\ Held("expiring") = 1 /\ Held("cancelling") = 1 /\ Held("release") = 1
    BY Zenon, <2>1 DEF Held
  <2>3. \/ Goto(c, "expiring") /\ cancelError[c] = None /\ cancelError'[c] # None
        \/ Goto(c, "cancelling") /\ cancelError[c] = None /\ cancelError'[c] # None
        \/ Goto(c, "release")
    BY Zenon, <1>1, <1>9 DEF WaitExpires, ThreadCancelled, None
  <2>4. Quiet(c, "expiring") \/ Quiet(c, "cancelling") \/ Quiet(c, "release")
    BY Zenon, <1>4, <2>1, <2>2, <2>3 DEF Goto, Quiet
  <2> QED BY Zenon, <2>4, QuietStep DEF CallerPCs
<1>10. CASE Return(c)
  <2> DEFINE holds == outcome[c] = "OK" /\ Produces(c)
             p == IF holds THEN "held" ELSE "release"
  <2>1. p \in {"held", "release"} /\ Goto(c, p) /\ claimed' = [claimed EXCEPT ![c] = ~holds]
    BY Zenon, <1>10 DEF Return
  <2>2. claimed' \in [Cmds -> BOOLEAN]
    BY Zenon, <1>1, <2>1
  <2> HIDE DEF p
  <2>3. pc[c] = "wait" /\ refs' = refs /\ QuietFields
    BY Zenon, <1>1, <1>10, <2>2 DEF Return, QuietFields
  <2>4. Held(p) = Held(pc[c])
    BY Zenon, <2>1, <2>3 DEF Held
  <2>5. Quiet(c, p)
    BY Zenon, <1>4, <2>1, <2>3, <2>4 DEF Goto, Quiet
  <2> QED BY Zenon, <2>1, <2>5, QuietStep DEF CallerPCs
<1>11. CASE Submit(c) /\ Refuse(c)
  <2>0. pc[c] = "submit" /\ (state' = state \/ state' = [state EXCEPT ![c] = "QUEUED"])
    BY Zenon, <1>11 DEF Submit, Refuse
  <2>1. /\ state' \in [Cmds -> States]
        /\ \A d \in Cmds : d \in OwnerHolds => state'[d] = state[d]
    BY Zenon, <1>1, <1>2, <2>0 DEF States
  <2>2. pc[c] = "submit" /\ QuietFields
    BY Zenon, <1>1, <2>0, <2>1, <1>11 DEF Submit, Refuse, QuietFields
  <2>3. Goto(c, "gone") /\ Put(c)
    BY Zenon, <1>11 DEF Refuse
  <2>4. Quiet(c, "gone")
    BY <1>5, <2>2, <2>3, Zenon DEF Goto, Put, Quiet
  <2> QED BY Zenon, <2>4, QuietStep DEF CallerPCs
<1>12. CASE Submit(c) /\ AwaitSpace(c)
  <2>1. pc[c] = "submit" /\ QuietFields
    BY Zenon, <1>1, <1>2, <1>12 DEF Submit, AwaitSpace, QuietFields, States
  <2>2. Goto(c, "sleep") /\ refs' = refs /\ Held("sleep") = Held(pc[c])
    BY Zenon, <1>12, <2>1 DEF AwaitSpace, Held
  <2>3. Quiet(c, "sleep")
    BY Zenon, <1>4, <2>1, <2>2 DEF Goto, Quiet
  <2> QED BY Zenon, <2>3, QuietStep DEF CallerPCs
<1> QED BY Zenon, <1>6, <1>7, <1>8, <1>9, <1>10, <1>11, <1>12

\* socket_owner_call puts its clone in a ring: the owner gets a reference.
LEMMA EnqueueStep ==
  ASSUME IInv, NEW c \in Cmds, Submit(c), Enqueue(c)
  PROVE  IInv'
<1> DEFINE r == RingOf(c)
           q == Append(ring[r], c)
<1>1. /\ TypeOK /\ RefAccounting /\ LinkedOnce /\ LifeCycle /\ OwnerPhase
      /\ ParkedSound /\ BaseType
  BY Zenon, TypeOKBase DEF IInv
<1>2. r \in Rings /\ ring[r] \in Seq(Cmds) /\ ring' = [ring EXCEPT ![r] = q]
  BY Zenon, <1>1 DEF RingOf, Rings, BaseType, Enqueue
<1>3. /\ pc[c] = "submit" /\ pc' = [pc EXCEPT ![c] = "wait"]
      /\ refs' = [refs EXCEPT ![c] = @ + 1] /\ state' = [state EXCEPT ![c] = "QUEUED"]
      /\ burst' = burst /\ active' = active /\ cancelList' = cancelList
      /\ controlList' = controlList /\ batch' = batch /\ deferred' = deferred
      /\ outcome' = outcome /\ cancelError' = cancelError /\ waitq' = waitq
      /\ UNCHANGED <<opc, accepting, expired, claimed, resultSock, budget, sock>>
  BY Zenon DEF Submit, Enqueue, Get, Goto, listVars, ownerVars, sockVars
<1>4. c \notin OwnerHolds /\ c \notin Handed /\ c \notin Range(cancelList) /\ ~Done(c)
  BY Zenon, <1>1, <1>3 DEF LifeCycle
<1>5. \A x \in Rings : c \notin Range(ring[x])
  BY Zenon, <1>4 DEF OwnerHolds, Queued, Rings
<1>6. q \in Seq(Cmds) /\ Range(q) = Range(ring[r]) \cup {c} /\ NoRepeat(q)
  <2>1. NoRepeat(ring[r])
    BY Zenon, <1>1, <1>2 DEF LinkedOnce, Rings
  <2> QED BY <1>2, <1>5, <2>1, AppendLemma
<1> HIDE DEF q
<1>7. Handed' = Handed /\ CallerHolds' = CallerHolds
  BY Zenon, <1>1, <1>3 DEF Handed, CallerHolds, BaseType
<1>8. ring'[r] = q /\ \A x \in Rings \ {r} : ring'[x] = ring[x]
  BY Zenon, <1>1, <1>2 DEF BaseType
<1>9. Queued' = Queued \cup {c} /\ OwnerHolds' = OwnerHolds \cup {c}
  <2>1. Queued' = Queued \cup {c}
    BY Zenon, <1>2, <1>3, <1>6, <1>8 DEF Queued, Rings
  <2> QED BY Zenon, <1>3, <2>1 DEF OwnerHolds
<1>10. BaseType'
  BY <1>1, <1>2, <1>3, <1>6 DEF BaseType, CallerPCs, States
<1>11. RefAccounting'
  BY <1>1, <1>3, <1>4, <1>7, <1>9 DEF RefAccounting, BaseType, One
<1>12. LinkedOnce'
  <2>1. \A x \in Rings : NoRepeat(ring'[x])
    BY Zenon, <1>1, <1>6, <1>8 DEF LinkedOnce, Rings
  <2>2. Apart(ring'["CLOSE"], ring'["DATA"])
    BY Zenon, <1>1, <1>2, <1>5, <1>6, <1>8 DEF LinkedOnce, Apart, Rings
  <2>3. \A x \in Rings : Apart(ring'[x], burst')
    <3>1. c \notin Range(burst)
      BY Zenon, <1>4 DEF OwnerHolds, Queued
    <3> QED BY <1>1, <1>3, <1>6, <1>8, <3>1 DEF LinkedOnce, Apart
  <2>4. Queued' \cap active' = {} /\ Handed' \cap CallerHolds' = {}
    BY Zenon, <1>1, <1>3, <1>4, <1>7, <1>9 DEF LinkedOnce, OwnerHolds
  <2> QED BY Zenon, <1>1, <1>3, <2>1, <2>2, <2>3, <2>4 DEF LinkedOnce, Rings
<1>13. LifeCycle'
  BY Zenon, <1>1, <1>3, <1>4, <1>7, <1>9 DEF LifeCycle, BaseType, Done, OwnerHolds
<1>14. OwnerPhase'
  BY Zenon, <1>1, <1>3 DEF OwnerPhase
<1>15. ParkedSound'
  BY Zenon, <1>1, <1>3, ParkedKept
<1> QED BY Zenon, <1>10, <1>11, <1>12, <1>13, <1>14, <1>15, TypeLemma DEF IInv

\* socket_owner_cancel links its notification, with a reference of its own.
LEMMA NotifyStep ==
  ASSUME IInv, NEW c \in Cmds, NotifyCancel(c)
  PROVE  IInv'
<1>1. /\ TypeOK /\ RefAccounting /\ LinkedOnce /\ LifeCycle /\ OwnerPhase
      /\ ParkedSound /\ BaseType
  BY Zenon, TypeOKBase DEF IInv
<1>2. /\ pc[c] \in {"expiring", "cancelling"}
      /\ pc' = [pc EXCEPT ![c] = IF pc[c] = "expiring" THEN "wait" ELSE "release"]
      /\ ring' = ring /\ burst' = burst /\ active' = active
      /\ controlList' = controlList /\ batch' = batch /\ deferred' = deferred
      /\ outcome' = outcome /\ cancelError' = cancelError /\ waitq' = waitq /\ state' = state
      /\ UNCHANGED <<opc, accepting, expired, claimed, resultSock, budget, sock>>
  BY Zenon DEF NotifyCancel, Goto, ownerVars, sockVars
<1>3. /\ Queued' = Queued /\ OwnerHolds' = OwnerHolds /\ Handed' = Handed
      /\ CallerHolds' = CallerHolds
  BY Zenon, <1>1, <1>2 DEF Queued, OwnerHolds, Handed, CallerHolds, BaseType
<1>4. c \notin Range(cancelList) /\ cancelError[c] # None
  BY Zenon, <1>1, <1>2 DEF LifeCycle
<1>5. CASE ~accepting
  <2>1. cancelList' = cancelList /\ refs' = refs
    BY Zenon, <1>5 DEF NotifyCancel
  <2>2. BaseType'
    BY Zenon, <1>1, <1>2, <2>1 DEF BaseType, CallerPCs
  <2>3. RefAccounting' /\ LinkedOnce'
    BY Zenon, <1>1, <1>2, <1>3, <2>1 DEF RefAccounting, LinkedOnce
  <2>4. LifeCycle'
    BY Zenon, <1>1, <1>2, <1>3, <2>1 DEF LifeCycle, BaseType, Done
  <2>5. OwnerPhase'
    BY Zenon, <1>1, <1>2 DEF OwnerPhase
  <2>6. ParkedSound'
    BY Zenon, <1>1, <1>2, ParkedKept
  <2> QED BY Zenon, <2>2, <2>3, <2>4, <2>5, <2>6, TypeLemma DEF IInv
<1>6. CASE accepting
  <2>1. cancelList' = <<c>> \o cancelList /\ refs' = [refs EXCEPT ![c] = @ + 1]
    BY Zenon, <1>6 DEF NotifyCancel, Get
  <2>2. /\ cancelList' \in Seq(Cmds) /\ NoRepeat(cancelList')
        /\ Range(cancelList') = Range(cancelList) \cup {c}
    <3>1. cancelList \in Seq(Cmds) /\ NoRepeat(cancelList)
      BY Zenon, <1>1 DEF BaseType, LinkedOnce
    <3> QED BY <1>4, <2>1, <3>1, PushLemma
  <2>3. BaseType'
    BY <1>1, <1>2, <2>1, <2>2 DEF BaseType, CallerPCs
  <2>4. RefAccounting'
    <3> SUFFICES ASSUME NEW d \in Cmds
                 PROVE  (refs[d] = One(d, CallerHolds) + One(d, OwnerHolds)
                                   + One(d, Range(cancelList)) + One(d, Handed))'
      BY Zenon DEF RefAccounting
    <3>1. refs[d] \in Int /\ refs'[d] = IF d = c THEN refs[d] + 1 ELSE refs[d]
      BY Zenon, <1>1, <2>1 DEF BaseType
    <3> QED BY <1>1, <1>3, <1>4, <2>2, <3>1 DEF RefAccounting, One
  <2>5. LinkedOnce'
    BY Zenon, <1>1, <1>2, <1>3, <2>2 DEF LinkedOnce
  <2>6. LifeCycle'
    BY Zenon, <1>1, <1>2, <1>3, <1>4, <2>2 DEF LifeCycle, BaseType, Done
  <2>7. OwnerPhase'
    BY Zenon, <1>1, <1>2 DEF OwnerPhase
  <2>8. ParkedSound'
    BY Zenon, <1>1, <1>2, ParkedKept
  <2> QED BY Zenon, <2>3, <2>4, <2>5, <2>6, <2>7, <2>8, TypeLemma DEF IInv
<1> QED BY Zenon, <1>5, <1>6

\* command_release_caller hands the caller's reference to the owner.
LEMMA ReleaseStep ==
  ASSUME IInv, NEW c \in Cmds, Release(c) \/ ResultRelease(c)
  PROVE  IInv'
<1>1. /\ TypeOK /\ RefAccounting /\ LinkedOnce /\ LifeCycle /\ OwnerPhase
      /\ ParkedSound /\ BaseType
  BY Zenon, TypeOKBase DEF IInv
<1>2. /\ pc[c] \in {"release", "held"} /\ pc' = [pc EXCEPT ![c] = "gone"]
      /\ ring' = ring /\ burst' = burst /\ active' = active
      /\ cancelList' = cancelList /\ batch' = batch /\ deferred' = deferred
      /\ outcome' = outcome /\ cancelError' = cancelError /\ waitq' = waitq /\ state' = state
      /\ UNCHANGED <<opc, accepting, expired, resultSock, budget, sock>>
  BY Zenon DEF Release, ResultRelease, ReleaseCaller, Goto, ownerVars, sockVars
<1>3. claimed' \in [Cmds -> BOOLEAN]
  BY <1>1, Zenon DEF Release, ResultRelease, BaseType
<1>4. /\ Queued' = Queued /\ OwnerHolds' = OwnerHolds
      /\ CallerHolds' = CallerHolds \ {c} /\ c \in CallerHolds
  BY Zenon, <1>1, <1>2 DEF Queued, OwnerHolds, CallerHolds, BaseType
<1>5. c \notin Handed
  BY Zenon, <1>1, <1>4 DEF LinkedOnce
<1>6. CASE ~accepting
  <2>1. controlList' = controlList /\ refs' = [refs EXCEPT ![c] = @ - 1]
    BY Zenon, <1>6 DEF Release, ResultRelease, ReleaseCaller, Put
  <2>2. Handed' = Handed
    BY Zenon, <1>2, <2>1 DEF Handed
  <2>3. BaseType'
    BY <1>1, <1>2, <1>3, <2>1 DEF BaseType, CallerPCs
  <2>4. RefAccounting'
    BY <1>1, <1>2, <1>4, <2>1, <2>2 DEF RefAccounting, BaseType, One
  <2>5. LinkedOnce'
    BY Zenon, <1>1, <1>2, <1>4, <2>1, <2>2 DEF LinkedOnce
  <2>6. LifeCycle'
    BY Zenon, <1>1, <1>2, <1>4, <1>6, <2>2 DEF LifeCycle, BaseType, Done
  <2>7. OwnerPhase'
    BY Zenon, <1>1, <1>2 DEF OwnerPhase
  <2>8. ParkedSound'
    BY Zenon, <1>1, <1>2, ParkedKept
  <2> QED BY Zenon, <2>3, <2>4, <2>5, <2>6, <2>7, <2>8, TypeLemma DEF IInv
<1>7. CASE accepting
  <2>1. controlList' = <<c>> \o controlList /\ refs' = refs
    BY Zenon, <1>7 DEF Release, ResultRelease, ReleaseCaller
  <2>2. /\ controlList' \in Seq(Cmds) /\ NoRepeat(controlList')
        /\ Range(controlList') = Range(controlList) \cup {c}
    <3>1. controlList \in Seq(Cmds) /\ NoRepeat(controlList) /\ c \notin Range(controlList)
      BY Zenon, <1>1, <1>5 DEF BaseType, LinkedOnce, Handed
    <3> QED BY <2>1, <3>1, PushLemma
  <2>3. Handed' = Handed \cup {c}
    BY Zenon, <1>2, <2>2 DEF Handed
  <2>4. BaseType'
    BY <1>1, <1>2, <1>3, <2>1, <2>2, ZenonT(40) DEF BaseType, CallerPCs
  <2>5. RefAccounting'
    BY <1>1, <1>2, <1>4, <1>5, <2>1, <2>3 DEF RefAccounting, BaseType, One
  <2>6. LinkedOnce'
    BY <1>1, <1>2, <1>4, <1>5, <2>2, <2>3 DEF LinkedOnce, Apart, Handed
  <2>7. LifeCycle'
    BY Zenon, <1>1, <1>2, <1>4, <2>3 DEF LifeCycle, BaseType, Done
  <2>8. OwnerPhase'
    BY Zenon, <1>1, <1>2 DEF OwnerPhase
  <2>9. ParkedSound'
    BY Zenon, <1>1, <1>2, ParkedKept
  <2> QED BY Zenon, <2>4, <2>5, <2>6, <2>7, <2>8, <2>9, TypeLemma DEF IInv
<1> QED BY Zenon, <1>6, <1>7

-----------------------------------------------------------------------------
(***************************************************************************)
(* The owner's turn.                                                       *)
(***************************************************************************)

\* The owner detaches a burst from a ring.
LEMMA TakeBurstStep ==
  ASSUME IInv, NEW r \in Rings, burst = <<>>, burst' = TakeBurst(ring[r]),
         ring' = [ring EXCEPT ![r] = AfterBurst(@)],
         opc \in {"io", "close"}, opc' \in {"close", "data"},
         UNCHANGED <<callerVars, cmdVars, active, listVars, budget, accepting, sockVars>>
  PROVE  IInv'
<1>1. /\ TypeOK /\ RefAccounting /\ LinkedOnce /\ LifeCycle /\ OwnerPhase
      /\ ParkedSound /\ BaseType
  BY Zenon, TypeOKBase DEF IInv
<1>2. /\ pc' = pc /\ refs' = refs /\ state' = state /\ outcome' = outcome
      /\ cancelError' = cancelError /\ active' = active /\ waitq' = waitq
      /\ cancelList' = cancelList /\ controlList' = controlList
      /\ batch' = batch /\ deferred' = deferred
      /\ UNCHANGED <<claimed, resultSock, expired, sock, budget, accepting>>
  BY Zenon DEF callerVars, cmdVars, listVars, sockVars
<1>3. ring[r] \in Seq(Cmds) /\ NoRepeat(ring[r])
  BY Zenon, <1>1 DEF BaseType, LinkedOnce, Rings
<1>4. ring'[r] = AfterBurst(ring[r]) /\ \A x \in Rings \ {r} : ring'[x] = ring[x]
  BY Zenon, <1>1 DEF BaseType
<1>5. /\ burst' \in Seq(Cmds) /\ ring'[r] \in Seq(Cmds)
      /\ Range(ring[r]) = Range(burst') \cup Range(ring'[r])
      /\ NoRepeat(burst') /\ NoRepeat(ring'[r]) /\ Apart(burst', ring'[r])
  BY <1>3, <1>4, BurstLemma
<1>6. Range(burst) = {}
  BY DEF Range
<1>7. Queued' = Queued
  BY Zenon, <1>4, <1>5, <1>6 DEF Queued, Rings
<1>8. OwnerHolds' = OwnerHolds /\ Handed' = Handed /\ CallerHolds' = CallerHolds
  BY Zenon, <1>2, <1>7 DEF OwnerHolds, Handed, CallerHolds
<1>9. BaseType'
  <2>1. ring' \in [Rings -> Seq(Cmds)]
    BY Zenon, <1>1, <1>4, <1>5 DEF BaseType
  <2> QED BY Zenon, <1>1, <1>2, <1>5, <2>1 DEF BaseType, OwnerPCs
<1>10. RefAccounting'
  BY Zenon, <1>1, <1>2, <1>8 DEF RefAccounting
<1>11. LinkedOnce'
  <2>1. CASE r = "CLOSE"
    BY Zenon, <1>1, <1>2, <1>4, <1>5, <1>7, <1>8, <2>1 DEF LinkedOnce, Apart, Rings
  <2>2. CASE r = "DATA"
    BY Zenon, <1>1, <1>2, <1>4, <1>5, <1>7, <1>8, <2>2 DEF LinkedOnce, Apart, Rings
  <2> QED BY Zenon, <2>1, <2>2 DEF Rings
<1>12. LifeCycle'
  BY <1>1, <1>2, <1>7, <1>8 DEF LifeCycle, Done
<1>13. OwnerPhase'
  BY <1>1, <1>2 DEF OwnerPhase
<1>14. ParkedSound'
  BY Zenon, <1>1, <1>2, ParkedKept
<1> QED BY Zenon, <1>9, <1>10, <1>11, <1>12, <1>13, <1>14, TypeLemma DEF IInv

\* A request leaves its ring or burst and is started.
LEMMA StartStep ==
  ASSUME IInv, NEW c \in Cmds, c \in Queued,
         Effect(active \cup {c}), active' = active \cup {c}, Queued' = Queued \ {c},
         ring' \in [Rings -> Seq(Cmds)], burst' \in Seq(Cmds), burst' # <<>> => burst # <<>>,
         \A q \in {ring'["CLOSE"], ring'["DATA"], burst'} : NoRepeat(q),
         Apart(ring'["CLOSE"], ring'["DATA"]),
         \A x \in Rings : Apart(ring'[x], burst'),
         cancelError' \in [Cmds -> Reasons \cup {None}],
         \A d \in Cmds : cancelError[d] # None => cancelError'[d] # None,
         sock' \in [Socks -> {"unused", "open", "closed", "retired"}],
         resultSock' \in [Cmds -> Socks \cup {None}],
         UNCHANGED <<callerVars, refs, claimed, listVars, ownerVars>>
  PROVE  IInv'
<1>1. /\ TypeOK /\ RefAccounting /\ LinkedOnce /\ LifeCycle /\ OwnerPhase
      /\ ParkedSound /\ BaseType
  BY Zenon, TypeOKBase DEF IInv
<1>2. /\ pc' = pc /\ refs' = refs /\ cancelList' = cancelList
      /\ controlList' = controlList /\ batch' = batch /\ deferred' = deferred
      /\ UNCHANGED <<claimed, expired, budget, accepting, opc>>
  BY Zenon DEF callerVars, listVars, ownerVars
<1>3. /\ OwnerHolds' = OwnerHolds /\ Handed' = Handed /\ CallerHolds' = CallerHolds
  BY Zenon, <1>2 DEF OwnerHolds, Handed, CallerHolds
<1>4. BaseType'
  <2>1. /\ outcome' \in [Cmds -> Outcomes \cup {Pending}] /\ state' \in [Cmds -> States]
        /\ waitq' \in [Socks -> [Waitable -> Seq(Cmds)]]
    BY Zenon DEF Effect
  <2> QED BY ZenonT(40), <1>1, <1>2, <2>1 DEF BaseType
<1>5. RefAccounting'
  BY Zenon, <1>1, <1>2, <1>3 DEF RefAccounting
<1>6. LinkedOnce'
  BY Zenon, <1>1, <1>2, <1>3 DEF LinkedOnce
<1>7. LifeCycle'
  <2> SUFFICES ASSUME NEW d \in Cmds
               PROVE  (/\ d \in Queued => state[d] = "QUEUED" /\ ~Done(d)
                       /\ d \in active => state[d] \notin {"NEW", "QUEUED"}
                       /\ pc[d] \in {"idle", "submit", "sleep"} =>
                            ~Done(d) /\ d \notin OwnerHolds \cup Handed \cup Range(cancelList)
                       /\ accepting /\ (d \in Handed \/ pc[d] \notin {"idle", "submit", "sleep", "gone"})
                            => d \in OwnerHolds
                       /\ d \in Range(cancelList) \/ pc[d] \notin {"idle", "submit", "sleep", "gone"}
                            => d \in OwnerHolds \/ Done(d)
                       /\ d \in Range(cancelList) \/ pc[d] \in {"expiring", "cancelling"}
                            => cancelError[d] # None
                       /\ pc[d] \in {"expiring", "cancelling"} => d \notin Range(cancelList))'
    BY Zenon DEF LifeCycle
  <2>1. d \in Queued' => d \notin active /\ d # c
    BY Zenon, <1>1 DEF LinkedOnce
  <2>2. d \notin active \cup {c} => outcome'[d] = outcome[d] /\ state'[d] = state[d]
    BY Zenon DEF Effect
  <2>3. d \in active' => state'[d] \notin {"NEW", "QUEUED"}
    BY Zenon DEF Effect
  <2>4. pc[d] \in {"idle", "submit", "sleep"} => d \notin active \cup {c}
    BY Zenon, <1>1 DEF LifeCycle, OwnerHolds
  <2>5. Done(d) => outcome'[d] # Pending
    BY Zenon DEF Effect, Done
  <2>6. accepting' = accepting
    BY Zenon, <1>2
  <2>7. d \in Queued' => state'[d] = "QUEUED" /\ outcome'[d] = Pending
    BY Zenon, <1>1, <2>1, <2>2 DEF LifeCycle, Done
  <2>8. pc'[d] \in {"idle", "submit", "sleep"} =>
          outcome'[d] = Pending /\ d \notin OwnerHolds' \cup Handed' \cup Range(cancelList')
    BY Zenon, <1>1, <1>2, <1>3, <2>2, <2>4 DEF LifeCycle, Done
  <2>9. /\ accepting' /\ (d \in Handed' \/ pc'[d] \notin {"idle", "submit", "sleep", "gone"})
             => d \in OwnerHolds'
        /\ d \in Range(cancelList') \/ pc'[d] \notin {"idle", "submit", "sleep", "gone"}
             => d \in OwnerHolds' \/ outcome'[d] # Pending
    BY <1>1, <1>2, <1>3, <2>5, <2>6 DEF LifeCycle
  <2>10. /\ d \in Range(cancelList') \/ pc'[d] \in {"expiring", "cancelling"}
              => cancelError'[d] # None
         /\ pc'[d] \in {"expiring", "cancelling"} => d \notin Range(cancelList')
    BY Zenon, <1>1, <1>2 DEF LifeCycle
  <2> QED BY Zenon, <2>3, <2>7, <2>8, <2>9, <2>10 DEF Done
<1>8. OwnerPhase'
  BY Zenon, <1>1, <1>2 DEF OwnerPhase
<1>9. ParkedSound'
  BY Zenon, ParkedAfter
<1> QED BY Zenon, <1>4, <1>5, <1>6, <1>7, <1>8, <1>9, TypeLemma DEF IInv

\* command_start on the head of the burst.
LEMMA StartOneStep ==
  ASSUME IInv, StartOne
  PROVE  IInv'
<1> DEFINE c == Head(burst)
           e == IF cancelError[c] # None THEN cancelError[c]
                ELSE IF c \in expired THEN "ETIMEDOUT" ELSE None
<1>1. TypeOK /\ LinkedOnce /\ BaseType
  BY Zenon, TypeOKBase DEF IInv
<1>2. burst \in Seq(Cmds) /\ burst # <<>> /\ NoRepeat(burst)
  BY Zenon, <1>1 DEF BaseType, LinkedOnce, StartOne
<1>3. /\ burst' = Tail(burst) /\ ring' = ring /\ cancelError' = cancelError
      /\ StartCommand(c, e)
      /\ UNCHANGED <<callerVars, refs, claimed, listVars, ownerVars>>
  BY Zenon DEF StartOne
<1>4. /\ c \in Cmds /\ burst' \in Seq(Cmds) /\ Range(burst) = Range(burst') \cup {c}
      /\ NoRepeat(burst') /\ c \notin Range(burst')
  BY Zenon, <1>2, <1>3, PopLemma
<1>5. c \in Queued /\ e \in Reasons \cup {None}
  BY Zenon, <1>1, <1>4 DEF Queued, BaseType, Reasons
<1> HIDE DEF c, e
<1>6. /\ active' = active \cup {c} /\ Effect(active \cup {c})
      /\ sock' \in [Socks -> {"unused", "open", "closed", "retired"}]
      /\ resultSock' \in [Cmds -> Socks \cup {None}]
  BY <1>3, <1>4, <1>5, StartEffect, Zenon
<1>7. Apart(ring["CLOSE"], burst) /\ Apart(ring["DATA"], burst)
  BY Zenon, <1>1 DEF LinkedOnce, Rings
<1>8. Queued' = Queued \ {c}
  BY Zenon, <1>3, <1>4, <1>7 DEF Queued, Apart
<1>9. /\ \A q \in {ring'["CLOSE"], ring'["DATA"], burst'} : NoRepeat(q)
      /\ Apart(ring'["CLOSE"], ring'["DATA"])
      /\ \A x \in Rings : Apart(ring'[x], burst')
  BY Zenon, <1>1, <1>3, <1>4, <1>7 DEF LinkedOnce, Apart, Rings
<1>10. /\ ring' \in [Rings -> Seq(Cmds)]
       /\ cancelError' \in [Cmds -> Reasons \cup {None}]
  BY Zenon, <1>1, <1>3 DEF BaseType
<1> QED BY Zenon, <1>2, <1>3, <1>4, <1>5, <1>6, <1>8, <1>9, <1>10, StartStep

\* Shutdown starts the head of a ring with an error.
LEMMA DrainRingStep ==
  ASSUME IInv, NEW r \in Rings, DrainRing(r)
  PROVE  IInv'
<1> DEFINE c == Head(ring[r])
           e == IF cancelError[c] = None THEN "ENETDOWN" ELSE cancelError[c]
<1>1. TypeOK /\ LinkedOnce /\ BaseType
  BY Zenon, TypeOKBase DEF IInv
<1>2. ring[r] \in Seq(Cmds) /\ ring[r] # <<>> /\ NoRepeat(ring[r])
  BY Zenon, <1>1 DEF BaseType, LinkedOnce, DrainRing, Rings
<1>3. /\ ring' = [ring EXCEPT ![r] = Tail(@)] /\ burst' = burst
      /\ cancelError' = [cancelError EXCEPT ![c] = e]
      /\ StartCommand(c, e)
      /\ UNCHANGED <<callerVars, refs, claimed, listVars, ownerVars>>
  BY Zenon DEF DrainRing
<1>4. ring'[r] = Tail(ring[r]) /\ \A x \in Rings \ {r} : ring'[x] = ring[x]
  BY Zenon, <1>1, <1>3 DEF BaseType
<1>5. /\ c \in Cmds /\ ring'[r] \in Seq(Cmds) /\ Range(ring[r]) = Range(ring'[r]) \cup {c}
      /\ NoRepeat(ring'[r]) /\ c \notin Range(ring'[r])
  BY <1>2, <1>4, PopLemma
<1>6. c \in Queued /\ e \in Reasons
  BY Zenon, <1>1, <1>5 DEF Queued, BaseType, Reasons, Rings
<1>7. /\ cancelError' \in [Cmds -> Reasons \cup {None}]
      /\ \A d \in Cmds : cancelError[d] # None => cancelError'[d] # None
  BY Zenon, <1>1, <1>3, <1>5, <1>6 DEF BaseType
<1> HIDE DEF c, e
<1>8. /\ active' = active \cup {c} /\ Effect(active \cup {c})
      /\ sock' \in [Socks -> {"unused", "open", "closed", "retired"}]
      /\ resultSock' \in [Cmds -> Socks \cup {None}]
  BY <1>3, <1>5, <1>6, StartEffect, Zenon
<1>9. /\ Apart(ring["CLOSE"], burst) /\ Apart(ring["DATA"], burst)
      /\ Apart(ring["CLOSE"], ring["DATA"]) /\ NoRepeat(burst)
      /\ NoRepeat(ring["CLOSE"]) /\ NoRepeat(ring["DATA"])
  BY Zenon, <1>1 DEF LinkedOnce, Rings
<1> DEFINE Split == /\ Queued' = Queued \ {c}
                    /\ \A q \in {ring'["CLOSE"], ring'["DATA"], burst'} : NoRepeat(q)
                    /\ Apart(ring'["CLOSE"], ring'["DATA"])
                    /\ \A x \in Rings : Apart(ring'[x], burst')
<1>10. ASSUME r = "CLOSE" PROVE Split
  <2>1. ring'["DATA"] = ring["DATA"]
    BY Zenon, <1>4, <1>10 DEF Rings
  <2>2. Queued' = Queued \ {c}
    BY Zenon, <1>3, <1>5, <1>9, <1>10, <2>1 DEF Queued, Apart
  <2>3. /\ \A q \in {ring'["CLOSE"], ring'["DATA"], burst'} : NoRepeat(q)
        /\ Apart(ring'["CLOSE"], ring'["DATA"])
        /\ \A x \in Rings : Apart(ring'[x], burst')
    BY Zenon, <1>3, <1>5, <1>9, <1>10, <2>1 DEF Apart, Rings
  <2> QED BY Zenon, <2>2, <2>3
<1>11. ASSUME r = "DATA" PROVE Split
  <2>1. ring'["CLOSE"] = ring["CLOSE"]
    BY Zenon, <1>4, <1>11 DEF Rings
  <2>2. Queued' = Queued \ {c}
    BY Zenon, <1>3, <1>5, <1>9, <1>11, <2>1 DEF Queued, Apart
  <2>3. /\ \A q \in {ring'["CLOSE"], ring'["DATA"], burst'} : NoRepeat(q)
        /\ Apart(ring'["CLOSE"], ring'["DATA"])
        /\ \A x \in Rings : Apart(ring'[x], burst')
    BY Zenon, <1>3, <1>5, <1>9, <1>11, <2>1 DEF Apart, Rings
  <2> QED BY Zenon, <2>2, <2>3
<1>12. Split
  BY Zenon, <1>10, <1>11 DEF Rings
<1>13. ring' \in [Rings -> Seq(Cmds)] /\ burst' \in Seq(Cmds)
  BY Zenon, <1>1, <1>3, <1>4, <1>5 DEF BaseType
<1> QED BY Zenon, <1>3, <1>5, <1>6, <1>7, <1>8, <1>12, <1>13, StartStep

\* command_cancellations: the notification's reference is dropped.
LEMMA CancelOneStep ==
  ASSUME IInv, CancelOne
  PROVE  IInv'
<1> DEFINE c == Head(cancelList)
<1>1. /\ TypeOK /\ RefAccounting /\ LinkedOnce /\ LifeCycle /\ OwnerPhase
      /\ ParkedSound /\ BaseType
  BY Zenon, TypeOKBase DEF IInv
<1>2. cancelList \in Seq(Cmds) /\ cancelList # <<>> /\ NoRepeat(cancelList)
  BY Zenon, <1>1 DEF BaseType, LinkedOnce, CancelOne
<1>3. /\ opc = "cancel" /\ budget > 0 /\ cancelList' = Tail(cancelList)
      /\ refs' = [refs EXCEPT ![c] = @ - 1] /\ budget' = budget - 1
      /\ pc' = pc /\ ring' = ring /\ burst' = burst /\ active' = active
      /\ controlList' = controlList /\ batch' = batch /\ deferred' = deferred
      /\ UNCHANGED <<expired, cancelError, claimed, resultSock, opc, accepting, sock>>
      /\ IF state[c] = "QUEUED" THEN UNCHANGED <<outcome, state, waitq>>
         ELSE CancelLocal(c, cancelError[c])
  BY Zenon DEF CancelOne, Put, callerVars
<1>4. /\ c \in Cmds /\ cancelList' \in Seq(Cmds)
      /\ Range(cancelList) = Range(cancelList') \cup {c}
      /\ NoRepeat(cancelList') /\ c \notin Range(cancelList')
  BY Zenon, <1>2, <1>3, PopLemma
<1> HIDE DEF c
<1>5. cancelError[c] \in Outcomes /\ (c \in OwnerHolds \/ Done(c))
  BY Zenon, <1>1, <1>4 DEF LifeCycle, BaseType, Outcomes
<1>6. Effect(active)
  <2>1. CASE state[c] = "QUEUED"
    BY Zenon, <1>3, <2>1, NoEffect
  <2>2. CASE state[c] # "QUEUED" /\ c \notin active
    <3>1. Done(c)
      BY Zenon, <1>1, <1>4, <1>5, <2>2 DEF LifeCycle, OwnerHolds
    <3> QED BY Zenon, <1>3, <1>4, <2>2, <3>1, CancelDone, NoEffect
  <2>3. CASE state[c] # "QUEUED" /\ c \in active
    <3>1. Running(active)
      BY Zenon, <1>1 DEF Running, BaseType
    <3> QED BY Zenon, <1>3, <1>5, <2>3, <3>1, CancelEffect
  <2> QED BY Zenon, <2>1, <2>2, <2>3
<1>7. /\ Queued' = Queued /\ OwnerHolds' = OwnerHolds /\ Handed' = Handed
      /\ CallerHolds' = CallerHolds
  BY Zenon, <1>3 DEF Queued, OwnerHolds, Handed, CallerHolds
<1>8. BaseType'
  <2>1. refs' \in [Cmds -> Int] /\ budget' \in 0..Burst
    BY <1>1, <1>3, <1>4, SizeAssumption DEF BaseType
  <2>2. /\ outcome' \in [Cmds -> Outcomes \cup {Pending}] /\ state' \in [Cmds -> States]
        /\ waitq' \in [Socks -> [Waitable -> Seq(Cmds)]]
    BY Zenon, <1>6 DEF Effect
  <2> QED BY <1>1, <1>3, <1>4, <2>1, <2>2 DEF BaseType
<1>9. RefAccounting'
  <2> SUFFICES ASSUME NEW d \in Cmds
               PROVE  (refs[d] = One(d, CallerHolds) + One(d, OwnerHolds)
                                 + One(d, Range(cancelList)) + One(d, Handed))'
    BY Zenon DEF RefAccounting
  <2>1. refs[d] \in Int /\ refs'[d] = IF d = c THEN refs[d] - 1 ELSE refs[d]
    BY Zenon, <1>1, <1>3, <1>4 DEF BaseType
  <2> QED BY <1>1, <1>4, <1>7, <2>1 DEF RefAccounting, One
<1>10. LinkedOnce'
  BY Zenon, <1>1, <1>3, <1>4, <1>7 DEF LinkedOnce
<1>11. LifeCycle'
  <2>1. active \ active' = {} /\ accepting' = accepting /\ cancelError' = cancelError
    BY Zenon, <1>3
  <2> QED BY <1>3, <1>4, <1>6, <1>7, <2>1, EffectLife
<1>12. OwnerPhase'
  BY Zenon, <1>1, <1>3 DEF OwnerPhase
<1>13. ParkedSound'
  BY Zenon, <1>3, <1>6, ParkedAfter
<1> QED BY Zenon, <1>8, <1>9, <1>10, <1>11, <1>12, <1>13, TypeLemma DEF IInv

\* Steps that move notifications between the control lists, or only the
\* owner's program counter.
LEMMA ControlMoves ==
  ASSUME IInv, TakeControls \/ DeferOne \/ EndTurn \/ EndDataBurst \/ ShutdownBegins
  PROVE  IInv'
<1>1. /\ TypeOK /\ RefAccounting /\ LinkedOnce /\ LifeCycle /\ OwnerPhase
      /\ ParkedSound /\ BaseType
  BY Zenon, TypeOKBase DEF IInv
<1>2. /\ pc' = pc /\ refs' = refs /\ state' = state /\ outcome' = outcome
      /\ cancelError' = cancelError /\ ring' = ring /\ burst' = burst
      /\ active' = active /\ waitq' = waitq /\ cancelList' = cancelList
      /\ UNCHANGED <<expired, claimed, resultSock, sock>>
  BY Zenon DEF TakeControls, DeferOne, EndTurn, EndDataBurst, ShutdownBegins,
         callerVars, cmdVars, listVars, ownerVars, sockVars
<1>3. /\ opc' \in OwnerPCs /\ accepting' \in BOOLEAN /\ budget' \in 0..Burst
      /\ accepting' => accepting
  <2>1. /\ accepting' = accepting \/ accepting' = FALSE
        /\ budget' \in {budget, 0, Burst}
        /\ opc' \in {opc, "io", "cancel", "reap", "drain"}
    BY Zenon DEF TakeControls, DeferOne, EndTurn, EndDataBurst, ShutdownBegins, ownerVars
  <2>2. opc \in OwnerPCs /\ accepting \in BOOLEAN /\ budget \in 0..Burst
    BY Zenon, <1>1 DEF BaseType
  <2>3. budget' \in 0..Burst
    BY <2>1, <2>2, SizeAssumption
  <2>4. opc' \in OwnerPCs
    BY Zenon, <2>1, <2>2 DEF OwnerPCs
  <2>5. accepting' \in BOOLEAN
    BY <2>1, <2>2, Zenon
  <2>6. accepting' => accepting
    BY <2>1, Zenon
  <2> QED BY Zenon, <2>3, <2>4, <2>5, <2>6
<1>4. /\ controlList \in Seq(Cmds) /\ batch \in Seq(Cmds) /\ deferred \in Seq(Cmds)
      /\ NoRepeat(controlList) /\ NoRepeat(batch) /\ NoRepeat(deferred)
      /\ Apart(controlList, batch) /\ Apart(controlList, deferred) /\ Apart(batch, deferred)
  BY Zenon, <1>1 DEF BaseType, LinkedOnce
<1> DEFINE Moved ==
      /\ controlList' \in Seq(Cmds) /\ batch' \in Seq(Cmds) /\ deferred' \in Seq(Cmds)
      /\ NoRepeat(controlList') /\ NoRepeat(batch') /\ NoRepeat(deferred')
      /\ Apart(controlList', batch') /\ Apart(controlList', deferred')
      /\ Apart(batch', deferred')
      /\ Handed' = Handed
      /\ OwnerPhase'
<1>5. ASSUME TakeControls PROVE Moved
  <2>1. /\ batch' = TakeBurst(controlList) /\ controlList' = AfterBurst(controlList)
        /\ deferred' = deferred /\ opc = "cancel" /\ opc' = "reap" /\ accepting' = accepting
    BY Zenon, <1>5 DEF TakeControls
  <2>2. batch = <<>> /\ deferred = <<>>
    BY Zenon, <1>1, <2>1 DEF OwnerPhase
  <2>3. Range(<<>>) = {}
    BY DEF Range
  <2>4. /\ batch' \in Seq(Cmds) /\ controlList' \in Seq(Cmds)
        /\ Range(controlList) = Range(batch') \cup Range(controlList')
        /\ NoRepeat(batch') /\ NoRepeat(controlList') /\ Apart(batch', controlList')
    BY Zenon, <1>4, <2>1, BurstLemma
  <2>5. Handed' = Handed
    BY Zenon, <2>1, <2>2, <2>3, <2>4 DEF Handed
  <2>6. OwnerPhase'
    BY Zenon, <1>1, <1>2, <2>1 DEF OwnerPhase
  <2> QED BY Zenon, <1>4, <2>1, <2>2, <2>3, <2>4, <2>5, <2>6 DEF Apart
<1>6. ASSUME DeferOne PROVE Moved
  <2> DEFINE c == Head(batch)
  <2>1. /\ batch # <<>> /\ batch' = Tail(batch) /\ deferred' = <<c>> \o deferred
        /\ controlList' = controlList /\ opc = "reap" /\ UNCHANGED <<opc, accepting>>
    BY Zenon, <1>6 DEF DeferOne, ownerVars
  <2>2. /\ batch' \in Seq(Cmds) /\ c \in Cmds /\ Range(batch) = Range(batch') \cup {c}
        /\ NoRepeat(batch') /\ c \notin Range(batch')
    BY Zenon, <1>4, <2>1, PopLemma
  <2> HIDE DEF c
  <2>3. c \notin Range(deferred) /\ c \notin Range(controlList)
    BY Zenon, <1>4, <2>2 DEF Apart
  <2>4. /\ deferred' \in Seq(Cmds) /\ Range(deferred') = Range(deferred) \cup {c}
        /\ NoRepeat(deferred')
    BY <1>4, <2>1, <2>2, <2>3, PushLemma
  <2>5. Handed' = Handed
    BY Zenon, <2>1, <2>2, <2>4 DEF Handed
  <2>6. OwnerPhase'
    BY Zenon, <1>1, <1>2, <2>1 DEF OwnerPhase
  <2> QED BY Zenon, <1>4, <2>1, <2>2, <2>3, <2>4, <2>5, <2>6 DEF Apart
<1>7. ASSUME EndTurn PROVE Moved
  <2>1. /\ batch = <<>> /\ batch' = <<>> /\ deferred' = <<>> /\ opc = "reap" /\ opc' = "io"
        /\ controlList' = deferred \o controlList /\ accepting' = accepting
    BY Zenon, <1>7 DEF EndTurn
  <2>2. Range(<<>>) = {} /\ <<>> \in Seq(Cmds) /\ NoRepeat(<<>>)
    BY DEF Range, NoRepeat
  <2>3. Apart(deferred, controlList)
    BY Zenon, <1>4 DEF Apart
  <2>4. /\ controlList' \in Seq(Cmds) /\ NoRepeat(controlList')
        /\ Range(controlList') = Range(deferred) \cup Range(controlList)
    BY <1>4, <2>1, <2>3, ConcatLemma
  <2>5. Handed' = Handed
    BY Zenon, <2>1, <2>2, <2>4 DEF Handed
  <2>6. OwnerPhase'
    BY Zenon, <1>1, <1>2, <2>1 DEF OwnerPhase
  <2> QED BY Zenon, <2>1, <2>2, <2>4, <2>5, <2>6 DEF Apart
<1>8. ASSUME EndDataBurst \/ ShutdownBegins PROVE Moved
  <2>1. /\ controlList' = controlList /\ batch' = batch /\ deferred' = deferred
        /\ opc \in {"io", "data"}
        /\ \/ opc' = "drain" /\ accepting' = FALSE /\ opc = "io"
           \/ opc' = "cancel" /\ accepting' = accepting /\ burst = <<>>
    BY Zenon, <1>8 DEF EndDataBurst, ShutdownBegins, listVars
  <2>2. Handed' = Handed
    BY Zenon, <2>1 DEF Handed
  <2>3. OwnerPhase'
    BY <1>1, <1>2, <2>1 DEF OwnerPhase
  <2> QED BY Zenon, <1>4, <2>1, <2>2, <2>3
<1>9. Moved
  BY Zenon, <1>5, <1>6, <1>7, <1>8
<1>10. /\ Queued' = Queued /\ OwnerHolds' = OwnerHolds /\ CallerHolds' = CallerHolds
  BY Zenon, <1>2 DEF Queued, OwnerHolds, CallerHolds
<1>11. BaseType'
  BY Zenon, <1>1, <1>2, <1>3, <1>9 DEF BaseType
<1>12. RefAccounting'
  BY Zenon, <1>1, <1>2, <1>9, <1>10 DEF RefAccounting
<1>13. LinkedOnce'
  BY Zenon, <1>1, <1>2, <1>9, <1>10 DEF LinkedOnce
<1>14. LifeCycle'
  <2>1. Effect(active)
    BY Zenon, <1>2, NoEffect
  <2>2. active \ active' = {}
    BY Zenon, <1>2
  <2> QED BY Zenon, <1>2, <1>3, <1>9, <1>10, <2>1, <2>2, EffectLife
<1>15. ParkedSound'
  BY Zenon, <1>1, <1>2, ParkedKept
<1> QED BY Zenon, <1>9, <1>11, <1>12, <1>13, <1>14, <1>15, TypeLemma DEF IInv

-----------------------------------------------------------------------------
(***************************************************************************)
(* A stopped owner: nothing reaches it once accepting is false.            *)
(***************************************************************************)
Stopped ==
  opc = "stopped" => /\ OwnerHolds = {} /\ Handed = {} /\ cancelList = <<>>
                     /\ \A s \in Socks : ~Resolves(s)

\* Only shutdown ends in the stopped state, and no later step of a caller
\* gives the owner a request or a notification.
LEMMA StoppedLemma == IInv /\ Stopped /\ [Next]_vars => Stopped'
<1> SUFFICES ASSUME IInv, Stopped, [Next]_vars, opc' = "stopped"
             PROVE  /\ OwnerHolds' = {} /\ Handed' = {} /\ cancelList' = <<>>
                    /\ \A s \in Socks : ~Resolves(s)'
  BY Zenon DEF Stopped
<1>1. TypeOK /\ OwnerPhase /\ BaseType /\ ParkedSound
  BY Zenon, TypeOKBase DEF IInv
<1>2. CASE ShutdownEnds
  <2>1. /\ active' = {} /\ ring' = ring /\ burst' = burst /\ controlList' = <<>>
        /\ cancelList' = <<>> /\ batch' = batch /\ deferred' = deferred
        /\ opc = "drain" /\ RingsEmpty
        /\ sock' = [s \in Socks |-> IF Resolves(s) THEN "retired" ELSE sock[s]]
    BY Zenon, <1>2 DEF ShutdownEnds, listVars
  <2>2. burst' = <<>> /\ batch' = <<>> /\ deferred' = <<>>
    BY Zenon, <1>1, <2>1 DEF OwnerPhase
  <2>3. ring'["CLOSE"] = <<>> /\ ring'["DATA"] = <<>>
    BY Zenon, <2>1 DEF RingsEmpty, Rings
  <2>4. Range(<<>>) = {}
    BY DEF Range
  <2>5. OwnerHolds' = {} /\ Handed' = {}
    BY Zenon, <2>1, <2>2, <2>3, <2>4 DEF OwnerHolds, Queued, Handed
  <2>6. \A s \in Socks : ~Resolves(s)'
    BY Zenon, <2>1 DEF Resolves
  <2> QED BY Zenon, <2>1, <2>5, <2>6
<1>3. CASE opc = "stopped"
  <2>1. /\ OwnerHolds = {} /\ Handed = {} /\ cancelList = <<>> /\ ~accepting
        /\ \A s \in Socks : ~Resolves(s)
    BY Zenon, <1>1, <1>3 DEF Stopped, OwnerPhase
  <2> SUFFICES UNCHANGED <<ring, burst, active, listVars, sock>>
    BY Zenon, <2>1 DEF OwnerHolds, Queued, Handed, listVars, Resolves
  <2>2. ASSUME NEW c \in Cmds, CallerStep(c) \/ DeadlinePasses(c) \/ CommandTimeout(c)
        PROVE  UNCHANGED <<ring, burst, active, listVars, sock>>
    BY Zenon, <1>3, <2>1, <2>2 DEF CallerStep, DeadlinePasses, CommandTimeout, Clone, Submit, Enqueue,
       Refuse, AwaitSpace, WakeSubmitter, WaitExpires, ThreadCancelled, NotifyCancel,
       Return, Release, ResultRelease, ReleaseCaller, listVars, sockVars
  <2>3. ~OwnerTurn
    BY Zenon, <1>3 DEF OwnerTurn, BeginTurn, StartOne, EndCloseBurst, EndDataBurst,
       CancelOne, TakeControls, DeferOne, ReapOne, EndTurn
  <2>4. ~TransportStep
    BY Zenon, <1>3 DEF TransportStep, TransportProgress, ConnectSettles, StreamAborts
  <2>5. ~Shutdown
    BY Zenon, <1>3 DEF Shutdown, ShutdownBegins, DrainRing, DrainActive, DrainNotification,
       ShutdownEnds
  <2>6. CASE UNCHANGED vars
    BY Zenon, <2>6 DEF vars, sockVars
  <2> QED BY Zenon, <2>2, <2>3, <2>4, <2>5, <2>6 DEF Next
<1>4. ASSUME opc # "stopped", ~ShutdownEnds PROVE FALSE
  <2>1. ASSUME NEW c \in Cmds, CallerStep(c) \/ DeadlinePasses(c) \/ CommandTimeout(c)
        PROVE  opc' = opc
    BY Zenon, <2>1 DEF CallerStep, DeadlinePasses, CommandTimeout, Clone, Submit,
       WakeSubmitter, WaitExpires, ThreadCancelled, NotifyCancel,
       Return, Release, ResultRelease, ReleaseCaller, ownerVars
  <2>2. OwnerTurn => opc' # "stopped"
    BY Zenon, <1>4 DEF OwnerTurn, BeginTurn, StartOne, EndCloseBurst, EndDataBurst,
       CancelOne, TakeControls, DeferOne, ReapOne, EndTurn, ownerVars
  <2>3. TransportStep => opc' = opc
    BY Zenon DEF TransportStep, TransportProgress, ConnectSettles, StreamAborts, ownerVars
  <2>4. Shutdown => opc' # "stopped"
    BY Zenon, <1>4 DEF Shutdown, ShutdownBegins, DrainRing, DrainActive, DrainNotification,
       ownerVars
  <2>5. CASE UNCHANGED vars
    BY Zenon, <1>4, <2>5 DEF vars, ownerVars
  <2> QED BY Zenon, <1>4, <2>1, <2>2, <2>3, <2>4, <2>5 DEF Next
<1> QED BY Zenon, <1>2, <1>3, <1>4

-----------------------------------------------------------------------------
\* command_reap: the owner's and the handed-over reference are dropped.
LEMMA ReapStep ==
  ASSUME IInv, ReapOne
  PROVE  IInv'
<1> DEFINE c == Head(batch)
           s == resultSock[c]
           e == IF cancelError[c] # None THEN cancelError[c] ELSE "ECANCELED"
<1>1. /\ TypeOK /\ RefAccounting /\ LinkedOnce /\ LifeCycle /\ OwnerPhase
      /\ ParkedSound /\ BaseType
  BY Zenon, TypeOKBase DEF IInv
<1>2. batch \in Seq(Cmds) /\ batch # <<>> /\ NoRepeat(batch)
  BY Zenon, <1>1 DEF BaseType, LinkedOnce, ReapOne
<1>3. /\ opc = "reap" /\ batch' = Tail(batch) /\ active' = active \ {c}
      /\ refs' = [refs EXCEPT ![c] = @ - 2] /\ state[c] # "QUEUED"
      /\ pc' = pc /\ ring' = ring /\ burst' = burst /\ cancelList' = cancelList
      /\ controlList' = controlList /\ deferred' = deferred
      /\ cancelError' = cancelError /\ accepting' = accepting
      /\ UNCHANGED <<expired, claimed, resultSock, opc, budget>>
  BY Zenon DEF ReapOne, callerVars, ownerVars
<1>3a. IF Unclaimed(c) /\ s \in Socks /\ sock[s] = "open"
       THEN \/ /\ sock' = [sock EXCEPT ![s] = "closed"]
               /\ UNCHANGED <<outcome, state, waitq>>
            \/ /\ sock' = [sock EXCEPT ![s] = "retired"]
               /\ Commit(Aborted(s, "ECANCELED"), {})
               /\ waitq' = [waitq EXCEPT ![s] = NoWaiters]
       ELSE CancelLocal(c, e) /\ UNCHANGED sock
  BY Zenon DEF ReapOne
<1>4. /\ c \in Cmds /\ batch' \in Seq(Cmds) /\ Range(batch) = Range(batch') \cup {c}
      /\ NoRepeat(batch') /\ c \notin Range(batch')
  BY Zenon, <1>2, <1>3, PopLemma
<1>5. e \in Outcomes
  BY Zenon, <1>1, <1>4 DEF BaseType, Outcomes, Reasons
<1> HIDE DEF c, e
<1>6. c \in Handed /\ c \notin CallerHolds /\ c \in active /\ c \notin Queued
  <2>1. c \in Handed
    BY Zenon, <1>4 DEF Handed
  <2>2. accepting
    BY Zenon, <1>1, <1>3 DEF OwnerPhase
  <2>3. c \in OwnerHolds /\ c \notin Queued
    BY Zenon, <1>1, <1>3, <1>4, <2>1, <2>2 DEF LifeCycle
  <2> QED BY Zenon, <1>1, <2>1, <2>3 DEF LinkedOnce, OwnerHolds
<1>7. Running(active)
  BY Zenon, <1>1 DEF Running, BaseType
<1>8. /\ Effect(active) /\ outcome'[c] # Pending
      /\ sock' \in [Socks -> {"unused", "open", "closed", "retired"}]
  <2>0. sock \in [Socks -> {"unused", "open", "closed", "retired"}]
    BY Zenon, <1>1 DEF BaseType
  <2>1. CASE Unclaimed(c) /\ s \in Socks /\ sock[s] = "open" /\ UNCHANGED <<outcome, state, waitq>>
             /\ sock' = [sock EXCEPT ![s] = "closed"]
    <3>1. outcome[c] # Pending
      BY Zenon, <2>1 DEF Unclaimed, Pending
    <3>2. Effect(active)
      BY Zenon, <2>1, NoEffect
    <3>3. sock' \in [Socks -> {"unused", "open", "closed", "retired"}]
      BY Zenon, <2>0, <2>1
    <3> QED BY Zenon, <2>1, <3>1, <3>2, <3>3
  <2>2. CASE /\ Unclaimed(c) /\ s \in Socks /\ sock[s] = "open"
             /\ sock' = [sock EXCEPT ![s] = "retired"]
             /\ Commit(Aborted(s, "ECANCELED"), {})
             /\ waitq' = [waitq EXCEPT ![s] = NoWaiters]
    <3> DEFINE o == Aborted(s, "ECANCELED")
    <3>1. Done(c)
      BY Zenon, <2>2 DEF Unclaimed, Pending, Done
    <3>2. DOMAIN o = Waiters(s) /\ \A d \in DOMAIN o : o[d] \in Outcomes
      BY Zenon DEF Aborted, Outcomes, Reasons
    <3> HIDE DEF o
    <3>3. Commit(o, {})
      BY Zenon, <2>2 DEF o
    <3>4. active \ active = {}
      BY Zenon
    <3>5. Effect(active)
      BY <1>7, <2>2, <3>2, <3>3, <3>4, AbortEffect, Zenon
    <3>6. outcome'[c] # Pending
      BY Zenon, <1>4, <3>1, <3>5 DEF Effect, Done
    <3>7. sock' \in [Socks -> {"unused", "open", "closed", "retired"}]
      BY Zenon, <2>0, <2>2
    <3> QED BY Zenon, <3>5, <3>6, <3>7
  <2>3. CASE CancelLocal(c, e) /\ UNCHANGED sock
    BY Zenon, <1>5, <1>6, <1>7, <2>0, <2>3, CancelEffect
  <2> QED BY Zenon, <1>3a, <2>1, <2>2, <2>3
<1>9. BaseType'
  <2>1. refs' \in [Cmds -> Int]
    BY <1>1, <1>3, <1>4 DEF BaseType
  <2>2. active' \subseteq Cmds
    BY Zenon, <1>1, <1>3 DEF BaseType
  <2>3. /\ outcome' \in [Cmds -> Outcomes \cup {Pending}] /\ state' \in [Cmds -> States]
        /\ waitq' \in [Socks -> [Waitable -> Seq(Cmds)]]
    BY Zenon, <1>8 DEF Effect
  <2> QED BY <1>1, <1>3, <1>4, <1>8, <2>1, <2>2, <2>3 DEF BaseType
<1>10. /\ Queued' = Queued /\ OwnerHolds' = OwnerHolds \ {c}
       /\ CallerHolds' = CallerHolds /\ Handed' = Handed \ {c}
  <2>1. Queued' = Queued
    BY Zenon, <1>3 DEF Queued
  <2>2. c \notin Range(controlList) /\ c \notin Range(deferred)
    BY Zenon, <1>1, <1>4 DEF LinkedOnce, Apart
  <2>3. Handed' = Handed \ {c}
    BY Zenon, <1>3, <1>4, <2>2 DEF Handed
  <2>4. OwnerHolds' = OwnerHolds \ {c}
    BY Zenon, <1>3, <1>6, <2>1 DEF OwnerHolds
  <2> QED BY Zenon, <1>3, <2>1, <2>3, <2>4 DEF CallerHolds
<1>11. RefAccounting'
  <2> SUFFICES ASSUME NEW d \in Cmds
               PROVE  (refs[d] = One(d, CallerHolds) + One(d, OwnerHolds)
                                 + One(d, Range(cancelList)) + One(d, Handed))'
    BY Zenon DEF RefAccounting
  <2>1. /\ refs[d] \in Int
        /\ refs[d] = One(d, CallerHolds) + One(d, OwnerHolds)
                     + One(d, Range(cancelList)) + One(d, Handed)
    BY Zenon, <1>1 DEF BaseType, RefAccounting
  <2>2. refs'[d] = IF d = c THEN refs[d] - 2 ELSE refs[d]
    BY Zenon, <1>1, <1>3, <1>4 DEF BaseType
  <2>3. c \in OwnerHolds
    BY Zenon, <1>6 DEF OwnerHolds
  <2>4. cancelList' = cancelList
    BY Zenon, <1>3
  <2> QED BY <1>6, <1>10, <2>1, <2>2, <2>3, <2>4 DEF One
<1>12. LinkedOnce'
  <2>1. Range(batch') \subseteq Range(batch)
    BY Zenon, <1>4
  <2>2. Queued' \cap active' = {} /\ Handed' \cap CallerHolds' = {}
    BY Zenon, <1>1, <1>3, <1>10 DEF LinkedOnce
  <2> QED BY <1>1, <1>3, <1>4, <2>1, <2>2 DEF LinkedOnce, Apart
<1>13. LifeCycle'
  <2>1. active \ active' = {c} /\ active' \subseteq active
    BY Zenon, <1>3, <1>6
  <2>2. pc[c] = "gone"
    BY Zenon, <1>1, <1>4, <1>6 DEF CallerHolds, LifeCycle, BaseType
  <2>3. Handed' \cap {c} = {} /\ Handed' \subseteq Handed
    BY Zenon, <1>10
  <2> QED BY Zenon, <1>3, <1>8, <1>10, <2>1, <2>2, <2>3, EffectLife
<1>14. OwnerPhase'
  <2>1. /\ burst' = burst /\ opc' = opc /\ accepting' = accepting /\ deferred' = deferred
        /\ opc = "reap"
    BY Zenon, <1>3
  <2> QED BY Zenon, <1>1, <2>1 DEF OwnerPhase
<1>15. ParkedSound'
  <2>1. active' \subseteq active /\ \A d \in active \ active' : outcome'[d] # Pending
    BY Zenon, <1>3, <1>8
  <2> QED BY Zenon, <1>8, <2>1, ParkedAfter
<1> QED BY Zenon, <1>9, <1>11, <1>12, <1>13, <1>14, <1>15, TypeLemma DEF IInv

\* The owner's loop outside the command turn: a timer, a transport event.
LEMMA LoopStep ==
  ASSUME IInv,
         \/ \E c \in Cmds : CommandTimeout(c)
         \/ TransportStep
  PROVE  IInv'
<1>1. TypeOK /\ ParkedSound /\ BaseType
  BY Zenon, TypeOKBase DEF IInv
<1>2. Running(active)
  BY Zenon, <1>1 DEF Running, BaseType
<1>3. /\ sock \in [Socks -> {"unused", "open", "closed", "retired"}]
      /\ resultSock \in [Cmds -> Socks \cup {None}]
      /\ waitq \in [Socks -> [Waitable -> Seq(Cmds)]]
  BY Zenon, <1>1 DEF BaseType
<1>4. ASSUME NEW c \in Cmds, CommandTimeout(c) PROVE IInv'
  <2>1. /\ c \in active /\ CancelLocal(c, "ETIMEDOUT") /\ "ETIMEDOUT" \in Outcomes
        /\ UNCHANGED <<pc, refs, expired, cancelError, claimed, ring, burst, active,
                       listVars, accepting, budget>>
        /\ UNCHANGED <<opc, sock, resultSock>>
    BY Zenon, <1>4 DEF CommandTimeout, callerVars, ownerVars, Outcomes, Reasons
  <2>2. Effect(active)
    BY Zenon, <1>2, <2>1, CancelEffect
  <2> QED BY Zenon, <1>3, <2>1, <2>2, EffectKeeps
<1>5. ASSUME NEW s \in Socks, TransportProgress(s) PROVE IInv'
  <2>1. PICK k \in {"RECV", "SEND", "ACCEPT"} : WakeQueue(s, k, waitq[s][k])
    BY Zenon, <1>5 DEF TransportProgress
  <2>2. /\ UNCHANGED <<pc, refs, expired, cancelError, claimed, ring, burst, active,
                       listVars, accepting, budget>>
        /\ opc' = opc
    BY Zenon, <1>5 DEF TransportProgress, callerVars, ownerVars
  <2>3. k \in Waitable
    BY Zenon DEF Waitable
  <2>4. /\ waitq[s][k] \in Seq(Cmds) /\ NoRepeat(waitq[s][k])
        /\ \A c \in Range(waitq[s][k]) :
             c \in active /\ ~Done(c) /\ Target[c] = s /\ Kind[c] = k
    BY <1>1, <1>3, <2>3 DEF ParkedSound
  <2>5. /\ Effect(active)
        /\ sock' \in [Socks -> {"unused", "open", "closed", "retired"}]
        /\ resultSock' \in [Cmds -> Socks \cup {None}]
    BY Zenon, <1>2, <2>1, <2>3, <2>4, WakeEffect
  <2> QED BY Zenon, <2>2, <2>5, EffectKeeps
<1>6. ASSUME NEW s \in Socks, ConnectSettles(s) PROVE IInv'
  <2> DEFINE c == Head(waitq[s]["CONNECT"])
  <2>1. PICK r \in {"OK", "ERROR"} : Commit(Outcome(c, r), {})
    BY Zenon, <1>6 DEF ConnectSettles
  <2> DEFINE o == Outcome(c, r)
  <2>2. /\ UNCHANGED <<pc, refs, expired, cancelError, claimed, ring, burst, active,
                       listVars, accepting, budget>>
        /\ UNCHANGED <<opc, sock, resultSock>>
        /\ waitq' = [waitq EXCEPT ![s]["CONNECT"] = Tail(waitq[s]["CONNECT"])]
        /\ waitq[s]["CONNECT"] # <<>>
    BY Zenon, <1>3, <1>6 DEF ConnectSettles, callerVars, ownerVars, Waitable
  <2>3. "CONNECT" \in Waitable /\ waitq[s]["CONNECT"] \in Seq(Cmds)
    BY Zenon, <1>3 DEF Waitable
  <2> DEFINE q == Tail(waitq[s]["CONNECT"])
  <2>4. /\ q \in Seq(Cmds) /\ NoRepeat(q) /\ c \notin Range(q)
        /\ Range(waitq[s]["CONNECT"]) = Range(q) \cup {c}
    BY Zenon, <1>1, <2>2, <2>3, PopLemma DEF ParkedSound
  <2>5. c \in active /\ Target[c] = s /\ Kind[c] = "CONNECT"
    BY <1>1, <2>3, <2>4 DEF ParkedSound
  <2>6. DOMAIN o = {c} /\ \A d \in DOMAIN o : o[d] \in Outcomes
    BY Zenon, <2>1 DEF Outcome, Outcomes
  <2>7. Commit(o, {})
    BY Zenon, <2>1
  <2> HIDE DEF c, o, q
  <2>8. waitq' = [waitq EXCEPT ![s]["CONNECT"] = q]
    BY Zenon, <2>2 DEF q
  <2>9. ASSUME NEW z \in Socks, NEW k \in Waitable
        PROVE  waitq'[z][k] = IF z = s /\ k = "CONNECT" THEN q ELSE waitq[z][k]
    BY Zenon, <1>3, <2>3, <2>8
  <2>10. waitq' \in [Socks -> [Waitable -> Seq(Cmds)]]
    BY <1>3, <2>4, <2>8, Zenon
  <2>11. ASSUME NEW z \in Socks, NEW k \in Waitable
         PROVE  /\ NoRepeat(waitq'[z][k])
                /\ Range(waitq'[z][k]) = Range(waitq[z][k]) \ DOMAIN o
    BY <1>1, <2>4, <2>5, <2>6, <2>9 DEF ParkedSound
  <2>12. Effect(active)
    BY <1>2, <2>5, <2>6, <2>7, <2>10, <2>11, SettleEffect, Zenon
  <2> QED BY Zenon, <1>3, <2>2, <2>12, EffectKeeps
<1>7. ASSUME NEW s \in Socks, StreamAborts(s) PROVE IInv'
  <2> DEFINE o == Aborted(s, "ERROR")
  <2>1. /\ UNCHANGED <<pc, refs, expired, cancelError, claimed, ring, burst, active,
                       listVars, accepting, budget>>
        /\ UNCHANGED <<opc, resultSock>>
        /\ Commit(o, {}) /\ waitq' = [waitq EXCEPT ![s] = NoWaiters]
        /\ sock' = [sock EXCEPT ![s] = IF @ = "closed" THEN "retired" ELSE @]
    BY Zenon, <1>7 DEF StreamAborts, callerVars, ownerVars
  <2>2. DOMAIN o = Waiters(s) /\ \A d \in DOMAIN o : o[d] \in Outcomes
    BY Zenon DEF Aborted, Outcomes
  <2> HIDE DEF o
  <2>3. active \ active = {}
    BY Zenon
  <2>4. Effect(active)
    BY <1>2, <2>1, <2>2, <2>3, AbortEffect, Zenon
  <2>5. sock' \in [Socks -> {"unused", "open", "closed", "retired"}]
    BY Zenon, <1>3, <2>1
  <2> QED BY Zenon, <1>3, <2>1, <2>4, <2>5, EffectKeeps
<1> QED BY Zenon, <1>4, <1>5, <1>6, <1>7 DEF TransportStep

\* socket_owner_shutdown_local finishes an active request and drops the
\* owner's reference.
LEMMA DrainActiveStep ==
  ASSUME IInv, NEW c \in Cmds, DrainActive(c)
  PROVE  IInv'
<1>1. /\ TypeOK /\ RefAccounting /\ LinkedOnce /\ LifeCycle /\ OwnerPhase
      /\ ParkedSound /\ BaseType
  BY Zenon, TypeOKBase DEF IInv
<1>2. /\ opc = "drain" /\ c \in active /\ active' = active \ {c}
      /\ CancelLocal(c, "ENETDOWN") /\ "ENETDOWN" \in Outcomes
      /\ refs' = [refs EXCEPT ![c] = @ - 1]
      /\ pc' = pc /\ ring' = ring /\ burst' = burst /\ cancelList' = cancelList
      /\ controlList' = controlList /\ deferred' = deferred /\ batch' = batch
      /\ cancelError' = cancelError /\ accepting' = accepting /\ opc' = opc
      /\ UNCHANGED <<expired, claimed, resultSock, budget, sock>>
  BY Zenon DEF DrainActive, Put, callerVars, ownerVars, listVars, Outcomes, Reasons
<1>3. Running(active)
  BY Zenon, <1>1 DEF Running, BaseType
<1>4. Effect(active) /\ outcome'[c] # Pending
  BY Zenon, <1>2, <1>3, CancelEffect
<1>5. BaseType'
  <2>1. refs' \in [Cmds -> Int]
    BY <1>1, <1>2 DEF BaseType
  <2>2. active' \subseteq Cmds
    BY Zenon, <1>1, <1>2 DEF BaseType
  <2> QED BY Zenon, <1>1, <1>2, <1>4, <2>1, <2>2 DEF BaseType, Effect, States
<1>6. /\ Queued' = Queued /\ CallerHolds' = CallerHolds /\ Handed' = Handed
  BY Zenon, <1>2 DEF Queued, CallerHolds, Handed
<1>7. c \notin Queued /\ OwnerHolds' = OwnerHolds \ {c} /\ c \in OwnerHolds
  BY Zenon, <1>1, <1>2, <1>6 DEF LinkedOnce, OwnerHolds
<1>8. RefAccounting'
  <2> SUFFICES ASSUME NEW d \in Cmds
               PROVE  (refs[d] = One(d, CallerHolds) + One(d, OwnerHolds)
                                 + One(d, Range(cancelList)) + One(d, Handed))'
    BY Zenon DEF RefAccounting
  <2>1. /\ refs[d] \in Int
        /\ refs[d] = One(d, CallerHolds) + One(d, OwnerHolds)
                     + One(d, Range(cancelList)) + One(d, Handed)
    BY Zenon, <1>1 DEF BaseType, RefAccounting
  <2>2. refs'[d] = IF d = c THEN refs[d] - 1 ELSE refs[d]
    BY Zenon, <1>1, <1>2 DEF BaseType
  <2>3. cancelList' = cancelList
    BY Zenon, <1>2
  <2> QED BY <1>6, <1>7, <2>1, <2>2, <2>3 DEF One
<1>9. LinkedOnce'
  <2>1. Queued' \cap active' = {} /\ Handed' \cap CallerHolds' = {}
    BY Zenon, <1>1, <1>2, <1>6 DEF LinkedOnce
  <2> QED BY Zenon, <1>1, <1>2, <2>1 DEF LinkedOnce, Apart
<1>10. LifeCycle'
  <2>1. active \ active' = {c} /\ active' \subseteq active
    BY Zenon, <1>2
  <2>2. ~accepting'
    BY Zenon, <1>1, <1>2 DEF OwnerPhase
  <2> QED BY Zenon, <1>2, <1>4, <1>6, <2>1, <2>2, EffectLife
<1>11. OwnerPhase'
  <2>1. /\ burst' = burst /\ opc' = opc /\ accepting' = accepting
        /\ deferred' = deferred /\ batch' = batch
    BY Zenon, <1>2
  <2> QED BY Zenon, <1>1, <2>1 DEF OwnerPhase
<1>12. ParkedSound'
  <2>1. active' \subseteq active /\ \A d \in active \ active' : outcome'[d] # Pending
    BY Zenon, <1>2, <1>4
  <2> QED BY Zenon, <1>4, <2>1, ParkedAfter
<1> QED BY Zenon, <1>5, <1>8, <1>9, <1>10, <1>11, <1>12, TypeLemma DEF IInv

\* socket_owner_shutdown_local drops the reference of a notification.
LEMMA DrainNotificationStep ==
  ASSUME IInv, DrainNotification
  PROVE  IInv'
<1>1. /\ TypeOK /\ RefAccounting /\ LinkedOnce /\ LifeCycle /\ OwnerPhase
      /\ ParkedSound /\ BaseType
  BY Zenon, TypeOKBase DEF IInv
<1>2. /\ opc = "drain" /\ active' = active
      /\ pc' = pc /\ ring' = ring /\ burst' = burst
      /\ deferred' = deferred /\ batch' = batch /\ state' = state /\ outcome' = outcome
      /\ cancelError' = cancelError /\ accepting' = accepting /\ opc' = opc
      /\ waitq' = waitq
      /\ UNCHANGED <<expired, claimed, resultSock, budget, sock>>
  BY Zenon DEF DrainNotification, callerVars, ownerVars, sockVars
<1>3. PICK c \in Cmds :
        /\ refs' = [refs EXCEPT ![c] = @ - 1]
        /\ controlList' \in Seq(Cmds) /\ cancelList' \in Seq(Cmds)
        /\ NoRepeat(controlList') /\ NoRepeat(cancelList')
        /\ \/ /\ Range(controlList) = Range(controlList') \cup {c}
              /\ c \notin Range(controlList') /\ cancelList' = cancelList
           \/ /\ Range(cancelList) = Range(cancelList') \cup {c}
              /\ c \notin Range(cancelList') /\ controlList' = controlList
  <2>1. /\ controlList \in Seq(Cmds) /\ cancelList \in Seq(Cmds)
        /\ NoRepeat(controlList) /\ NoRepeat(cancelList)
    BY Zenon, <1>1 DEF BaseType, LinkedOnce
  <2>2. CASE /\ controlList # <<>> /\ Put(Head(controlList))
             /\ controlList' = Tail(controlList) /\ UNCHANGED cancelList
    <3>1. /\ Head(controlList) \in Cmds /\ controlList' \in Seq(Cmds)
          /\ Range(controlList) = Range(controlList') \cup {Head(controlList)}
          /\ NoRepeat(controlList') /\ Head(controlList) \notin Range(controlList')
      BY Zenon, <2>1, <2>2, PopLemma
    <3> QED BY <2>1, <2>2, <3>1, Zenon DEF Put
  <2>3. CASE /\ cancelList # <<>> /\ Put(Head(cancelList))
             /\ cancelList' = Tail(cancelList) /\ UNCHANGED controlList
    <3>1. /\ Head(cancelList) \in Cmds /\ cancelList' \in Seq(Cmds)
          /\ Range(cancelList) = Range(cancelList') \cup {Head(cancelList)}
          /\ NoRepeat(cancelList') /\ Head(cancelList) \notin Range(cancelList')
      BY Zenon, <2>1, <2>3, PopLemma
    <3> QED BY <2>1, <2>3, <3>1, Zenon DEF Put
  <2> QED BY Zenon, <2>2, <2>3 DEF DrainNotification
<1>4. batch = <<>> /\ deferred = <<>> /\ ~accepting
  BY Zenon, <1>1, <1>2 DEF OwnerPhase
<1>5. Range(<<>>) = {}
  BY DEF Range
<1>6. /\ Queued' = Queued /\ CallerHolds' = CallerHolds /\ OwnerHolds' = OwnerHolds
  BY Zenon, <1>2 DEF Queued, CallerHolds, OwnerHolds
<1>7. Handed = Range(controlList) /\ Handed' = Range(controlList')
  BY Zenon, <1>2, <1>4, <1>5 DEF Handed
<1>8. BaseType'
  <2>1. refs' \in [Cmds -> Int]
    BY <1>1, <1>3 DEF BaseType
  <2> QED BY Zenon, <1>1, <1>2, <1>3, <2>1 DEF BaseType
<1>9. RefAccounting'
  <2> SUFFICES ASSUME NEW d \in Cmds
               PROVE  (refs[d] = One(d, CallerHolds) + One(d, OwnerHolds)
                                 + One(d, Range(cancelList)) + One(d, Handed))'
    BY Zenon DEF RefAccounting
  <2>1. /\ refs[d] \in Int
        /\ refs[d] = One(d, CallerHolds) + One(d, OwnerHolds)
                     + One(d, Range(cancelList)) + One(d, Handed)
    BY Zenon, <1>1 DEF BaseType, RefAccounting
  <2>2. refs'[d] = IF d = c THEN refs[d] - 1 ELSE refs[d]
    BY Zenon, <1>1, <1>3 DEF BaseType
  <2> QED BY <1>3, <1>6, <1>7, <2>1, <2>2 DEF One
<1>10. Range(controlList') \subseteq Range(controlList)
       /\ Range(cancelList') \subseteq Range(cancelList)
  BY Zenon, <1>3
<1>11. LinkedOnce'
  <2>1. Handed' \cap CallerHolds' = {} /\ Queued' \cap active' = {}
    BY Zenon, <1>1, <1>2, <1>6, <1>7, <1>10 DEF LinkedOnce
  <2> QED BY Zenon, <1>1, <1>2, <1>3, <1>10, <2>1 DEF LinkedOnce, Apart
<1>12. LifeCycle'
  <2>1. Effect(active)
    BY Zenon, <1>2, NoEffect
  <2>2. active \ active' = {} /\ active' \subseteq active /\ Handed' \subseteq Handed
    BY Zenon, <1>2, <1>7, <1>10
  <2> QED BY Zenon, <1>2, <1>4, <1>6, <1>10, <2>1, <2>2, EffectLife
<1>13. OwnerPhase'
  BY Zenon, <1>1, <1>2 DEF OwnerPhase
<1>14. ParkedSound'
  BY Zenon, <1>1, <1>2, ParkedKept
<1> QED BY Zenon, <1>8, <1>9, <1>11, <1>12, <1>13, <1>14, TypeLemma DEF IInv

\* At the end of shutdown no request is active, hence none is parked.
LEMMA ShutdownEndsStep ==
  ASSUME IInv, ShutdownEnds
  PROVE  IInv'
<1>1. TypeOK /\ ParkedSound /\ BaseType
  BY Zenon, TypeOKBase DEF IInv
<1> DEFINE o == [c \in UNION {Waiters(s) : s \in Socks} |-> "ENETDOWN"]
<1>2. /\ opc = "drain" /\ opc' = "stopped" /\ active = {} /\ Commit(o, {})
      /\ waitq' = [s \in Socks |-> NoWaiters]
      /\ sock' = [s \in Socks |-> IF Resolves(s) THEN "retired" ELSE sock[s]]
      /\ UNCHANGED <<pc, refs, expired, cancelError, claimed, ring, burst, active,
                     listVars, accepting, budget>>
      /\ resultSock' = resultSock
  BY Zenon DEF ShutdownEnds, callerVars
<1>3. sock' \in [Socks -> {"unused", "open", "closed", "retired"}]
  BY Zenon, <1>1, <1>2 DEF BaseType
<1>4. \A s \in Socks : Waiters(s) = {}
  BY <1>1, <1>2, Zenon DEF ParkedSound, Waiters
<1>5. DOMAIN o = {}
  BY Zenon, <1>4
<1> HIDE DEF o
<1>6. /\ outcome' \in [Cmds -> Outcomes \cup {Pending}]
      /\ state' \in [Cmds -> States]
      /\ \A c \in Cmds : outcome'[c] = outcome[c] /\ state'[c] = state[c]
  BY Zenon, <1>1, <1>2, <1>5, CommitLemma
<1>7. waitq' \in [Socks -> [Waitable -> Seq(Cmds)]]
  BY <1>2 DEF NoWaiters
<1>8. ASSUME NEW s \in Socks, NEW k \in Waitable
      PROVE  NoRepeat(waitq'[s][k]) /\ Range(waitq'[s][k]) = {}
  BY <1>2 DEF NoWaiters, NoRepeat, Range
<1>9. Effect(active)
  BY <1>2, <1>6, <1>7, <1>8, Zenon DEF Effect
<1> QED BY Zenon, <1>1, <1>2, <1>3, <1>9, EffectKeeps DEF BaseType


\* The command channel starts in the inductive invariant.
LEMMA InitLemma == Init => IInv
<1> SUFFICES ASSUME Init PROVE IInv
  BY Zenon
<1> USE DEF Init
<1>1. Range(<<>>) = {} /\ NoRepeat(<<>>) /\ <<>> \in Seq(Cmds)
  BY DEF Range, NoRepeat
<1>2. TypeOK
  <2>1. {burst, cancelList, controlList, batch, deferred} \subseteq Seq(Cmds)
    BY Zenon, <1>1
  <2>2. /\ refs \in [Cmds -> 0..3] /\ budget \in 0..Burst
    BY SizeAssumption
  <2>3. /\ waitq \in [Socks -> [Waitable -> Seq(Cmds)]]
        /\ ring \in [Rings -> Seq(Cmds)]
    BY Zenon, <1>1 DEF NoWaiters
  <2>4. /\ pc \in [Cmds -> CallerPCs] /\ outcome \in [Cmds -> Outcomes \cup {Pending}]
        /\ state \in [Cmds -> {"NEW", "QUEUED", "PARKED", "DONE", "CANCELLED"}]
        /\ cancelError \in [Cmds -> Reasons \cup {None}]
        /\ claimed \in [Cmds -> BOOLEAN]
        /\ expired \subseteq Timed /\ active \subseteq Cmds
        /\ sock \in [Socks -> {"unused", "open", "closed", "retired"}]
        /\ resultSock \in [Cmds -> Socks \cup {None}]
    BY Zenon DEF CallerPCs
  <2>5. accepting \in BOOLEAN /\ opc \in OwnerPCs
    BY Zenon DEF OwnerPCs
  <2> QED BY Zenon, <2>1, <2>2, <2>3, <2>4, <2>5 DEF TypeOK
<1>3. /\ CallerHolds = {} /\ Queued = {} /\ OwnerHolds = {} /\ Handed = {}
      /\ Range(cancelList) = {}
  BY Zenon, <1>1 DEF CallerHolds, Queued, OwnerHolds, Handed, Rings
<1>4. RefAccounting
  <2> SUFFICES ASSUME NEW c \in Cmds
               PROVE  refs[c] = One(c, CallerHolds) + One(c, OwnerHolds)
                                  + One(c, Range(cancelList)) + One(c, Handed)
    BY Zenon DEF RefAccounting
  <2>1. /\ refs[c] = 0
        /\ One(c, CallerHolds) = 0 /\ One(c, OwnerHolds) = 0
        /\ One(c, Range(cancelList)) = 0 /\ One(c, Handed) = 0
    BY Zenon, <1>3 DEF One
  <2> HIDE DEF Init
  <2> QED BY <2>1
<1>5. LinkedOnce
  BY Zenon, <1>1, <1>3 DEF LinkedOnce, Apart, Rings
<1>6. LifeCycle
  BY Zenon, <1>3 DEF LifeCycle, Done, OwnerHolds
<1>7. OwnerPhase
  BY Zenon DEF OwnerPhase
<1>8. ParkedSound
  BY Zenon, <1>1 DEF ParkedSound, NoWaiters
<1> QED BY Zenon, <1>2, <1>4, <1>5, <1>6, <1>7, <1>8 DEF IInv


-----------------------------------------------------------------------------
(***************************************************************************)
(* The theorems.                                                           *)
(***************************************************************************)

\* Every step of a caller, of the owner, of its timers and of shutdown
\* preserves the inductive invariant.
LEMMA NextLemma == IInv /\ [Next]_vars => IInv'
<1> SUFFICES ASSUME IInv, [Next]_vars PROVE IInv'
  BY Zenon
<1>1. ASSUME NEW c \in Cmds, CallerStep(c) \/ DeadlinePasses(c) PROVE IInv'
  <2>1. CASE Submit(c)
    <3>1. Enqueue(c) \/ Refuse(c) \/ AwaitSpace(c)
      BY Zenon, <2>1 DEF Submit
    <3> QED BY Zenon, <2>1, <3>1, EnqueueStep, QuietCallers
  <2>2. CASE NotifyCancel(c)
    BY Zenon, <2>2, NotifyStep
  <2>3. CASE Release(c) \/ ResultRelease(c)
    BY Zenon, <2>3, ReleaseStep
  <2>4. CASE \/ Clone(c) \/ WakeSubmitter(c) \/ DeadlinePasses(c) \/ WaitExpires(c)
             \/ ThreadCancelled(c) \/ Return(c)
    BY Zenon, <2>4, QuietCallers
  <2> QED BY Zenon, <1>1, <2>1, <2>2, <2>3, <2>4 DEF CallerStep
<1>2. CASE OwnerTurn
  <2>1. CASE BeginTurn
    <3>1. burst = <<>> /\ "CLOSE" \in Rings
      BY Zenon, <2>1 DEF BeginTurn, IInv, OwnerPhase, Rings
    <3> QED BY <2>1, <3>1, TakeBurstStep, Zenon DEF BeginTurn
  <2>2. CASE EndCloseBurst
    <3>1. "DATA" \in Rings
      BY Zenon DEF Rings
    <3> QED BY <2>2, <3>1, TakeBurstStep, Zenon DEF EndCloseBurst
  <2>3. CASE TakeControls \/ DeferOne \/ EndTurn \/ EndDataBurst
    BY Zenon, <2>3, ControlMoves
  <2> QED BY Zenon, <1>2, <2>1, <2>2, <2>3, StartOneStep, CancelOneStep, ReapStep DEF OwnerTurn
<1>3. CASE TransportStep \/ \E c \in Cmds : CommandTimeout(c)
  BY Zenon, <1>3, LoopStep
<1>4. CASE Shutdown
  BY Zenon, <1>4, ControlMoves, DrainRingStep, DrainActiveStep, DrainNotificationStep,
     ShutdownEndsStep DEF Shutdown
<1>5. CASE UNCHANGED vars
  <2>1. /\ outcome' = outcome /\ state' = state /\ waitq' = waitq /\ opc' = opc
        /\ UNCHANGED <<pc, refs, expired, cancelError, claimed, ring, burst, active,
                       listVars, accepting, budget>>
        /\ sock' = sock /\ resultSock' = resultSock
    BY Zenon, <1>5 DEF vars, callerVars, cmdVars, ownerVars, sockVars
  <2>2. Effect(active)
    BY Zenon, <2>1, NoEffect
  <2> QED BY Zenon, <2>1, <2>2, EffectKeeps, TypeOKBase DEF BaseType, IInv
<1> QED BY Zenon, <1>1, <1>2, <1>3, <1>4, <1>5 DEF Next

\* The command channel of socket_owner.c keeps its inductive invariant, for
\* any number of requests, sockets, ring slots and any burst size.
THEOREM Invariance == Spec => []IInv
<1>1. Init => IInv
  BY Zenon, InitLemma
<1>2. IInv /\ [Next]_vars => IInv'
  BY Zenon, NextLemma
<1> QED BY <1>1, <1>2, PTL DEF Spec

\* Type correctness; in particular cmd->refs never leaves 0..3, so command_put
\* never underflows.
THEOREM TypeCorrect == Spec => []TypeOK
<1>1. IInv => TypeOK
  BY Zenon DEF IInv
<1> QED BY <1>1, Invariance, PTL

\* cmd->refs counts exactly the holders of a request: command_put frees it
\* when, and only when, nobody can reach it any more.
THEOREM RefsCountHolders == Spec => []RefAccounting
<1>1. IInv => RefAccounting
  BY Zenon DEF IInv
<1> QED BY <1>1, Invariance, PTL

\* No request is ever linked twice on the rings, the active list or the
\* notification lists.
THEOREM LinkedAtMostOnce == Spec => []LinkedOnce
<1>1. IInv => LinkedOnce
  BY Zenon DEF IInv
<1> QED BY <1>1, Invariance, PTL

\* A caller that still waits has its request in a ring, in the owner's burst
\* or parked on the socket it named: no wakeup path of the owner loses it.
THEOREM NothingIsLost == Spec => []NoLostRequest
<1>1. IInv => NoLostRequest
  <2> SUFFICES ASSUME IInv, NEW c \in Cmds, pc[c] \in {"wait", "expiring"}, ~Done(c)
               PROVE  c \in Queued \/ c \in Waiters(Target[c])
    BY Zenon DEF NoLostRequest
  <2>1. c \in OwnerHolds
    BY Zenon DEF IInv, LifeCycle
  <2>2. c \in active => c \in Waiters(Target[c])
    BY DEF IInv, ParkedSound, Waiters
  <2> QED BY Zenon, <2>1, <2>2 DEF OwnerHolds
<1> QED BY <1>1, Invariance, PTL

\* After socket_owner_shutdown_local the owner holds no request, notification
\* or socket, and every caller that is still inside its wait has a result.
THEOREM StopsClean == Spec => []StoppedClean
<1>1. Init => Stopped
  BY Zenon DEF Init, Stopped
<1>2. IInv /\ Stopped /\ [Next]_vars => Stopped'
  BY Zenon, StoppedLemma
<1>3. IInv /\ Stopped => StoppedClean
  BY Zenon DEF IInv, LifeCycle, Stopped, StoppedClean
<1> QED BY <1>1, <1>2, <1>3, Invariance, PTL DEF Spec

=============================================================================
