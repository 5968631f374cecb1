---------------------------- MODULE SocketOwner ----------------------------
(***************************************************************************)
(* The socket command channel of pro-stack/socket_owner.c.                 *)
(*                                                                         *)
(* Application threads submit requests to the single owner core through    *)
(* two bounded rings.  A request is a reference-counted object: its caller *)
(* holds a reference, the owner holds one from enqueue until reap, and a   *)
(* cancellation notification holds a third.  The owner runs, parks,        *)
(* cancels, times out and reaps requests; it may be shut down at any turn. *)
(*                                                                         *)
(* Every critical section of submit_lock is one step, every CAS on         *)
(* cancel_error is one step, and every owner function between two of them  *)
(* is one step.  Sockets are named by their handles, which are never       *)
(* reused (module SocketSlots).  Transport results (EAGAIN, success,       *)
(* error) are chosen nondeterministically.                                 *)
(***************************************************************************)
EXTENDS Integers, Sequences

CONSTANTS
  Cmds,       \* requests; each is one call of socket_owner_call
  Socks,      \* socket handles
  Opened,     \* handles the application already holds at the start
  Kind,       \* Kind[c]: the command type
  Target,     \* Target[c]: the handle the command names (unused by CREATE)
  NonBlock,   \* requests with cmd->nonblock
  Timed,      \* requests with cmd->timeout_ns # 0
  RingSize,   \* usable capacity of each command ring
  Burst       \* BURST_SIZE

Waitable == {"CONNECT", "RECV", "SEND", "ACCEPT"}
Kinds    == Waitable \cup {"CREATE", "CLOSE", "CONTROL"}

None     == "NONE"

\* The source never gives a nonblocking request a timeout, and an unset
\* result_handle (NSOCK_INVALID_ID) is no handle.
ASSUME KindAssumption   == Kind \in [Cmds -> Kinds]
ASSUME TargetAssumption == /\ Target \in [Cmds -> Socks]
                           /\ Opened \subseteq Socks /\ None \notin Socks
ASSUME ModeAssumption   == /\ NonBlock \subseteq Cmds
                           /\ Timed \subseteq Cmds
                           /\ NonBlock \cap Timed = {}
ASSUME SizeAssumption   == RingSize \in Nat \ {0} /\ Burst \in Nat \ {0}

Pending  == "PENDING"
Reasons  == {"ECANCELED", "ETIMEDOUT", "ENETDOWN"}
Outcomes == {"OK", "EAGAIN", "EBADF", "ERROR"} \cup Reasons
Rings    == {"CLOSE", "DATA"}

\* Program counter of the calling thread inside socket_owner_call:
\*   expiring    between the ETIMEDOUT compare-and-swap and its notification,
\*               with done_mutex held
\*   cancelling  the same in the pthread cleanup handler, done_mutex released
\*   held        a CREATE/ACCEPT result waits for fd publication
CallerPCs == {"idle", "submit", "sleep", "wait", "expiring", "cancelling",
              "release", "held", "gone"}
\* Program counter of the owner core:
\*   io            the rest of its loop: receive, timers, transmit
\*   close, data   starting the burst taken from that ring
\*   cancel, reap  draining cancellation and control notifications
\*   drain         inside socket_owner_shutdown_local
OwnerPCs  == {"io", "close", "data", "cancel", "reap", "drain", "stopped"}

VARIABLES
  pc,           \* caller program counters
  refs,         \* cmd->refs; an object is freed when it reaches 0
  state,        \* cmd->state; "PARKED" stands for RUNNING too
  outcome,      \* cmd->done, cmd->result and cmd->error as one value
  cancelError,  \* cmd->cancel_error
  claimed,      \* cmd->claimed
  expired,      \* requests whose deadline has passed
  ring,         \* close_ring and command_ring
  burst,        \* commands dequeued by the owner and not started yet
  active,       \* owner->active_head list
  cancelList,   \* owner->cancel_head list
  controlList,  \* owner->control_head list
  batch,        \* control notifications detached by the owner
  deferred,     \* detached notifications whose command is still queued
  accepting,    \* owner->accepting
  opc,          \* owner program counter
  budget,       \* iterations left in command_cancellations
  sock,         \* life of each handle
  waitq,        \* recv/send/accept wait queues and connect_waiter
  resultSock    \* cmd->result_handle of CREATE and ACCEPT

callerVars == <<pc, expired>>
cmdVars    == <<refs, state, outcome, cancelError, claimed, resultSock>>
listVars   == <<cancelList, controlList, batch, deferred>>
ownerVars  == <<opc, budget, accepting>>
sockVars   == <<sock, waitq>>
vars       == <<callerVars, cmdVars, ring, burst, active, listVars, ownerVars,
                sockVars>>

\* What a list links; the one operator of Functions this module needs, defined
\* here so that the proofs carry no other definition of that library.
Range(q)       == {q[i] : i \in DOMAIN q}

RingOf(c)      == IF Kind[c] = "CLOSE" THEN "CLOSE" ELSE "DATA"
Produces(c)    == Kind[c] \in {"CREATE", "ACCEPT"}
Done(c)        == outcome[c] # Pending
Waiters(s)     == UNION {Range(waitq[s][k]) : k \in Waitable}
NoWaiters      == [k \in Waitable |-> <<>>]
Resolves(s)    == sock[s] \in {"open", "closed"}
TakeBurst(q)   == SubSeq(q, 1, IF Len(q) < Burst THEN Len(q) ELSE Burst)
AfterBurst(q)  == SubSeq(q, Len(TakeBurst(q)) + 1, Len(q))

\* command_unlink_wait: the queue without the first link to c.
Without(q, c) ==
  IF c \notin Range(q) THEN q
  ELSE LET i == CHOOSE j \in DOMAIN q : q[j] = c
       IN  [j \in 1..(Len(q) - 1) |-> IF j < i THEN q[j] ELSE q[j + 1]]

NoOutcome      == [c \in {} |-> Pending]
Outcome(c, o)  == [d \in {c} |-> o]

TypeOK ==
  /\ pc \in [Cmds -> CallerPCs]
  /\ refs \in [Cmds -> 0..3]
  /\ state \in [Cmds -> {"NEW", "QUEUED", "PARKED", "DONE", "CANCELLED"}]
  /\ outcome \in [Cmds -> Outcomes \cup {Pending}]
  /\ cancelError \in [Cmds -> Reasons \cup {None}]
  /\ claimed \in [Cmds -> BOOLEAN]
  /\ expired \subseteq Timed
  /\ ring \in [Rings -> Seq(Cmds)]
  /\ {burst, cancelList, controlList, batch, deferred} \subseteq Seq(Cmds)
  /\ active \subseteq Cmds
  /\ accepting \in BOOLEAN
  /\ opc \in OwnerPCs
  /\ budget \in 0..Burst
  /\ sock \in [Socks -> {"unused", "open", "closed", "retired"}]
  /\ waitq \in [Socks -> [Waitable -> Seq(Cmds)]]
  /\ resultSock \in [Cmds -> Socks \cup {None}]

Init ==
  /\ pc = [c \in Cmds |-> "idle"]
  /\ refs = [c \in Cmds |-> 0]
  /\ state = [c \in Cmds |-> "NEW"]
  /\ outcome = [c \in Cmds |-> Pending]
  /\ cancelError = [c \in Cmds |-> None]
  /\ claimed = [c \in Cmds |-> FALSE]
  /\ expired = {}
  /\ ring = [r \in Rings |-> <<>>]
  /\ burst = <<>> /\ active = {}
  /\ cancelList = <<>> /\ controlList = <<>> /\ batch = <<>> /\ deferred = <<>>
  /\ accepting = TRUE /\ opc = "io" /\ budget = 0
  /\ sock = [s \in Socks |-> IF s \in Opened THEN "open" ELSE "unused"]
  /\ waitq = [s \in Socks |-> NoWaiters]
  /\ resultSock = [c \in Cmds |-> None]

-----------------------------------------------------------------------------
(***************************************************************************)
(* The calling thread.                                                     *)
(***************************************************************************)
Goto(c, p) == pc' = [pc EXCEPT ![c] = p]
Get(c)     == refs' = [refs EXCEPT ![c] = @ + 1]
Put(c)     == refs' = [refs EXCEPT ![c] = @ - 1]

\* A handle the caller of c can name: the application had it, a call returned
\* it, or c is the PUBLISH command of a result that is being published.
InHands(c) ==
  \/ Kind[c] = "CREATE" \/ Target[c] \in Opened
  \/ \E d \in Cmds : /\ Produces(d) /\ resultSock[d] = Target[c]
                     /\ \/ claimed[d]
                        \/ pc[d] = "held" /\ Kind[c] = "CONTROL"

\* command_clone: the caller's private copy, or ENOMEM.
Clone(c) ==
  /\ pc[c] = "idle"
  /\ InHands(c)
  /\ \/ Goto(c, "submit") /\ refs' = [refs EXCEPT ![c] = 1]
     \/ Goto(c, "gone") /\ UNCHANGED refs
  /\ UNCHANGED <<expired, state, outcome, cancelError, claimed, resultSock,
                 ring, burst, active, listVars, ownerVars, sockVars>>

\* One pass of the submission loop of socket_owner_call.
Enqueue(c) ==
  /\ accepting /\ Len(ring[RingOf(c)]) < RingSize
  /\ ring' = [ring EXCEPT ![RingOf(c)] = Append(@, c)]
  /\ state' = [state EXCEPT ![c] = "QUEUED"]
  /\ Get(c) /\ Goto(c, "wait")

Refuse(c) ==
  /\ \/ ~accepting /\ UNCHANGED state
     \/ /\ accepting /\ Len(ring[RingOf(c)]) >= RingSize
        /\ c \in NonBlock \cup expired
        /\ state' = [state EXCEPT ![c] = "QUEUED"]
  /\ Put(c) /\ Goto(c, "gone")
  /\ UNCHANGED ring

AwaitSpace(c) ==
  /\ accepting /\ Len(ring[RingOf(c)]) >= RingSize
  /\ c \notin NonBlock \cup expired
  /\ state' = [state EXCEPT ![c] = "QUEUED"]
  /\ Goto(c, "sleep")
  /\ UNCHANGED <<ring, refs>>

Submit(c) ==
  /\ pc[c] = "submit"
  /\ Enqueue(c) \/ Refuse(c) \/ AwaitSpace(c)
  /\ UNCHANGED <<expired, outcome, cancelError, claimed, resultSock, burst,
                 active, listVars, ownerVars, sockVars>>

\* The futex sleep ends on space_wake or after 10 ms; a pending pthread
\* cancellation is taken there and drops the unsubmitted clone.
WakeSubmitter(c) ==
  /\ pc[c] = "sleep"
  /\ \/ Goto(c, "submit") /\ UNCHANGED refs
     \/ Goto(c, "gone") /\ Put(c)
  /\ UNCHANGED <<expired, state, outcome, cancelError, claimed, resultSock,
                 ring, burst, active, listVars, ownerVars, sockVars>>

DeadlinePasses(c) ==
  /\ c \in Timed \ expired
  /\ refs[c] > 0
  /\ expired' = expired \cup {c}
  /\ UNCHANGED <<pc, cmdVars, ring, burst, active, listVars, ownerVars, sockVars>>

\* pthread_cond_timedwait expired: the first cancellation reason wins.  The
\* code does not look at done again first, so a completion that arrives with
\* the deadline is followed by a needless notification.
WaitExpires(c) ==
  /\ pc[c] = "wait"
  /\ c \in expired /\ cancelError[c] = None
  /\ cancelError' = [cancelError EXCEPT ![c] = "ETIMEDOUT"]
  /\ Goto(c, "expiring")
  /\ UNCHANGED <<expired, refs, state, outcome, claimed, resultSock, ring,
                 burst, active, listVars, ownerVars, sockVars>>

\* The thread is cancelled in pthread_cond_wait: command_wait_cleanup.
ThreadCancelled(c) ==
  /\ pc[c] = "wait"
  /\ IF cancelError[c] = None
     THEN /\ cancelError' = [cancelError EXCEPT ![c] = "ECANCELED"]
          /\ Goto(c, "cancelling")
     ELSE Goto(c, "release") /\ UNCHANGED cancelError
  /\ UNCHANGED <<expired, refs, state, outcome, claimed, resultSock, ring,
                 burst, active, listVars, ownerVars, sockVars>>

\* The locked half of socket_owner_cancel.
NotifyCancel(c) ==
  /\ pc[c] \in {"expiring", "cancelling"}
  /\ IF accepting
     THEN Get(c) /\ cancelList' = <<c>> \o cancelList
     ELSE UNCHANGED <<refs, cancelList>>
  /\ Goto(c, IF pc[c] = "expiring" THEN "wait" ELSE "release")
  /\ UNCHANGED <<expired, state, outcome, cancelError, claimed, resultSock,
                 ring, burst, active, controlList, batch, deferred, ownerVars,
                 sockVars>>

\* The waiter sees done and copies the result out.
Return(c) ==
  /\ pc[c] = "wait" /\ Done(c)
  /\ LET holds == outcome[c] = "OK" /\ Produces(c)
     IN  /\ claimed' = [claimed EXCEPT ![c] = ~holds]
         /\ Goto(c, IF holds THEN "held" ELSE "release")
  /\ UNCHANGED <<expired, refs, state, outcome, cancelError, resultSock, ring,
                 burst, active, listVars, ownerVars, sockVars>>

\* command_release_caller: hand the caller's reference to the owner, or drop
\* it when the owner no longer listens.
ReleaseCaller(c) ==
  /\ IF accepting
     THEN controlList' = <<c>> \o controlList /\ UNCHANGED refs
     ELSE Put(c) /\ UNCHANGED controlList
  /\ Goto(c, "gone")
  /\ UNCHANGED <<expired, state, outcome, cancelError, resultSock, ring, burst,
                 active, cancelList, batch, deferred, ownerVars, sockVars>>

Release(c) ==
  /\ pc[c] = "release"
  /\ ReleaseCaller(c)
  /\ UNCHANGED claimed

\* socket_owner_result_release after the descriptor was (not) published.
ResultRelease(c) ==
  /\ pc[c] = "held"
  /\ \E kept \in BOOLEAN : claimed' = [claimed EXCEPT ![c] = kept]
  /\ ReleaseCaller(c)

-----------------------------------------------------------------------------
(***************************************************************************)
(* The owner core: completing, waking and cancelling requests.             *)
(***************************************************************************)

\* socket_owner_complete for every request in DOMAIN o (a result is committed
\* once), and SOCK_CMD_PARKED for those in parked.  done_mutex excludes a
\* caller that is between its expired wait and its notification.
Commit(o, parked) ==
  /\ \A c \in DOMAIN o : pc[c] # "expiring"
  /\ outcome' = [c \in Cmds |-> IF c \in DOMAIN o /\ ~Done(c) THEN o[c]
                                ELSE outcome[c]]
  /\ state' = [c \in Cmds |->
        IF c \in DOMAIN o /\ ~Done(c)
        THEN IF o[c] \in {"ECANCELED", "ETIMEDOUT"} THEN "CANCELLED" ELSE "DONE"
        ELSE IF c \in parked THEN "PARKED" ELSE state[c]]

\* A socket that becomes visible to the application as the result of a request.
Adopt(new) ==
  \E f \in [new -> {s \in Socks : sock[s] = "unused"}] :
    /\ \A c, d \in new : f[c] = f[d] => c = d
    /\ sock' = [s \in Socks |-> IF s \in Range(f) THEN "open" ELSE sock[s]]
    /\ resultSock' = [c \in Cmds |-> IF c \in new THEN f[c] ELSE resultSock[c]]

\* socket_owner_abort_waiters
Aborted(s, e) == [c \in Waiters(s) |-> e]

\* command_cancel_local: unlink and complete; cancelling the connect waiter
\* also aborts the stream, and with it the other waiters of the socket.
Connecting(c) == c \in Range(waitq[Target[c]]["CONNECT"])

CancelOutcomes(c, e) ==
  IF Done(c) THEN NoOutcome
  ELSE [d \in {c} \cup (IF Connecting(c) THEN Waiters(Target[c]) ELSE {}) |-> e]

CancelQueues(c) ==
  IF Done(c) THEN waitq
  ELSE IF Connecting(c) THEN [waitq EXCEPT ![Target[c]] = NoWaiters]
  ELSE [waitq EXCEPT ![Target[c]] = [k \in Waitable |-> Without(@[k], c)]]

CancelLocal(c, e) ==
  Commit(CancelOutcomes(c, e), {}) /\ waitq' = CancelQueues(c)

\* socket_owner_wake_recv, _wake_send and _wake_accept over the queue q: serve
\* from the head until the queue is empty or a blocking head gets EAGAIN.
ProbeOutcomes(c) ==
  IF cancelError[c] # None THEN {cancelError[c]}
  ELSE {"OK", "ERROR"} \cup (IF c \in NonBlock THEN {"EAGAIN"} ELSE {})

\* Seeded fault: the newest waiter is served first.
WakeQueueNewest(s, k, q) ==
  \E n \in 0..1 :
    LET served == {q[i] : i \in (Len(q) - n + 1)..Len(q)}
    IN  \E o \in [served -> {"OK", "ERROR"}] :
          /\ Commit(o, Range(q))
          /\ waitq' = [waitq EXCEPT ![s][k] = SubSeq(q, 1, Len(q) - n)]
          /\ Adopt({c \in served : k = "ACCEPT" /\ o[c] = "OK"})

WakeQueue(s, k, q) ==
  \E n \in 0..Len(q) :
    LET served == {q[i] : i \in 1..n}
    IN  /\ n < Len(q) => q[n + 1] \notin NonBlock /\ cancelError[q[n + 1]] = None
        /\ \E o \in [served -> Outcomes] :
             /\ \A c \in served : o[c] \in ProbeOutcomes(c)
             /\ Commit(o, Range(q))
             /\ waitq' = [waitq EXCEPT ![s][k] = SubSeq(q, n + 1, Len(q))]
             /\ Adopt({c \in served : k = "ACCEPT" /\ o[c] = "OK"})

\* owner_process_one, one operator per command type.
Finish(c, o) == Commit(Outcome(c, o), {}) /\ UNCHANGED <<sock, waitq, resultSock>>

Park(c) ==
  /\ Commit(NoOutcome, {c})
  /\ waitq' = [waitq EXCEPT ![Target[c]][Kind[c]] = Append(@, c)]
  /\ UNCHANGED <<sock, resultSock>>

ProcessCreate(c) ==
  \/ Commit(Outcome(c, "OK"), {}) /\ Adopt({c}) /\ UNCHANGED waitq
  \/ Finish(c, "ERROR")

ProcessConnect(c) ==
  \/ Finish(c, "ERROR")
  \/ c \notin NonBlock /\ waitq[Target[c]]["CONNECT"] = <<>> /\ Park(c)

ProcessSend(c) ==
  \/ \E o \in {"OK", "ERROR"} : Finish(c, o)
  \/ IF c \in NonBlock THEN Finish(c, "EAGAIN") ELSE Park(c)

ProcessQueued(c) ==
  \/ Finish(c, "ERROR")
  \/ WakeQueue(Target[c], Kind[c], Append(waitq[Target[c]][Kind[c]], c))

ProcessControl(c) == \E o \in {"OK", "ERROR"} : Finish(c, o)

ProcessClose(c) ==
  /\ \E o \in {"OK", "ERROR"} :
       Commit([d \in {c} \cup Waiters(Target[c]) |->
                 IF d = c THEN o ELSE "ECANCELED"], {})
  /\ waitq' = [waitq EXCEPT ![Target[c]] = NoWaiters]
  /\ \E life \in {"closed", "retired"} : sock' = [sock EXCEPT ![Target[c]] = life]
  /\ UNCHANGED resultSock

Process(c) ==
  IF Kind[c] = "CREATE" THEN ProcessCreate(c)
  ELSE IF sock[Target[c]] # "open" THEN Finish(c, "EBADF")
  ELSE CASE Kind[c] = "CONNECT"            -> ProcessConnect(c)
         [] Kind[c] = "SEND"               -> ProcessSend(c)
         [] Kind[c] \in {"RECV", "ACCEPT"} -> ProcessQueued(c)
         [] Kind[c] = "CONTROL"            -> ProcessControl(c)
         [] Kind[c] = "CLOSE"              -> ProcessClose(c)

\* command_start: e is the reason that stops the request before it runs.
StartCommand(c, e) ==
  /\ active' = active \cup {c}
  /\ IF e # None
     THEN CancelLocal(c, e) /\ UNCHANGED <<sock, resultSock>>
     ELSE Process(c) \/ (c \in Timed /\ Finish(c, "ERROR"))

-----------------------------------------------------------------------------
(***************************************************************************)
(* socket_owner_process_commands: close burst, data burst, cancellations,  *)
(* control notifications.                                                  *)
(***************************************************************************)
BeginTurn ==
  /\ opc = "io" /\ opc' = "close"
  /\ burst' = TakeBurst(ring["CLOSE"])
  /\ ring' = [ring EXCEPT !["CLOSE"] = AfterBurst(@)]
  /\ UNCHANGED <<callerVars, cmdVars, active, listVars, budget, accepting, sockVars>>

StartOne ==
  /\ opc \in {"close", "data"} /\ burst # <<>>
  /\ LET c == Head(burst)
     IN  StartCommand(c, IF cancelError[c] # None THEN cancelError[c]
                         ELSE IF c \in expired THEN "ETIMEDOUT" ELSE None)
  /\ burst' = Tail(burst)
  /\ UNCHANGED <<callerVars, refs, cancelError, claimed, ring, listVars, ownerVars>>

EndCloseBurst ==
  /\ opc = "close" /\ burst = <<>> /\ opc' = "data"
  /\ burst' = TakeBurst(ring["DATA"])
  /\ ring' = [ring EXCEPT !["DATA"] = AfterBurst(@)]
  /\ UNCHANGED <<callerVars, cmdVars, active, listVars, budget, accepting, sockVars>>

EndDataBurst ==
  /\ opc = "data" /\ burst = <<>> /\ opc' = "cancel"
  /\ budget' = Burst
  /\ UNCHANGED <<callerVars, cmdVars, ring, burst, active, listVars, accepting, sockVars>>

\* Seeded fault: a parked request is left to its wait queue.
CancelOneSkipsParked ==
  /\ opc = "cancel" /\ budget > 0 /\ cancelList # <<>>
  /\ LET c == Head(cancelList)
     IN  /\ IF state[c] \in {"QUEUED", "PARKED"} THEN UNCHANGED <<outcome, state, waitq>>
            ELSE CancelLocal(c, cancelError[c])
         /\ Put(c)
  /\ cancelList' = Tail(cancelList)
  /\ budget' = budget - 1
  /\ UNCHANGED <<callerVars, cancelError, claimed, resultSock, ring, burst,
                 active, controlList, batch, deferred, opc, accepting, sock>>

\* One iteration of command_cancellations.
CancelOne ==
  /\ opc = "cancel" /\ budget > 0 /\ cancelList # <<>>
  /\ LET c == Head(cancelList)
     IN  /\ IF state[c] = "QUEUED" THEN UNCHANGED <<outcome, state, waitq>>
            ELSE CancelLocal(c, cancelError[c])
         /\ Put(c)
  /\ cancelList' = Tail(cancelList)
  /\ budget' = budget - 1
  /\ UNCHANGED <<callerVars, cancelError, claimed, resultSock, ring, burst,
                 active, controlList, batch, deferred, opc, accepting, sock>>

\* command_controls detaches at most Burst notifications ...
TakeControls ==
  /\ opc = "cancel" /\ (budget = 0 \/ cancelList = <<>>)
  /\ opc' = "reap" /\ budget' = 0
  /\ batch' = TakeBurst(controlList)
  /\ controlList' = AfterBurst(controlList)
  /\ UNCHANGED <<callerVars, cmdVars, ring, burst, active, cancelList, deferred,
                 accepting, sockVars>>

\* ... keeps the ones whose command is still in a ring ...
DeferOne ==
  /\ opc = "reap" /\ batch # <<>>
  /\ state[Head(batch)] = "QUEUED"
  /\ deferred' = <<Head(batch)>> \o deferred
  /\ batch' = Tail(batch)
  /\ UNCHANGED <<callerVars, cmdVars, ring, burst, active, cancelList,
                 controlList, ownerVars, sockVars>>

\* Seeded fault: a result is taken for unclaimed whatever the caller did.
UnclaimedAlways(c) == Produces(c) /\ outcome[c] = "OK"

\* Seeded fault: no result is ever taken for unclaimed.
UnclaimedNever(c) == FALSE

\* ... and reaps the others (command_reap).  An unclaimed CREATE or ACCEPT
\* result is closed; the transport may retire the handle at once.
Unclaimed(c) == Produces(c) /\ outcome[c] = "OK" /\ ~claimed[c]

ReapOne ==
  /\ opc = "reap" /\ batch # <<>>
  /\ state[Head(batch)] # "QUEUED"
  /\ LET c == Head(batch)
         s == resultSock[c]
         e == IF cancelError[c] # None THEN cancelError[c] ELSE "ECANCELED"
     IN  /\ IF Unclaimed(c) /\ s \in Socks /\ sock[s] = "open"
            THEN \/ /\ sock' = [sock EXCEPT ![s] = "closed"]
                    /\ UNCHANGED <<outcome, state, waitq>>
                 \/ /\ sock' = [sock EXCEPT ![s] = "retired"]
                    /\ Commit(Aborted(s, "ECANCELED"), {})
                    /\ waitq' = [waitq EXCEPT ![s] = NoWaiters]
            ELSE CancelLocal(c, e) /\ UNCHANGED sock
         /\ active' = active \ {c}
         /\ refs' = [refs EXCEPT ![c] = @ - 2]
  /\ batch' = Tail(batch)
  /\ UNCHANGED <<callerVars, cancelError, claimed, resultSock, ring, burst,
                 cancelList, controlList, deferred, ownerVars>>

\* Seeded fault: deferred notifications are dropped.
EndTurnForgets ==
  /\ opc = "reap" /\ batch = <<>> /\ opc' = "io"
  /\ deferred' = <<>>
  /\ UNCHANGED <<callerVars, cmdVars, ring, burst, active, cancelList,
                 controlList, batch, budget, accepting, sockVars>>

EndTurn ==
  /\ opc = "reap" /\ batch = <<>> /\ opc' = "io"
  /\ controlList' = deferred \o controlList
  /\ deferred' = <<>>
  /\ UNCHANGED <<callerVars, cmdVars, ring, burst, active, cancelList, batch,
                 budget, accepting, sockVars>>

-----------------------------------------------------------------------------
(***************************************************************************)
(* The rest of the owner loop: timers and transport events.                *)
(***************************************************************************)

\* Seeded fault: the timer outlives the completion and overwrites its result.
CommandTimeoutLate(c) ==
  /\ opc = "io"
  /\ c \in active /\ c \in expired
  /\ outcome' = [outcome EXCEPT ![c] = "ETIMEDOUT"]
  /\ state' = [state EXCEPT ![c] = "CANCELLED"]
  /\ waitq' = CancelQueues(c)
  /\ UNCHANGED <<callerVars, refs, cancelError, claimed, resultSock, ring,
                 burst, active, listVars, ownerVars, sock>>

\* command_timeout: the timer of a started request is armed until it is done.
CommandTimeout(c) ==
  /\ opc = "io"
  /\ c \in active /\ c \in expired /\ ~Done(c)
  /\ CancelLocal(c, "ETIMEDOUT")
  /\ UNCHANGED <<callerVars, refs, cancelError, claimed, resultSock, ring,
                 burst, active, listVars, ownerVars, sock>>

\* Data, window space or a completed child reaches socket s.
TransportProgress(s) ==
  /\ opc = "io" /\ Resolves(s)
  /\ \E k \in {"RECV", "SEND", "ACCEPT"} :
       waitq[s][k] # <<>> /\ WakeQueue(s, k, waitq[s][k])
  /\ UNCHANGED <<callerVars, refs, cancelError, claimed, ring, burst, active,
                 listVars, ownerVars>>

\* socket_owner_complete_connect
ConnectSettles(s) ==
  /\ opc = "io" /\ waitq[s]["CONNECT"] # <<>>
  /\ \E o \in {"OK", "ERROR"} : Commit(Outcome(Head(waitq[s]["CONNECT"]), o), {})
  /\ waitq' = [waitq EXCEPT ![s]["CONNECT"] = Tail(@)]
  /\ UNCHANGED <<callerVars, refs, cancelError, claimed, resultSock, ring,
                 burst, active, listVars, ownerVars, sock>>

\* A reset or a fatal timer: every waiter fails, and the handle is retired if
\* the application has closed it.
StreamAborts(s) ==
  /\ opc = "io" /\ Resolves(s)
  /\ Commit(Aborted(s, "ERROR"), {})
  /\ waitq' = [waitq EXCEPT ![s] = NoWaiters]
  /\ sock' = [sock EXCEPT ![s] = IF @ = "closed" THEN "retired" ELSE @]
  /\ UNCHANGED <<callerVars, refs, cancelError, claimed, resultSock, ring,
                 burst, active, listVars, ownerVars>>

-----------------------------------------------------------------------------
(***************************************************************************)
(* socket_owner_shutdown_local.  It detaches both notification lists; since  *)
(* no caller adds to them once accepting is false they stay in place here.   *)
(***************************************************************************)

ShutdownBegins ==
  /\ opc = "io" /\ opc' = "drain"
  /\ accepting' = FALSE
  /\ UNCHANGED <<callerVars, cmdVars, ring, burst, active, listVars, budget,
                 sockVars>>

\* Each queued request is marked ENETDOWN, unless it was already cancelled,
\* and started, which completes it.
DrainRing(r) ==
  /\ opc = "drain" /\ ring[r] # <<>>
  /\ r = "DATA" => ring["CLOSE"] = <<>>
  /\ LET c == Head(ring[r])
         e == IF cancelError[c] = None THEN "ENETDOWN" ELSE cancelError[c]
     IN  /\ cancelError' = [cancelError EXCEPT ![c] = e]
         /\ StartCommand(c, e)
  /\ ring' = [ring EXCEPT ![r] = Tail(@)]
  /\ UNCHANGED <<callerVars, refs, claimed, burst, listVars, ownerVars>>

RingsEmpty == \A r \in Rings : ring[r] = <<>>

DrainActive(c) ==
  /\ opc = "drain" /\ RingsEmpty
  /\ c \in active /\ active' = active \ {c}
  /\ CancelLocal(c, "ENETDOWN")
  /\ Put(c)
  /\ UNCHANGED <<callerVars, cancelError, claimed, resultSock, ring, burst,
                 listVars, ownerVars, sock>>

DrainNotification ==
  /\ opc = "drain" /\ RingsEmpty /\ active = {}
  /\ \/ /\ controlList # <<>>
        /\ Put(Head(controlList)) /\ controlList' = Tail(controlList)
        /\ UNCHANGED cancelList
     \/ /\ controlList = <<>> /\ cancelList # <<>>
        /\ Put(Head(cancelList)) /\ cancelList' = Tail(cancelList)
        /\ UNCHANGED controlList
  /\ UNCHANGED <<callerVars, state, outcome, cancelError, claimed, resultSock,
                 ring, burst, active, batch, deferred, ownerVars, sockVars>>

\* Every application-visible socket is closed and destroyed.
ShutdownEnds ==
  /\ opc = "drain" /\ RingsEmpty /\ active = {}
  /\ controlList = <<>> /\ cancelList = <<>>
  /\ opc' = "stopped"
  /\ sock' = [s \in Socks |-> IF Resolves(s) THEN "retired" ELSE sock[s]]
  /\ Commit([c \in UNION {Waiters(s) : s \in Socks} |-> "ENETDOWN"], {})
  /\ waitq' = [s \in Socks |-> NoWaiters]
  /\ UNCHANGED <<callerVars, refs, cancelError, claimed, resultSock, ring,
                 burst, active, listVars, budget, accepting>>

-----------------------------------------------------------------------------
CallerStep(c) ==
  \/ Clone(c) \/ Submit(c) \/ WakeSubmitter(c) \/ WaitExpires(c)
  \/ ThreadCancelled(c) \/ NotifyCancel(c) \/ Return(c) \/ Release(c)
  \/ ResultRelease(c)

OwnerTurn ==
  \/ BeginTurn \/ StartOne \/ EndCloseBurst \/ EndDataBurst
  \/ CancelOne \/ TakeControls \/ DeferOne \/ ReapOne \/ EndTurn

TransportStep ==
  \E s \in Socks : TransportProgress(s) \/ ConnectSettles(s) \/ StreamAborts(s)

Shutdown ==
  \/ ShutdownBegins
  \/ \E r \in Rings : DrainRing(r)
  \/ \E c \in Cmds : DrainActive(c)
  \/ DrainNotification
  \/ ShutdownEnds

Next ==
  \/ \E c \in Cmds : CallerStep(c) \/ DeadlinePasses(c) \/ CommandTimeout(c)
  \/ OwnerTurn \/ TransportStep \/ Shutdown

Spec == Init /\ [][Next]_vars

\* A pass of the draining loops of socket_owner_shutdown_local.
DrainStep == \E c \in Cmds, r \in Rings : DrainRing(r) \/ DrainActive(c)

-----------------------------------------------------------------------------
(***************************************************************************)
(* Safety                                                                  *)
(***************************************************************************)
CallerHolds == {c \in Cmds : pc[c] \notin {"idle", "gone"}}
Queued      == Range(ring["CLOSE"]) \cup Range(ring["DATA"]) \cup Range(burst)
OwnerHolds  == Queued \cup active
Handed      == Range(controlList) \cup Range(batch) \cup Range(deferred)
One(c, S)   == IF c \in S THEN 1 ELSE 0

\* cmd->refs counts exactly the pointers to a request: its caller's, the
\* owner's (ring or active list), the cancellation notification's, and the
\* caller's after it was handed over by command_release_caller.  Hence
\* command_put frees a request only when nobody can reach it, and always then.
RefAccounting ==
  \A c \in Cmds : refs[c] = One(c, CallerHolds) + One(c, OwnerHolds)
                            + One(c, Range(cancelList)) + One(c, Handed)

\* The lists are intrusive (cancel_next, control_next, active_next): a request
\* linked twice would make one of them cyclic or free the request twice.
NoRepeat(q) == \A i, j \in 1..Len(q) : q[i] = q[j] => i = j
Apart(q, r) == Range(q) \cap Range(r) = {}

LinkedOnce ==
  /\ \A q \in {ring["CLOSE"], ring["DATA"], burst, cancelList, controlList,
               batch, deferred} : NoRepeat(q)
  /\ Apart(ring["CLOSE"], ring["DATA"])
  /\ \A r \in Rings : Apart(ring[r], burst)
  /\ Queued \cap active = {}
  /\ Apart(controlList, batch) /\ Apart(controlList, deferred) /\ Apart(batch, deferred)
  /\ Handed \cap CallerHolds = {}

\* A wait queue never holds a request that is finished or already reaped, and
\* nobody waits on a socket the application has closed: wake_* dereferences
\* every queued command.
WaitersLive ==
  \A s \in Socks : \A c \in Waiters(s) :
    c \in active /\ ~Done(c) /\ Target[c] = s /\ sock[s] = "open" /\ refs[c] > 0

\* An unfinished request whose caller waits is always somewhere the owner will
\* find it: in a ring or burst, or parked on its socket.
NoLostRequest ==
  \A c \in Cmds :
    pc[c] \in {"wait", "expiring"} /\ ~Done(c) => c \in Queued \/ c \in Waiters(Target[c])

\* Once a cancellation notification is consumed the request is finished, or is
\* still in a ring, where command_start will see cancel_error, or shutdown has
\* begun and is about to finish it.
CancelTakesEffect ==
  \A c \in Cmds :
    /\ cancelError[c] # None /\ pc[c] \notin {"expiring", "cancelling"}
    /\ c \notin Range(cancelList)
    => Done(c) \/ c \in Queued \/ (opc = "drain" /\ c \in active)

\* A socket created for a caller that never took it (cancelled while waiting,
\* or unable to publish a descriptor) is closed before its request is freed.
NoLeakedSocket ==
  \A c \in Cmds :
    /\ Produces(c) /\ outcome[c] = "OK" /\ ~claimed[c]
    /\ refs[c] = 0 /\ opc # "drain"
    => sock[resultSock[c]] # "open"

\* When the owner has stopped it holds no request and no socket, and no caller
\* is left waiting for a result that will not come.
StoppedClean ==
  opc = "stopped" =>
    /\ OwnerHolds = {} /\ Handed = {} /\ cancelList = <<>>
    /\ \A s \in Socks : ~Resolves(s)
    /\ \A c \in Cmds : pc[c] \in {"wait", "expiring"} => Done(c)

\* A socket the application has taken is never closed behind its back: only
\* its CLOSE, owner shutdown, or the reaping of an unclaimed result closes it.
OnlyOwnersClose ==
  [][\A s \in Socks : sock[s] = "open" /\ sock'[s] # "open" =>
       \/ opc = "close" /\ Kind[Head(burst)] = "CLOSE" /\ Target[Head(burst)] = s
       \/ opc = "drain"
       \/ \E c \in Cmds : resultSock[c] = s /\ ~claimed[c] /\ pc[c] = "gone"]_vars

\* Requests parked on one queue are served in the order they were parked: a
\* later one succeeds only if every earlier one has finished.
ServedInOrder ==
  [][\A s \in Socks, k \in Waitable : \A i, j \in DOMAIN waitq[s][k] :
       i < j /\ outcome'[waitq[s][k][j]] = "OK" => outcome'[waitq[s][k][i]] # Pending]_vars

-----------------------------------------------------------------------------
(***************************************************************************)
(* The inductive invariant behind RefAccounting and LinkedOnce: reaping    *)
(* drops two references because a handed-over request that has left its    *)
(* ring is on the active list, and starting a request cannot touch another *)
(* one because wait queues hold active requests only.                      *)
(***************************************************************************)
LifeCycle ==
  \A c \in Cmds :
    /\ c \in Queued => state[c] = "QUEUED" /\ ~Done(c)
    /\ c \in active => state[c] \notin {"NEW", "QUEUED"}
    /\ pc[c] \in {"idle", "submit", "sleep"} =>
         ~Done(c) /\ c \notin OwnerHolds \cup Handed \cup Range(cancelList)
    /\ accepting /\ (c \in Handed \/ pc[c] \notin {"idle", "submit", "sleep", "gone"})
         => c \in OwnerHolds
    /\ c \in Range(cancelList) \/ pc[c] \notin {"idle", "submit", "sleep", "gone"}
         => c \in OwnerHolds \/ Done(c)
    /\ c \in Range(cancelList) \/ pc[c] \in {"expiring", "cancelling"}
         => cancelError[c] # None
    /\ pc[c] \in {"expiring", "cancelling"} => c \notin Range(cancelList)

OwnerPhase ==
  /\ burst # <<>> => opc \in {"close", "data"}
  /\ batch # <<>> \/ deferred # <<>> => opc = "reap"
  /\ accepting <=> opc \notin {"drain", "stopped"}

ParkedSound ==
  /\ \A s \in Socks, k \in Waitable :
       /\ NoRepeat(waitq[s][k])
       /\ \A c \in Range(waitq[s][k]) :
            c \in active /\ ~Done(c) /\ Target[c] = s /\ Kind[c] = k
  /\ \A c \in active :
       ~Done(c) => Kind[c] \in Waitable /\ c \in Range(waitq[Target[c]][Kind[c]])

\* The conjunction that every step of the command channel preserves.
IInv ==
  TypeOK /\ RefAccounting /\ LinkedOnce /\ LifeCycle /\ OwnerPhase /\ ParkedSound

-----------------------------------------------------------------------------
(***************************************************************************)
(* The channel implements RequestService: a request is accepted when it is *)
(* enqueued and freed when its reference count returns to zero.            *)
(***************************************************************************)
Phase ==
  [c \in Cmds |-> IF pc[c] = "idle" THEN "idle"
                  ELSE IF pc[c] \in {"submit", "sleep"} THEN "asking"
                  ELSE IF refs[c] = 0 THEN "freed" ELSE "accepted"]

Service == INSTANCE RequestService WITH
             Requests <- Cmds, Results <- Outcomes, phase <- Phase, result <- outcome

\* socket_owner_complete answers every accepted request once, "completed side
\* effects always win" over a later cancellation, and command_put frees no
\* request that has no answer.
ImplementsService == Service!Spec
=============================================================================
