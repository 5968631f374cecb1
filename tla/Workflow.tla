------------------------------ MODULE Workflow ------------------------------
(***************************************************************************)
(* Business transactions of the traffic generator (workflow.c): a business *)
(* runs the steps of its plan one at a time, from a ready queue that the   *)
(* owner's tick drains; network steps wait for a flow's callback, think    *)
(* steps for a timer, and a business timer may end it at any point.        *)
(*                                                                         *)
(* A step is [kind, next, yes, no, to]; templates, values and comparisons  *)
(* are reduced to whether they succeed and which way a branch goes.        *)
(***************************************************************************)
EXTENDS Naturals, FiniteSets, Sequences

CONSTANTS
  Biz,        \* business objects of the engine
  Plan,       \* sequence of steps; step Len(Plan) + 1 is the end
  Conns,      \* flow objects for exchanges
  MaxConns,   \* connection limit of the pool
  MaxAdmits,  \* bound: admissions
  None

VARIABLES
  biz,     \* business -> fields
  free,    \* free list
  queue,   \* ready queue
  flight,  \* flow -> exchange in flight, parked connection, or None
  idle,    \* idle connections, newest first
  count,   \* step -> counters
  tally    \* admissions, results and the scheduler's active count

vars == <<biz, free, queue, flight, idle, count, tally>>

Steps == 1..Len(Plan)
End == Len(Plan) + 1
Network == {"http", "dns"}

Fresh == [active |-> FALSE, queued |-> FALSE, waiting |-> FALSE, thinking |-> FALSE,
          wake |-> FALSE, due |-> FALSE, timedOut |-> FALSE, failed |-> FALSE, late |-> FALSE,
          step |-> 1, visited |-> {}, skipped |-> {}, flow |-> None]
Zero == [reached |-> 0, started |-> 0, success |-> 0, failed |-> 0, startFailed |-> 0,
         skipped |-> 0, notReached |-> 0]

Init ==
  /\ biz = [b \in Biz |-> Fresh]
  /\ free \in {s \in [1..Cardinality(Biz) -> Biz] : \A i, j \in DOMAIN s : i # j => s[i] # s[j]}
  /\ queue = <<>>
  /\ flight = [c \in Conns |-> None]
  /\ idle = <<>>
  /\ count = [s \in Steps |-> Zero]
  /\ tally = [admitted |-> 0, ok |-> 0, bad |-> 0, active |-> 0]

Without(s, x) == SelectSeq(s, LAMBDA y : y # x)

-----------------------------------------------------------------------------
(* Pieces of a step. w is the record of the variables.                     *)

Now == [biz |-> biz, free |-> free, queue |-> queue, flight |-> flight, idle |-> idle,
        count |-> count, tally |-> tally]
Become(w) ==
  /\ biz' = w.biz /\ free' = w.free /\ queue' = w.queue /\ flight' = w.flight
  /\ idle' = w.idle /\ count' = w.count /\ tally' = w.tally

\* Notifications coalesce, and an inactive object is ignored.
\* Seeded fault: a response and a timeout each queue the object.
EnqueueTwice(w, b) ==
  IF ~w.biz[b].active THEN w ELSE [w EXCEPT !.queue = Append(@, b), !.biz[b].queued = TRUE]
Enqueue(w, b) ==
  IF ~w.biz[b].active \/ w.biz[b].queued THEN w
  ELSE [w EXCEPT !.queue = Append(@, b), !.biz[b].queued = TRUE]

RecordStep(w, b, ok, startFailed) ==
  [w EXCEPT !.count[w.biz[b].step] =
     [@ EXCEPT !.success = IF ok THEN @ + 1 ELSE @,
               !.failed = IF ok THEN @ ELSE @ + 1,
               !.startFailed = IF startFailed THEN @ + 1 ELSE @]]

Advance(w, b, next) ==
  LET jumped == {s \in Steps : w.biz[b].step < s /\ s < next}
  IN [w EXCEPT !.count = [s \in Steps |-> IF s \in jumped THEN [@[s] EXCEPT !.skipped = @ + 1] ELSE @[s]],
               !.biz[b] = [@ EXCEPT !.step = next, !.skipped = @ \cup jumped]]

CloseFlow(w, c) == [w EXCEPT !.flight[c] = None, !.idle = Without(@, c)]

\* finish: one result, both timers cancelled, an outstanding exchange closed
\* without a callback, the object back on the free list.
Finish(w, b, ok) ==
  LET r == w.biz[b]
      x == IF r.waiting THEN CloseFlow(w, r.flow) ELSE w
      lost == Steps \ (r.visited \cup r.skipped)
  IN [x EXCEPT !.biz[b] = Fresh, !.free = <<b>> \o @,
               !.count = [s \in Steps |-> IF s \in lost THEN [@[s] EXCEPT !.notReached = @ + 1] ELSE @[s]],
               !.tally = [@ EXCEPT !.active = @ - 1, !.ok = IF ok THEN @ + 1 ELSE @,
                                   !.bad = IF ok THEN @ ELSE @ + 1]]

-----------------------------------------------------------------------------
(* Network steps.                                                          *)

Open(w) == {c \in Conns : w.flight[c] # None /\ w.flight[c].http}
CanCreate(w) == Cardinality(Open(w)) < MaxConns
Unused(w) == {c \in Conns : w.flight[c] = None}

\* tg_conn_pool_take_matching compares the peer the flow recorded.
\* tg_flow_start_tcp records none; tg_flow_start_udp does.
RecordedPeer(http, to) == IF http THEN None ELSE to

TakeMatching(w, to) ==
  LET hits == {i \in DOMAIN w.idle : w.flight[w.idle[i]].peer = to}
  IN IF hits = {} THEN None ELSE w.idle[CHOOSE i \in hits : \A j \in hits : i <= j]

Waiting(w, b, c) ==
  [w EXCEPT !.biz[b] = [@ EXCEPT !.waiting = TRUE, !.flow = c, !.late = FALSE],
            !.flight[c].biz = b, !.flight[c].parked = FALSE, !.idle = Without(@, c)]

\* A new flow, after an idle connection made room if one had to.
StartNew(w, b, http, to) ==
  LET full == Unused(w) = {} \/ (http /\ ~CanCreate(w))
      v == IF full /\ w.idle # <<>> THEN CloseFlow(w, Head(w.idle)) ELSE w
      room == Unused(v) # {} /\ (http => CanCreate(v))
  IN {[w |-> v, ok |-> FALSE]} \cup
     (IF ~room THEN {}
      ELSE {LET c == CHOOSE x \in Unused(v) : TRUE
            IN [w |-> Waiting([v EXCEPT !.flight[c] =
                         [biz |-> b, to |-> to, peer |-> RecordedPeer(http, to), http |-> http,
                          parked |-> FALSE]], b, c),
                ok |-> TRUE]})

\* network: template errors, an unusable idle connection (ESTALE) that is
\* replaced, a failed reuse that is not, or a new flow.
NetworkStep(w, b) ==
  LET s == Plan[w.biz[b].step]
      c == IF s.kind = "http" THEN TakeMatching(w, s.to) ELSE None
  IN {[w |-> w, ok |-> FALSE]} \cup
     (IF c = None THEN StartNew(w, b, s.kind = "http", s.to)
      ELSE {[w |-> Waiting(w, b, c), ok |-> TRUE], [w |-> CloseFlow(w, c), ok |-> FALSE]}
           \cup StartNew(CloseFlow(w, c), b, TRUE, s.to))

\* response: the flow layer reports an exchange. ok: it succeeded and its
\* checks and extractions hold; keep: the connection is parked afterwards.
Good(b, ok) == ok /\ ~biz[b].late

Response(c, ok, keep) ==
  LET x == flight[c]
      b == x.biz
      parked == keep /\ x.http
      w == [Now EXCEPT !.flight[c] = IF parked THEN [x EXCEPT !.biz = None, !.parked = TRUE] ELSE None,
                       !.idle = IF parked THEN <<c>> \o @ ELSE @]
      a == [w EXCEPT !.biz[b] = [@ EXCEPT !.waiting = FALSE, !.flow = None, !.late = FALSE]]
      r == RecordStep(a, b, Good(b, ok), FALSE)
  IN /\ x # None /\ ~x.parked
     /\ IF ~biz[b].active \/ ~biz[b].waiting THEN Become(w)
        ELSE Become(Enqueue(IF Good(b, ok) THEN Advance(r, b, Plan[biz[b].step].next)
                            ELSE [r EXCEPT !.biz[b].failed = TRUE], b))

\* An idle connection is closed by its peer or by its idle timer.
IdleCloses(c) == flight[c] # None /\ flight[c].parked /\ Become(CloseFlow(Now, c))

-----------------------------------------------------------------------------
(* Timers and the clock.                                                   *)

StepLate(b) ==
  /\ biz[b].waiting /\ ~biz[b].late
  /\ Become([Now EXCEPT !.biz[b].late = TRUE])

\* The flow's timer, armed with the step deadline, reports a failure.
FlowExpires(c) ==
  /\ flight[c] # None /\ ~flight[c].parked /\ biz[flight[c].biz].late
  /\ Response(c, FALSE, FALSE)

BizDue(b) ==
  /\ biz[b].active /\ ~biz[b].due
  /\ Become([Now EXCEPT !.biz[b].due = TRUE])

\* Seeded fault: the flag is set and the object is left to its next event.
TimeoutCbQuiet(b) ==
  /\ biz[b].active /\ biz[b].due /\ ~biz[b].timedOut
  /\ Become([Now EXCEPT !.biz[b].timedOut = TRUE])
TimeoutCb(b) ==
  /\ biz[b].active /\ biz[b].due /\ ~biz[b].timedOut
  /\ Become(Enqueue([Now EXCEPT !.biz[b].timedOut = TRUE], b))

WakeCb(b) ==
  /\ biz[b].wake
  /\ Become(Enqueue([Now EXCEPT !.biz[b].wake = FALSE], b))

-----------------------------------------------------------------------------
(* Admission and the tick.                                                 *)

\* tg_workflow_start; the scheduler counts the admission when it succeeds.
Start ==
  /\ free # <<>> /\ tally.admitted < MaxAdmits
  /\ LET b == Head(free)
         w == [Now EXCEPT !.free = Tail(@), !.biz[b] = [Fresh EXCEPT !.active = TRUE],
                          !.tally.admitted = @ + 1, !.tally.active = @ + 1]
     IN Become(Enqueue(w, b))

\* Think: a delay of zero is queued at once; arming the timer may fail.
Think(w, b) ==
  LET t == [w EXCEPT !.biz[b].thinking = TRUE]
  IN {Enqueue(t, b), [t EXCEPT !.biz[b].wake = TRUE], Finish(RecordStep(t, b, FALSE, FALSE), b, FALSE)}

Branch(w, b) ==
  LET s == Plan[w.biz[b].step]
  IN {Enqueue(Advance(RecordStep(w, b, TRUE, FALSE), b, n), b) : n \in {s.yes, s.no}} \cup
     {Finish(RecordStep(w, b, FALSE, FALSE), b, FALSE)}

RunStep(w, b) ==
  LET k == w.biz[b].step
      r == [w EXCEPT !.biz[b].visited = @ \cup {k}, !.count[k].reached = @ + 1]
      begun == [r EXCEPT !.count[k].started = @ + 1]
  IN CASE Plan[k].kind \in Network ->
            {IF n.ok THEN [n.w EXCEPT !.count[k].started = @ + 1]
             ELSE Finish(RecordStep(n.w, b, FALSE, TRUE), b, FALSE) : n \in NetworkStep(r, b)}
       [] Plan[k].kind = "branch" -> Branch(begun, b)
       [] Plan[k].kind = "think" -> Think(begun, b)

\* A step in progress when the business times out has failed.
Interrupted(w, b) ==
  IF (w.biz[b].waiting \/ w.biz[b].thinking) /\ w.biz[b].step < End
  THEN RecordStep(w, b, FALSE, FALSE) ELSE w

\* One pop of tg_workflow_tick.
Tick ==
  /\ queue # <<>>
  /\ LET b == Head(queue)
         w == [Now EXCEPT !.queue = Tail(@), !.biz[b].queued = FALSE]
         r == w.biz[b]
     IN \E x \in
          CASE r.timedOut \/ r.due -> {Finish(Interrupted(w, b), b, FALSE)}
            [] ~(r.timedOut \/ r.due) /\ r.failed -> {Finish(w, b, FALSE)}
            [] ~(r.timedOut \/ r.due \/ r.failed) /\ r.step = End -> {Finish(w, b, TRUE)}
            [] ~(r.timedOut \/ r.due \/ r.failed) /\ r.step # End /\ r.thinking ->
                 {Enqueue(Advance(RecordStep([w EXCEPT !.biz[b].thinking = FALSE], b, TRUE, FALSE),
                                  b, Plan[r.step].next), b)}
            [] OTHER -> RunStep(w, b) :
          Become(x)

Next ==
  \/ Start \/ Tick
  \/ \E b \in Biz : StepLate(b) \/ BizDue(b) \/ TimeoutCb(b) \/ WakeCb(b)
  \/ \E c \in Conns : FlowExpires(c) \/ IdleCloses(c) \/ \E ok, keep \in BOOLEAN : Response(c, ok, keep)

Spec == Init /\ [][Next]_vars

-----------------------------------------------------------------------------
(* Properties.                                                             *)

TypeOK ==
  /\ \A b \in Biz : biz[b].step \in 1..End /\ biz[b].flow \in Conns \cup {None}
  /\ Cardinality(Open(Now)) <= MaxConns
  /\ \A i \in DOMAIN queue : queue[i] \in Biz

\* The counters of workflow.h balance at every moment, not only after the
\* drain: a step reached was started or failed to start, and has ended or is
\* in progress; every admission reached it, skipped it, lost it or may yet.
StepBooks ==
  \A s \in Steps :
    LET k == count[s]
        here == {b \in Biz : biz[b].active /\ biz[b].step = s /\ (biz[b].waiting \/ biz[b].thinking)}
        ahead == {b \in Biz : biz[b].active /\ s \notin biz[b].visited \cup biz[b].skipped}
    IN /\ k.reached = k.started + k.startFailed
       /\ k.reached = k.success + k.failed + Cardinality(here)
       /\ k.reached + k.skipped + k.notReached + Cardinality(ahead) = tally.admitted

\* Each admitted business gives exactly one result and one slot back, and an
\* object is on the free list or active, never free while it is queued (the
\* two lists share one link field).
OneResultEach ==
  /\ tally.admitted = tally.ok + tally.bad + tally.active
  /\ tally.active = Cardinality({b \in Biz : biz[b].active})
  /\ \A b \in Biz : biz[b].active # (\E i \in DOMAIN free : free[i] = b)
  /\ \A b \in Biz : Cardinality({i \in DOMAIN queue : queue[i] = b}) = IF biz[b].queued THEN 1 ELSE 0
  /\ \A b \in Biz : biz[b].queued => biz[b].active

\* An exchange in flight belongs to the business that waits for it, and a
\* business is run while it waits only to be timed out: no callback of an
\* earlier life reaches a reused object, and no second request is started.
ExchangeOwned ==
  /\ \A c \in Conns : flight[c] # None /\ ~flight[c].parked =>
        biz[flight[c].biz].waiting /\ biz[flight[c].biz].flow = c
  /\ \A b \in Biz : biz[b].queued /\ (biz[b].waiting \/ biz[b].wake) => biz[b].timedOut

\* A network step succeeds only in time: an answer that comes after the step
\* deadline but before the flow's timer is handled counts as a failure.
InTime ==
  \A b \in Biz : biz[b].waiting /\ biz[b].late =>
     \A s \in Steps : s = biz[b].step => (biz'[b].step = s \/ ~biz'[b].active)

=============================================================================
