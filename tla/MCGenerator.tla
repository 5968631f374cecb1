---------------------------- MODULE MCGenerator -----------------------------
(***************************************************************************)
(* The traffic generator: flows, workflows, the arrival scheduler and the  *)
(* end of a run.  A behaviour plays one scenario; the other components     *)
(* stay in their initial states.                                           *)
(***************************************************************************)
EXTENDS Drain, Sequences, Integers

CONSTANTS None

VARIABLES
    scenario,
    flow, free, map, idle, conn, sched, sock, ready, tally,
    biz, freeBiz, queue, flight, idleConns, count, results,
    now, started, stopped, last, phase, start, consumed, seen, offset, cursor,
    active, paused, planned, attempted, skipped, issued, early

\* Two flows and two socket numbers: for one connection that is kept alive for
\* two requests, and for two connections of one request each.
KeepAlive == INSTANCE Flow WITH
    Flows <- {"f", "g"}, Ids <- {1, 2}, Classes <- {"tcp"}, MaxConns <- 1, MaxRequests <- 2, MaxActive <- 2,
    MaxStarts <- 2, ReqLen <- 1, MaxRx <- 1, Pieces <- {"bad", "keep"}
Pair == INSTANCE Flow WITH
    Flows <- {"f", "g"}, Ids <- {1, 2}, Classes <- {"tcp"}, MaxConns <- 2, MaxRequests <- 1, MaxActive <- 2,
    MaxStarts <- 2, ReqLen <- 1, MaxRx <- 1, Pieces <- {"keep"}
\* Both transports, requests sent in parts, and every kind of answer.
Mixed == INSTANCE Flow WITH
    Flows <- {"f"}, Ids <- {1}, Classes <- {"tcp", "udp"}, MaxConns <- 1, MaxRequests <- 0, MaxActive <- 1,
    MaxStarts <- 2, ReqLen <- 2, MaxRx <- 1, Pieces <- {"more", "bad", "big", "keep", "peer", "done"}
\* One flow and one start.
OneStart == INSTANCE Flow WITH
    Flows <- {"f"}, Ids <- {1}, Classes <- {"tcp"}, MaxConns <- 1, MaxRequests <- 0, MaxActive <- 1,
    MaxStarts <- 1, ReqLen <- 2, MaxRx <- 1, Pieces <- {"more", "bad", "big", "keep", "peer", "done"}

\* A plan that resolves a name, branches over a think step and ends with a request.
Step(k, n, y, o, t) == [kind |-> k, next |-> n, yes |-> y, no |-> o, to |-> t]
Business == INSTANCE Workflow WITH
    Biz <- {"b", "c"}, Conns <- {1, 2}, MaxConns <- 1, MaxAdmits <- 3,
    Plan <- << Step("dns", 2, 2, 2, "r"), Step("branch", 3, 3, 4, "r"),
               Step("think", 4, 4, 4, "r"), Step("http", 5, 5, 5, "s") >>,
    free <- freeBiz, idle <- idleConns, tally <- results

\* A constant phase whose rate two shards cannot share evenly, a ramp, and
\* three classes' worth of weight.
Arrivals == INSTANCE Scheduler WITH
    Shards <- 2, Weights <- <<2, 1>>, Cursor0 <- [s \in 0..1 |-> s], Hz <- 4, MaxConcurrency <- 2, Budget <- 2,
    MaxNow <- 9,
    Phases <- << [sec |-> 1, start |-> 3, target |-> 3], [sec |-> 1, start |-> 1, target |-> 4] >>

flowVars == <<flow, free, map, idle, conn, sched, sock, ready, tally>>
workVars == <<biz, freeBiz, queue, flight, idleConns, count, results>>
schedVars == <<now, started, stopped, last, phase, start, consumed, seen, offset, cursor,
               active, paused, planned, attempted, skipped, issued, early>>
drainVars == <<shard, remaining, stop, main>>
runVars == <<scenario, flowVars, workVars, schedVars, drainVars>>

RunInit ==
    /\ scenario \in {"keep alive", "pair", "mixed", "business", "arrivals", "drain"}
    /\ IF scenario = "mixed" THEN Mixed!Init ELSE KeepAlive!Init
    /\ Business!Init /\ Arrivals!Init /\ Init
    /\ free[1] = "f" /\ freeBiz[1] = "b"   \* objects are interchangeable

RunNext ==
    \/ scenario = "keep alive" /\ KeepAlive!Next /\ UNCHANGED <<scenario, workVars, schedVars, drainVars>>
    \/ scenario = "pair" /\ Pair!Next /\ UNCHANGED <<scenario, workVars, schedVars, drainVars>>
    \/ scenario = "mixed" /\ Mixed!Next /\ UNCHANGED <<scenario, workVars, schedVars, drainVars>>
    \/ scenario = "business" /\ Business!Next /\ UNCHANGED <<scenario, flowVars, schedVars, drainVars>>
    \/ scenario = "arrivals" /\ Arrivals!Next /\ UNCHANGED <<scenario, flowVars, workVars, drainVars>>
    \/ scenario = "drain" /\ Next /\ UNCHANGED <<scenario, flowVars, workVars, schedVars>>

RunSpec == RunInit /\ [][RunNext]_runVars

TailSpec ==
    /\ scenario = "tail" /\ OneStart!Init /\ Business!Init /\ Arrivals!Init /\ Init
    /\ freeBiz[1] = "b"
    /\ [][OneStart!Next /\ UNCHANGED <<scenario, workVars, schedVars, drainVars>>]_runVars

----------------------------------------------------------------------------
(* Properties *)

\* Free list, socket map, connection count, idle list and socket counts agree
\* after every callback; each admitted transaction ends in exactly one result;
\* and nothing in use waits without a timer (flow.c, conn_pool.c).
FlowsAccounted ==
    /\ scenario = "keep alive" => /\ KeepAlive!BooksAgree /\ KeepAlive!OneResultEach
                                  /\ KeepAlive!AlwaysWatched /\ KeepAlive!NoOrphanSocket
    /\ scenario = "pair" => Pair!BooksAgree /\ Pair!OneResultEach /\ Pair!AlwaysWatched /\ Pair!NoOrphanSocket
    /\ scenario = "mixed" => Mixed!TypeOK /\ Mixed!BooksAgree /\ Mixed!OneResultEach /\ Mixed!AlwaysWatched

\* A step never charges one transaction with what happened to another: a flow
\* fails by its own timeout or socket, a request goes only on a connection
\* nothing is known against, and a late answer never counts as a success
\* (tg_flow_map_lookup, tg_flow_rearm_tcp, tg_workflow_flow_done).
StepsJustified ==
    [][/\ scenario = "keep alive" => KeepAlive!OwnTroubleOnly /\ KeepAlive!ReuseIsFresh
       /\ scenario = "pair" => Pair!OwnTroubleOnly
       /\ scenario = "business" => Business!InTime]_runVars

\* The counters of every workflow step balance, each admitted business gives
\* one result and one slot back, and an exchange in flight belongs to the
\* business that waits for it (workflow.c).
BusinessAccounted ==
    scenario = "business" => /\ Business!TypeOK /\ Business!StepBooks
                             /\ Business!OneResultEach /\ Business!ExchangeOwned

\* The shards of a run dispatch its plan: every arrival once, with a number of
\* its own, not before it is due, in the planned class mix, skipped or not
\* (tg_scheduler_tick, tg_scheduler_skip).
PlanFollowed ==
    scenario = "arrivals" => /\ Arrivals!TypeOK /\ Arrivals!ArrivalsAccounted /\ Arrivals!PlanCompleted
                             /\ Arrivals!OrdinalsUnique /\ Arrivals!ClassMixKept /\ Arrivals!NeverBeforeDue

\* Violated: "connection is reusable" is what TG_FLOW_IDLE means, so a flow is
\* not parked with a request half sent (flow.h).
IdleIsReusable == OneStart!IdleIsReusable
=============================================================================
