---------------------------- MODULE DrainProofs -----------------------------
(***************************************************************************)
(* Proofs about Drain for every set of workers, every choice of scheduling *)
(* shards and any number of flows: DrainSound is inductive.                *)
(***************************************************************************)
EXTENDS Drain, FiniteSetTheorems, TLAPS

----------------------------------------------------------------------------
(* What the operators on a shard record return *)

\* The socket counters never go below zero, a shard has no more sockets than
\* it started flows, and what a shard that has not drained becomes between
\* ticks is again such a shard (tg_flow_finish_transaction, tg_drain_timer_cb).
LEMMA EndedShard ==
    ASSUME NEW h \in ShardType, h.active > 0, Live(h) <= h.starts,
           NEW to \in {"idle", "closing", "gone"}
    PROVE  /\ Ended(h, to) \in ShardType
           /\ Live(Ended(h, to)) <= Ended(h, to).starts
           /\ Ended(h, to).drained = h.drained /\ Ended(h, to).pc = h.pc
           /\ Ended(h, to).forced = h.forced
<1> DEFINE i == IF to = "idle" THEN h.idle + 1 ELSE h.idle
           c == IF to = "closing" THEN h.closing + 1 ELSE h.closing
<1>1. h.active - 1 \in Nat /\ i \in Nat /\ c \in Nat /\ h.active - 1 + i + c <= Live(h)
  BY DEF ShardType, Live
<1>2. Ended(h, to) = [h EXCEPT !.active = h.active - 1, !.idle = i, !.closing = c]
  BY Zenon DEF Ended
<1> HIDE DEF i, c
<1>3. Ended(h, to) \in ShardType
  BY Zenon, <1>1, <1>2 DEF ShardType
<1>4. /\ Ended(h, to).active = h.active - 1 /\ Ended(h, to).idle = i /\ Ended(h, to).closing = c
      /\ Ended(h, to).starts = h.starts /\ Ended(h, to).drained = h.drained
      /\ Ended(h, to).pc = h.pc /\ Ended(h, to).forced = h.forced
  BY Zenon, <1>2 DEF ShardType
<1>5. Live(h) \in Nat /\ h.starts \in Nat
  BY DrainAssumption DEF ShardType, Live
<1> QED BY <1>1, <1>3, <1>4, <1>5 DEF Live

\* What tg_shard_tick does before it looks at the drain keeps the counters: a
\* reused connection comes from the idle ones and closing loses none.
LEMMA BeforeShard ==
    ASSUME NEW h \in ShardType, Live(h) <= h.starts,
           NEW expired \in 0..h.active, NEW reused \in 0..MaxStarts, NEW fresh \in 0..MaxStarts,
           NEW ends \in BOOLEAN, MayAdmit(Expire(h, expired), reused, fresh)
    PROVE  LET b == Before(h, expired, reused, fresh, ends)
           IN  /\ b \in ShardType /\ Live(b) <= b.starts
               /\ b.drained = h.drained /\ b.pc = h.pc /\ (h.stopped => b.stopped)
               /\ b.timer = h.timer /\ b.clean = h.clean /\ b.forced = h.forced
               /\ (h.stopped /\ Live(h) = 0 => Live(b) = 0)
<1> DEFINE e == Expire(h, expired)
           a == Admit(e, reused, fresh)
           s == [a EXCEPT !.stopped = @ \/ ends]
<1>1. /\ e \in ShardType /\ Live(e) = Live(h)
      /\ e.starts = h.starts /\ e.stopped = h.stopped /\ e.drained = h.drained /\ e.pc = h.pc
      /\ e.timer = h.timer /\ e.clean = h.clean /\ e.forced = h.forced
  <2>1. h.active - expired \in Nat /\ h.closing + expired \in Nat
    BY DEF ShardType
  <2>2. e \in ShardType
    BY Zenon, <2>1 DEF ShardType, Expire
  <2>3. e.active = h.active - expired /\ e.idle = h.idle /\ e.closing = h.closing + expired
    BY Zenon DEF ShardType, Expire
  <2>4. Live(e) = Live(h)
    <3> HIDE DEF e
    <3> QED BY <2>3 DEF ShardType, Live
  <2> QED BY Zenon, <2>2, <2>4 DEF ShardType, Expire
<1>2. /\ a \in ShardType /\ Live(a) = Live(e) + fresh /\ a.starts = e.starts + reused + fresh
      /\ a.stopped = e.stopped /\ a.drained = e.drained /\ a.pc = e.pc
      /\ a.timer = e.timer /\ a.clean = e.clean /\ a.forced = e.forced
      /\ (e.stopped => fresh = 0)
  <2> HIDE DEF e
  <2>1. /\ reused \in Nat /\ fresh \in Nat /\ e.active + reused + fresh \in Nat /\ e.idle - reused \in Nat
        /\ e.starts + reused + fresh \in 0..MaxStarts /\ (e.stopped => fresh = 0)
    BY <1>1, DrainAssumption DEF ShardType, MayAdmit, e
  <2>2. a \in ShardType
    BY Zenon, <1>1, <2>1 DEF ShardType, Admit
  <2>3. /\ a.active = e.active + reused + fresh /\ a.idle = e.idle - reused /\ a.closing = e.closing
        /\ a.starts = e.starts + reused + fresh
        /\ a.stopped = e.stopped /\ a.drained = e.drained /\ a.pc = e.pc
        /\ a.timer = e.timer /\ a.clean = e.clean /\ a.forced = e.forced
    BY Zenon, <1>1 DEF ShardType, Admit
  <2>4. Live(a) = Live(e) + fresh
    <3> HIDE DEF a
    <3> QED BY <1>1, <2>1, <2>3 DEF ShardType, Live
  <2> QED BY Zenon, <2>1, <2>2, <2>3, <2>4
<1>3. /\ s \in ShardType /\ Live(s) = Live(a) /\ s.starts = a.starts
      /\ s.stopped = (a.stopped \/ ends) /\ s.drained = a.drained /\ s.pc = a.pc
      /\ s.timer = a.timer /\ s.clean = a.clean /\ s.forced = a.forced
  <2> HIDE DEF a
  <2> QED BY Zenon, <1>2 DEF ShardType, Live
<1>4. LET b == CloseIdle(s)
      IN  /\ b \in ShardType /\ Live(b) = Live(s) /\ b.starts = s.starts
          /\ b.stopped = s.stopped /\ b.drained = s.drained /\ b.pc = s.pc
          /\ b.timer = s.timer /\ b.clean = s.clean /\ b.forced = s.forced
  <2> HIDE DEF s
  <2> DEFINE c == [s EXCEPT !.draining = TRUE, !.idle = 0, !.closing = s.closing + s.idle]
  <2>1. c \in ShardType
    <3>1. s.closing + s.idle \in Nat
      BY <1>3 DEF ShardType
    <3> QED BY Zenon, <1>3, <3>1 DEF ShardType
  <2>2. /\ c.active = s.active /\ c.idle = 0 /\ c.closing = s.closing + s.idle /\ c.starts = s.starts
        /\ c.stopped = s.stopped /\ c.drained = s.drained /\ c.pc = s.pc
        /\ c.timer = s.timer /\ c.clean = s.clean /\ c.forced = s.forced
    BY Zenon, <1>3 DEF ShardType
  <2>3. CloseIdle(s) = c \/ CloseIdle(s) = s
    BY Zenon DEF CloseIdle
  <2> HIDE DEF c
  <2>4. Live(c) = Live(s)
    BY <1>3, <2>2 DEF ShardType, Live
  <2> QED BY Zenon, <1>3, <2>1, <2>2, <2>3, <2>4
<1>5. Before(h, expired, reused, fresh, ends) = CloseIdle(s)
  BY Zenon DEF Before
<1>6. Live(h) \in Nat /\ h.starts \in Nat /\ Live(a) <= a.starts
  <2> HIDE DEF a, e
  <2> QED BY <1>1, <1>2, DrainAssumption DEF ShardType, Live
<1> HIDE DEF s, a, e
<1> QED BY <1>1, <1>2, <1>3, <1>4, <1>5, <1>6 DEF ShardType

\* The second half of tg_shard_tick for a shard that is stopped and has no
\* transaction: arming the drain timer keeps every socket, reclaiming leaves
\* none, and a shard that finishes is empty and without a timer.
LEMMA StartDrainShard ==
    ASSUME NEW h \in ShardType, NEW armed \in BOOLEAN, NEW held \in BOOLEAN
    PROVE  LET g == StartDrain(h, armed, held)
           IN  /\ g \in ShardType /\ Live(g) = Live(h) /\ g.active = h.active /\ g.starts = h.starts
               /\ g.drained = h.drained /\ g.pc = h.pc /\ g.stopped = h.stopped /\ g.forced = h.forced
<1> DEFINE t == [h EXCEPT !.started = TRUE, !.timer = armed, !.expired = h.expired \/ ~armed]
<1>1. t \in ShardType
  BY Zenon DEF ShardType
<1>2. /\ t.active = h.active /\ t.idle = h.idle /\ t.closing = h.closing /\ t.starts = h.starts
      /\ t.drained = h.drained /\ t.pc = h.pc /\ t.stopped = h.stopped /\ t.forced = h.forced
  BY Zenon DEF ShardType
<1>3. StartDrain(h, armed, held) = t \/ StartDrain(h, armed, held) = h
  BY Zenon DEF StartDrain
<1> HIDE DEF t
<1> QED BY Zenon, <1>1, <1>2, <1>3 DEF Live

LEMMA ForceShard ==
    ASSUME NEW h \in ShardType, Live(h) <= h.starts
    PROVE  LET g == ForceCleanup(h)
           IN  /\ g \in ShardType /\ Live(g) <= g.starts /\ g.active = h.active
               /\ g.drained = h.drained /\ g.pc = h.pc /\ g.stopped = h.stopped
               /\ (Live(h) = 0 => Live(g) = 0)
               /\ (~h.forced /\ g.forced /\ h.active = 0 => Live(g) = 0)
<1> DEFINE f == [h EXCEPT !.forced = TRUE, !.idle = 0, !.closing = 0]
<1>1. f \in ShardType
  BY Zenon DEF ShardType
<1>2. /\ f.active = h.active /\ f.idle = 0 /\ f.closing = 0 /\ f.starts = h.starts
      /\ f.drained = h.drained /\ f.pc = h.pc /\ f.stopped = h.stopped
  BY Zenon DEF ShardType
<1>3. ForceCleanup(h) = f \/ ForceCleanup(h) = h
  BY Zenon DEF ForceCleanup
<1> HIDE DEF f
<1> QED BY <1>1, <1>2, <1>3, DrainAssumption DEF Live, ShardType

LEMMA FinishShard ==
    ASSUME NEW h \in ShardType, Live(h) = 0, NEW pc \in {"turn", "stop", "exit"}
    PROVE  LET g == [Finish(h) EXCEPT !.pc = pc]
           IN  /\ g \in ShardType /\ Live(g) = 0 /\ g.starts = h.starts /\ g.pc = pc
               /\ g.stopped = h.stopped /\ g.drained /\ ~g.timer
               /\ g.clean = ~g.forced
<1> DEFINE f == [h EXCEPT !.drained = TRUE, !.timer = FALSE, !.clean = ~h.forced /\ Live(h) = 0]
           g == [f EXCEPT !.pc = pc]
<1>1. f \in ShardType
  BY Zenon DEF ShardType
<1>2. /\ f.active = h.active /\ f.idle = h.idle /\ f.closing = h.closing /\ f.starts = h.starts
      /\ f.stopped = h.stopped /\ f.forced = h.forced
  BY Zenon DEF ShardType
<1>3. f.drained /\ ~f.timer /\ f.clean = ~f.forced
  BY Zenon DEF ShardType
<1> HIDE DEF f
<1>4. g \in ShardType
  BY Zenon, <1>1 DEF ShardType
<1>5. /\ g.active = f.active /\ g.idle = f.idle /\ g.closing = f.closing /\ g.starts = f.starts
      /\ g.stopped = f.stopped /\ g.forced = f.forced /\ g.clean = f.clean
      /\ g.drained = f.drained /\ g.timer = f.timer /\ g.pc = pc
  BY Zenon, <1>1 DEF ShardType
<1> HIDE DEF g
<1>6. g = [Finish(h) EXCEPT !.pc = pc]
  BY Zenon DEF Finish, f, g
<1> QED BY Zenon, <1>2, <1>3, <1>4, <1>5, <1>6 DEF Live

----------------------------------------------------------------------------
(* Steps *)

\* Everything a worker does to its shard without finishing the drain.
LEMMA ShardStep ==
    ASSUME DrainSound, NEW w \in Workers, NEW g \in ShardType, Live(g) <= g.starts,
           g.drained = shard[w].drained, g.forced = shard[w].forced,
           g.drained => g.stopped /\ Live(g) = 0 /\ ~g.timer /\ g.clean = ~g.forced,
           g.pc # "turn" => stop \/ shard[w].pc # "turn",
           Shard(w, g), remaining' = remaining, main' = main,
           stop' = stop \/ (stop' = TRUE /\ shard[w].pc = "stop")
    PROVE  DrainSound'
<1>1. /\ shard \in [Workers -> ShardType] /\ shard' = [shard EXCEPT ![w] = g]
      /\ Scheduling \subseteq Workers
  BY Zenon, DrainAssumption DEF DrainSound, TypeOK, Shard
<1>2. shard' \in [Workers -> ShardType] /\ shard'[w] = g /\ \A v \in Workers \ {w} : shard'[v] = shard[v]
  BY Zenon, <1>1
<1>3. TypeOK'
  <2>1. stop' \in BOOLEAN
    BY Zenon DEF DrainSound, TypeOK
  <2>2. \A v \in Workers : Live(shard'[v]) <= shard'[v].starts
    BY Zenon, <1>2 DEF DrainSound, TypeOK
  <2> QED BY Zenon, <1>2, <2>1, <2>2 DEF DrainSound, TypeOK, Live
<1>4. DrainedStaysEmpty'
  <2> SUFFICES ASSUME NEW v \in Workers
               PROVE  /\ shard'[v].drained => /\ v \in Scheduling /\ shard'[v].stopped
                                              /\ Live(shard'[v]) = 0 /\ ~shard'[v].timer
                                              /\ shard'[v].clean = ~shard'[v].forced
                      /\ shard'[v].forced => shard'[v].drained
    BY Zenon DEF DrainedStaysEmpty, Live
  <2> QED BY Zenon, <1>2 DEF DrainSound, DrainedStaysEmpty
<1>5. \A v \in Workers : shard'[v].drained = shard[v].drained
  BY Zenon, <1>2
<1>6. {v \in Scheduling : ~shard'[v].drained} = {v \in Scheduling : ~shard[v].drained}
  BY Zenon, <1>1, <1>5
<1>7. (stop' \/ main' # "loop" \/ \E v \in Workers : shard'[v].pc # "turn")
         => (stop \/ main # "loop" \/ \E v \in Workers : shard[v].pc # "turn")
  BY Zenon, <1>2
<1>8. StopJustified'
  BY Zenon, <1>1, <1>5, <1>6, <1>7 DEF DrainSound, StopJustified
<1> QED BY Zenon, <1>3, <1>4, <1>8 DEF DrainSound

\* tg_shard_tick finishes the drain of a shard: it is one of those counted by
\* remaining_shards, so the count stays exact, and it finds 1 there only if
\* every other scheduling shard has drained.
LEMMA FinishStep ==
    ASSUME DrainSound, NEW w \in Scheduling, ~shard[w].drained, NEW g \in ShardType, Live(g) <= g.starts,
           g.drained, g.stopped, Live(g) = 0, ~g.timer, g.clean = ~g.forced,
           g.pc # "turn" => remaining = 1,
           Shard(w, g), remaining' = remaining - 1, UNCHANGED <<stop, main>>
    PROVE  DrainSound'
<1> DEFINE U == {v \in Scheduling : ~shard[v].drained}
<1>1. /\ shard \in [Workers -> ShardType] /\ shard' = [shard EXCEPT ![w] = g]
      /\ w \in Workers /\ Scheduling \subseteq Workers
  BY Zenon, DrainAssumption DEF DrainSound, TypeOK, Shard
<1>2. shard' \in [Workers -> ShardType] /\ shard'[w] = g /\ \A v \in Workers \ {w} : shard'[v] = shard[v]
  BY Zenon, <1>1
<1>3. /\ w \in U /\ IsFiniteSet(U) /\ remaining = Cardinality(U) /\ remaining \in Nat
  BY Zenon, <1>1, DrainAssumption, FS_Subset DEF DrainSound, TypeOK, StopJustified
<1>4. /\ {v \in Scheduling : ~shard'[v].drained} = U \ {w}
      /\ IsFiniteSet(U \ {w}) /\ Cardinality(U \ {w}) = Cardinality(U) - 1
  <2>1. {v \in Scheduling : ~shard'[v].drained} = U \ {w}
    BY Zenon, <1>1, <1>2
  <2> HIDE DEF U
  <2> QED BY Zenon, <1>3, <2>1, FS_RemoveElement
<1>5. Cardinality(U \ {w}) \in Nat
  BY Zenon, <1>4, FS_CardinalityType
<1>6. TypeOK'
  <2>1. \A v \in Workers : Live(shard'[v]) <= shard'[v].starts
    BY Zenon, <1>2 DEF DrainSound, TypeOK
  <2>2. remaining' \in Nat
    BY Zenon, <1>3, <1>4, <1>5
  <2> QED BY Zenon, <1>2, <2>1, <2>2 DEF DrainSound, TypeOK, Live
<1>7. DrainedStaysEmpty'
  <2> SUFFICES ASSUME NEW v \in Workers
               PROVE  /\ shard'[v].drained => /\ v \in Scheduling /\ shard'[v].stopped
                                              /\ Live(shard'[v]) = 0 /\ ~shard'[v].timer
                                              /\ shard'[v].clean = ~shard'[v].forced
                      /\ shard'[v].forced => shard'[v].drained
    BY Zenon DEF DrainedStaysEmpty, Live
  <2> QED BY Zenon, <1>2 DEF DrainSound, DrainedStaysEmpty
<1>8. (stop' \/ main' # "loop" \/ \E v \in Workers : shard'[v].pc # "turn") => remaining = 1
  BY Zenon, <1>2, <1>3 DEF DrainSound, StopJustified
<1>9. remaining = 1 => \A v \in Scheduling : shard'[v].drained
  <2> SUFFICES ASSUME remaining = 1 PROVE U \ {w} = {}
    BY Zenon, <1>4
  <2> HIDE DEF U
  <2> QED BY <1>3, <1>4, FS_EmptySet
<1>10. StopJustified'
  BY Zenon, <1>3, <1>4, <1>8, <1>9 DEF StopJustified
<1> QED BY Zenon, <1>6, <1>7, <1>10 DEF DrainSound

LEMMA DrainInit == Init => DrainSound
<1> SUFFICES ASSUME Init PROVE DrainSound
  BY Zenon
<1>1. Fresh \in ShardType /\ Live(Fresh) = 0 /\ Fresh.starts = 0
  BY DrainAssumption DEF Fresh, ShardType, Live
<1>2. ~Fresh.drained /\ ~Fresh.forced /\ Fresh.pc = "turn"
  BY Zenon DEF Fresh
<1>3. /\ shard = [w \in Workers |-> Fresh] /\ Scheduling \subseteq Workers
      /\ remaining = Cardinality(Scheduling) /\ stop = FALSE /\ main = "loop"
  BY Zenon, DrainAssumption DEF Init
<1>4. TypeOK
  <2>1. Cardinality(Scheduling) \in Nat
    BY Zenon, DrainAssumption, FS_Subset, FS_CardinalityType
  <2>2. shard \in [Workers -> ShardType] /\ \A w \in Workers : Live(shard[w]) <= shard[w].starts
    BY <1>1, <1>3
  <2> QED BY Zenon, <1>3, <2>1, <2>2 DEF TypeOK
<1>5. DrainedStaysEmpty
  BY Zenon, <1>2, <1>3 DEF DrainedStaysEmpty
<1>6. {w \in Scheduling : ~shard[w].drained} = Scheduling
  BY Zenon, <1>2, <1>3
<1>7. StopJustified
  BY Zenon, <1>2, <1>3, <1>6 DEF StopJustified
<1> QED BY Zenon, <1>4, <1>5, <1>7 DEF DrainSound

\* Events and timers between ticks.
LEMMA BetweenTicks ==
    ASSUME DrainSound, NEW w \in Workers,
           FlowEnds(w) \/ IdleCloses(w) \/ SocketReleased(w) \/ DrainTimer(w)
    PROVE  DrainSound'
<1> DEFINE h == shard[w]
<1>1. /\ h \in ShardType /\ Live(h) <= h.starts /\ h.starts \in Nat
      /\ h.drained => h.stopped /\ Live(h) = 0 /\ ~h.timer /\ h.clean = ~h.forced
  BY DrainAssumption DEF DrainSound, TypeOK, DrainedStaysEmpty, ShardType
<1>2. h.active \in Nat /\ h.idle \in Nat /\ h.closing \in Nat
  BY Zenon, <1>1 DEF ShardType
<1>3. h.active + h.idle + h.closing > 0 => ~h.drained
  BY <1>1 DEF Live
<1>4. CASE FlowEnds(w)
  <2>1. PICK to \in {"idle", "closing", "gone"} : Shard(w, Ended(h, to))
    BY Zenon, <1>4 DEF FlowEnds
  <2>2. h.active > 0 /\ ~h.drained /\ UNCHANGED <<remaining, stop, main>>
    BY <1>2, <1>3, <1>4 DEF FlowEnds
  <2> HIDE DEF h
  <2>3. /\ Ended(h, to) \in ShardType /\ Live(Ended(h, to)) <= Ended(h, to).starts
        /\ Ended(h, to).drained = h.drained /\ Ended(h, to).pc = h.pc /\ Ended(h, to).forced = h.forced
    BY Zenon, <1>1, <2>2, EndedShard
  <2> DEFINE g == Ended(h, to)
  <2> HIDE DEF g
  <2> QED BY Zenon, <2>1, <2>2, <2>3, ShardStep DEF h, g
<1>5. CASE IdleCloses(w)
  <2> DEFINE g == [h EXCEPT !.idle = h.idle - 1, !.closing = h.closing + 1]
  <2>1. Shard(w, g) /\ h.idle > 0 /\ UNCHANGED <<remaining, stop, main>>
    BY Zenon, <1>5 DEF IdleCloses
  <2>2. h.idle - 1 \in Nat /\ h.closing + 1 \in Nat /\ ~h.drained
    BY <1>2, <1>3, <2>1
  <2> HIDE DEF h
  <2>3. g \in ShardType
    BY Zenon, <1>1, <2>2 DEF ShardType
  <2>4. /\ g.active = h.active /\ g.idle = h.idle - 1 /\ g.closing = h.closing + 1 /\ g.starts = h.starts
        /\ g.drained = h.drained /\ g.pc = h.pc /\ g.forced = h.forced
    BY Zenon, <1>1 DEF ShardType
  <2> HIDE DEF g
  <2>5. Live(g) <= g.starts
    BY <1>1, <1>2, <2>4 DEF Live
  <2> QED BY Zenon, <2>1, <2>2, <2>3, <2>4, <2>5, ShardStep DEF h
<1>6. CASE SocketReleased(w)
  <2> DEFINE g == [h EXCEPT !.closing = h.closing - 1]
  <2>1. Shard(w, g) /\ h.closing > 0 /\ UNCHANGED <<remaining, stop, main>>
    BY Zenon, <1>6 DEF SocketReleased
  <2>2. h.closing - 1 \in Nat /\ ~h.drained
    BY <1>2, <1>3, <2>1
  <2> HIDE DEF h
  <2>3. g \in ShardType
    BY Zenon, <1>1, <2>2 DEF ShardType
  <2>4. /\ g.active = h.active /\ g.idle = h.idle /\ g.closing = h.closing - 1 /\ g.starts = h.starts
        /\ g.drained = h.drained /\ g.pc = h.pc /\ g.forced = h.forced
    BY Zenon, <1>1 DEF ShardType
  <2> HIDE DEF g
  <2>5. Live(g) <= g.starts
    BY <1>1, <1>2, <2>4 DEF Live
  <2> QED BY Zenon, <2>1, <2>2, <2>3, <2>4, <2>5, ShardStep DEF h
<1>7. CASE DrainTimer(w)
  <2> DEFINE g == [h EXCEPT !.timer = FALSE, !.expired = TRUE]
  <2>1. Shard(w, g) /\ h.timer /\ UNCHANGED <<remaining, stop, main>>
    BY Zenon, <1>7 DEF DrainTimer
  <2> HIDE DEF h
  <2>2. g \in ShardType /\ ~h.drained
    BY Zenon, <1>1, <2>1 DEF ShardType
  <2>3. /\ g.active = h.active /\ g.idle = h.idle /\ g.closing = h.closing /\ g.starts = h.starts
        /\ g.drained = h.drained /\ g.pc = h.pc /\ g.forced = h.forced
    BY Zenon, <1>1 DEF ShardType
  <2> HIDE DEF g
  <2>4. Live(g) <= g.starts
    BY Zenon, <1>1, <2>3 DEF Live
  <2> QED BY Zenon, <2>1, <2>2, <2>3, <2>4, ShardStep DEF h
<1> QED BY Zenon, <1>4, <1>5, <1>6, <1>7

\* tg_shard_tick: a shard that is busy or still waits for its sockets changes
\* as between ticks; the one that finishes is empty and counted once.
LEMMA TickStep == ASSUME DrainSound, NEW w \in Workers, NEW ends \in BOOLEAN, Tick(w, ends) PROVE DrainSound'
<1> DEFINE h == shard[w]
<1>1. /\ h \in ShardType /\ Live(h) <= h.starts
      /\ h.drained => h.stopped /\ Live(h) = 0 /\ ~h.timer /\ h.clean = ~h.forced
      /\ h.forced => h.drained
  BY Zenon DEF DrainSound, TypeOK, DrainedStaysEmpty
<1>2. PICK expired \in 0..h.active, reused \in 0..MaxStarts, fresh \in 0..MaxStarts,
             armed \in BOOLEAN, held \in BOOLEAN :
        LET b == Before(h, expired, reused, fresh, ends)
            d == ForceCleanup(StartDrain(b, armed, held))
        IN  /\ MayAdmit(Expire(h, expired), reused, fresh)
            /\ IF Busy(b)
               THEN Shard(w, b) /\ UNCHANGED remaining
               ELSE IF Zero(b, held) \/ d.forced
                    THEN /\ Shard(w, [Finish(d) EXCEPT !.pc = IF Last(remaining) THEN "stop" ELSE @])
                         /\ remaining' = remaining - 1
                    ELSE Shard(w, d) /\ UNCHANGED remaining
  BY DEF Tick
<1>3. h.pc = "turn" /\ w \in Scheduling /\ UNCHANGED <<stop, main>>
  BY Zenon DEF Tick, Runs
<1> HIDE DEF h
<1> DEFINE b == Before(h, expired, reused, fresh, ends)
           d == ForceCleanup(StartDrain(b, armed, held))
<1>4. /\ b \in ShardType /\ Live(b) <= b.starts
      /\ b.drained = h.drained /\ b.pc = h.pc /\ (h.stopped => b.stopped)
      /\ b.timer = h.timer /\ b.clean = h.clean /\ b.forced = h.forced
      /\ (h.stopped /\ Live(h) = 0 => Live(b) = 0)
  BY <1>1, <1>2, BeforeShard
<1>5. CASE Busy(b)
  <2>1. Shard(w, b) /\ UNCHANGED remaining
    BY Zenon, <1>2, <1>5
  <2> HIDE DEF b
  <2> QED BY Zenon, <1>1, <1>3, <1>4, <2>1, ShardStep DEF h
<1>6. CASE ~Busy(b)
  <2>1. ~b.drained /\ b.stopped /\ b.active = 0 /\ ~b.forced /\ ~h.drained
    BY Zenon, <1>1, <1>4, <1>6 DEF Busy
  <2> DEFINE g == StartDrain(b, armed, held)
  <2>2. /\ g \in ShardType /\ Live(g) = Live(b) /\ g.active = b.active /\ g.starts = b.starts
        /\ g.drained = b.drained /\ g.pc = b.pc /\ g.stopped = b.stopped /\ g.forced = b.forced
    <3> HIDE DEF b
    <3> QED BY Zenon, <1>4, StartDrainShard
  <2>3. /\ d \in ShardType /\ Live(d) <= d.starts /\ d.active = g.active
        /\ d.drained = g.drained /\ d.pc = g.pc /\ d.stopped = g.stopped
        /\ (Live(g) = 0 => Live(d) = 0)
        /\ (~g.forced /\ d.forced /\ g.active = 0 => Live(d) = 0)
    <3>1. Live(g) <= g.starts
      BY Zenon, <1>4, <2>2
    <3> HIDE DEF g
    <3>2. /\ ForceCleanup(g) \in ShardType /\ Live(ForceCleanup(g)) <= ForceCleanup(g).starts
          /\ ForceCleanup(g).active = g.active
          /\ ForceCleanup(g).drained = g.drained /\ ForceCleanup(g).pc = g.pc /\ ForceCleanup(g).stopped = g.stopped
          /\ (Live(g) = 0 => Live(ForceCleanup(g)) = 0)
          /\ (~g.forced /\ ForceCleanup(g).forced /\ g.active = 0 => Live(ForceCleanup(g)) = 0)
      BY Zenon, <2>2, <3>1, ForceShard
    <3> QED BY Zenon, <3>2 DEF g
  <2>4. CASE Zero(b, held) \/ d.forced
    <3> DEFINE pc == IF Last(remaining) THEN "stop" ELSE d.pc
               f == [Finish(d) EXCEPT !.pc = pc]
    <3>1. Live(d) = 0
      BY Zenon, <2>1, <2>2, <2>3, <2>4 DEF Zero
    <3>2. pc \in {"turn", "stop", "exit"} /\ (pc # "turn" => remaining = 1)
      BY Zenon, <1>3, <1>4, <2>2, <2>3 DEF Last
    <3>3. Shard(w, f) /\ remaining' = remaining - 1
      <4>1. Shard(w, [Finish(d) EXCEPT !.pc = IF Last(remaining) THEN "stop" ELSE @]) /\ remaining' = remaining - 1
        BY Zenon, <1>2, <1>6, <2>4
      <4>2. Finish(d).pc = d.pc
        <5> HIDE DEF d
        <5> QED BY Zenon, <2>3 DEF Finish, ShardType
      <4> QED BY Zenon, <4>1, <4>2
    <3> HIDE DEF d, pc
    <3>4. /\ f \in ShardType /\ Live(f) = 0 /\ f.starts = d.starts /\ f.pc = pc
          /\ f.stopped = d.stopped /\ f.drained /\ ~f.timer /\ f.clean = ~f.forced
      BY Zenon, <2>3, <3>1, <3>2, FinishShard
    <3> HIDE DEF f
    <3>5. Live(f) <= f.starts
      BY Zenon, <2>3, <3>1, <3>4
    <3> QED BY Zenon, <1>3, <2>1, <2>2, <2>3, <3>2, <3>3, <3>4, <3>5, FinishStep DEF h
  <2>5. CASE ~(Zero(b, held) \/ d.forced)
    <3>1. Shard(w, d) /\ UNCHANGED remaining
      BY Zenon, <1>2, <1>6, <2>5
    <3>2. ~d.forced /\ ~d.drained /\ d.drained = h.drained /\ d.pc = "turn"
      BY Zenon, <1>3, <1>4, <2>1, <2>2, <2>3, <2>5
    <3>3. d.forced = h.forced
      <4>1. d.forced \in BOOLEAN /\ h.forced \in BOOLEAN /\ ~h.forced
        BY Zenon, <1>1, <2>1, <2>3 DEF ShardType
      <4> QED BY Zenon, <3>2, <4>1
    <3> HIDE DEF d
    <3> QED BY Zenon, <1>3, <2>3, <3>1, <3>2, <3>3, ShardStep DEF h
  <2> QED BY Zenon, <2>4, <2>5
<1> QED BY Zenon, <1>5, <1>6

\* stack_runtime_request_stop and the workers leaving their loops.
LEMMA StopStep ==
    ASSUME DrainSound, NEW w \in Workers, RequestStop(w) \/ WorkerExit(w)
    PROVE  DrainSound'
<1> DEFINE h == shard[w]
           g(pc) == [h EXCEPT !.pc = pc]
<1>1. /\ h \in ShardType /\ Live(h) <= h.starts
      /\ h.drained => h.stopped /\ Live(h) = 0 /\ ~h.timer /\ h.clean = ~h.forced
  BY Zenon DEF DrainSound, TypeOK, DrainedStaysEmpty
<1>2. ASSUME NEW pc \in {"turn", "exit"}
      PROVE  /\ g(pc) \in ShardType /\ g(pc).pc = pc
             /\ g(pc).active = h.active /\ g(pc).idle = h.idle /\ g(pc).closing = h.closing
             /\ g(pc).starts = h.starts /\ g(pc).drained = h.drained /\ g(pc).forced = h.forced
             /\ g(pc).stopped = h.stopped /\ g(pc).timer = h.timer /\ g(pc).clean = h.clean
  <2> HIDE DEF h
  <2> QED BY Zenon, <1>1 DEF ShardType
<1>3. CASE RequestStop(w)
  <2>1. Shard(w, g("turn")) /\ h.pc = "stop" /\ stop' = TRUE /\ UNCHANGED <<remaining, main>>
    BY Zenon, <1>3 DEF RequestStop
  <2> DEFINE k == g("turn")
  <2>2. /\ k \in ShardType /\ k.pc = "turn" /\ Live(k) = Live(h)
        /\ k.starts = h.starts /\ k.drained = h.drained /\ k.forced = h.forced
        /\ k.stopped = h.stopped /\ k.timer = h.timer /\ k.clean = h.clean
    BY Zenon, <1>2 DEF Live
  <2> HIDE DEF k
  <2>3. Shard(w, k)
    BY Zenon, <2>1 DEF k
  <2> QED BY Zenon, <1>1, <2>1, <2>2, <2>3, ShardStep
<1>4. CASE WorkerExit(w)
  <2>1. Shard(w, g("exit")) /\ stop /\ UNCHANGED <<remaining, stop, main>>
    BY Zenon, <1>4 DEF WorkerExit
  <2> DEFINE k == g("exit")
  <2>2. /\ k \in ShardType /\ Live(k) = Live(h)
        /\ k.starts = h.starts /\ k.drained = h.drained /\ k.forced = h.forced
        /\ k.stopped = h.stopped /\ k.timer = h.timer /\ k.clean = h.clean
    BY Zenon, <1>2 DEF Live
  <2> HIDE DEF k
  <2>3. Shard(w, k)
    BY Zenon, <2>1 DEF k
  <2> QED BY Zenon, <1>1, <2>1, <2>2, <2>3, ShardStep
<1> QED BY Zenon, <1>3, <1>4

\* The main core waits for the stop and joins the workers.
LEMMA MainStep == ASSUME DrainSound, MainStops \/ MainJoins PROVE DrainSound'
<1>1. /\ UNCHANGED <<shard, remaining, stop>> /\ main' \in {"join", "done"}
      /\ stop \/ main # "loop"
  BY Zenon DEF MainStops, MainJoins
<1> QED BY Zenon, <1>1 DEF DrainSound, TypeOK, DrainedStaysEmpty, StopJustified, Live

LEMMA DrainNext == ASSUME DrainSound, [Next]_vars PROVE DrainSound'
<1>1. ASSUME NEW w \in Workers, FlowEnds(w) \/ IdleCloses(w) \/ SocketReleased(w) \/ DrainTimer(w)
      PROVE  DrainSound'
  BY Zenon, <1>1, BetweenTicks
<1>2. ASSUME NEW w \in Workers, Tick(w, FALSE) \/ Tick(w, TRUE) PROVE DrainSound'
  BY Zenon, <1>2, TickStep
<1>3. ASSUME NEW w \in Workers, RequestStop(w) \/ WorkerExit(w) PROVE DrainSound'
  BY Zenon, <1>3, StopStep
<1>4. CASE MainStops \/ MainJoins
  BY Zenon, <1>4, MainStep
<1>5. CASE UNCHANGED vars
  BY Zenon, <1>5 DEF vars, DrainSound, TypeOK, DrainedStaysEmpty, StopJustified, Live
<1> QED BY Zenon, <1>1, <1>2, <1>3, <1>4, <1>5 DEF Next, Done

\* How a run ends is right for every number of workers, every choice of
\* scheduling shards and every number of flows: the run is stopped only by the
\* last shard to drain, no worker leaves earlier, and a drained shard has
\* neither a transaction nor a socket nor a timer (tg_shard_tick, main_tg.c).
THEOREM RunEndsRight == Spec => []DrainSound
<1>1. Init => DrainSound
  BY Zenon, DrainInit
<1>2. DrainSound /\ [Next]_vars => DrainSound'
  BY Zenon, DrainNext
<1> QED BY <1>1, <1>2, PTL DEF Spec

=============================================================================
