-------------------------- MODULE SocketOwnerLemmas -------------------------
(***************************************************************************)
(* Lemmas the proofs about SocketOwner rest on: the rings, lists and wait  *)
(* queues, and what a step of the owner may do to results and wait queues. *)
(***************************************************************************)
EXTENDS SocketOwner, TLAPS

-----------------------------------------------------------------------------
(***************************************************************************)
(* Lemmas about the lists.                                                 *)
(***************************************************************************)

\* Enqueueing at the tail of a ring or wait queue adds one element.
LEMMA AppendLemma ==
  ASSUME NEW S, NEW q \in Seq(S), NEW c \in S
  PROVE  /\ Append(q, c) \in Seq(S)
         /\ Range(Append(q, c)) = Range(q) \cup {c}
         /\ NoRepeat(q) /\ c \notin Range(q) => NoRepeat(Append(q, c))
<1>1. Append(q, c) \in Seq(S) /\ Len(Append(q, c)) = Len(q) + 1
  OBVIOUS
<1>2. \A i \in 1..Len(q) : Append(q, c)[i] = q[i]
  OBVIOUS
<1>3. Append(q, c)[Len(q) + 1] = c
  OBVIOUS
<1>4. Range(Append(q, c)) = Range(q) \cup {c}
  BY <1>1, <1>2, <1>3 DEF Range
<1>5. NoRepeat(q) /\ c \notin Range(q) => NoRepeat(Append(q, c))
  BY <1>1, <1>2, <1>3 DEF Range, NoRepeat
<1> QED BY Zenon, <1>1, <1>4, <1>5

\* Pushing on the front of a notification list adds one element.
LEMMA PushLemma ==
  ASSUME NEW S, NEW q \in Seq(S), NEW c \in S
  PROVE  /\ <<c>> \o q \in Seq(S)
         /\ Range(<<c>> \o q) = Range(q) \cup {c}
         /\ NoRepeat(q) /\ c \notin Range(q) => NoRepeat(<<c>> \o q)
<1> DEFINE r == <<c>> \o q
<1>1. r \in Seq(S) /\ Len(r) = Len(q) + 1
  OBVIOUS
<1>2. \A i \in 1..Len(q) : r[i + 1] = q[i]
  OBVIOUS
<1>3. r[1] = c
  OBVIOUS
<1>4. \A i \in 1..Len(r) : i = 1 \/ (i - 1 \in 1..Len(q) /\ r[i] = q[i - 1])
  BY <1>1, <1>2
<1> HIDE DEF r
<1>5. Range(r) = Range(q) \cup {c}
  <2>1. Range(r) \subseteq Range(q) \cup {c}
    BY <1>1, <1>3, <1>4 DEF Range
  <2>2. c \in Range(r)
    BY <1>1, <1>3 DEF Range
  <2>3. \A i \in 1..Len(q) : i + 1 \in 1..Len(r)
    BY <1>1
  <2>4. Range(q) \subseteq Range(r)
    BY <1>1, <1>2, <2>3 DEF Range
  <2> QED BY Zenon, <2>1, <2>2, <2>4
<1>6. ASSUME NoRepeat(q), c \notin Range(q)
      PROVE  NoRepeat(r)
  <2> SUFFICES ASSUME NEW i \in 1..Len(r), NEW j \in 1..Len(r), r[i] = r[j]
               PROVE  i = j
    BY Zenon DEF NoRepeat
  <2>1. \A k \in 1..Len(q) : q[k] # c
    BY <1>6 DEF Range
  <2>2. CASE i = 1 \/ j = 1
    BY Zenon, <1>3, <1>4, <2>1, <2>2
  <2>3. CASE i # 1 /\ j # 1
    <3>1. i - 1 \in 1..Len(q) /\ j - 1 \in 1..Len(q) /\ q[i - 1] = q[j - 1]
      BY Zenon, <1>4, <2>3
    <3>2. i - 1 = j - 1
      BY Zenon, <3>1, <1>6 DEF NoRepeat
    <3> QED BY <3>2
  <2> QED BY Zenon, <2>2, <2>3
<1> QED BY Zenon, <1>1, <1>5, <1>6 DEF r

\* Popping the head removes exactly that element.
LEMMA PopLemma ==
  ASSUME NEW S, NEW q \in Seq(S), q # <<>>
  PROVE  /\ Tail(q) \in Seq(S) /\ Head(q) \in S
         /\ Range(q) = Range(Tail(q)) \cup {Head(q)}
         /\ NoRepeat(q) => NoRepeat(Tail(q)) /\ Head(q) \notin Range(Tail(q))
<1>1. Tail(q) \in Seq(S) /\ Head(q) \in S /\ Len(q) > 0 /\ Len(Tail(q)) = Len(q) - 1
  OBVIOUS
<1>2. \A i \in 1..Len(Tail(q)) : i + 1 \in 1..Len(q) /\ Tail(q)[i] = q[i + 1]
  BY <1>1
<1>3. Head(q) = q[1] /\ 1 \in 1..Len(q)
  BY <1>1
<1>4. \A i \in 1..Len(q) : i = 1 \/ (i - 1 \in 1..Len(Tail(q)) /\ q[i] = Tail(q)[i - 1])
  BY <1>1, <1>2
<1>5. Range(q) = Range(Tail(q)) \cup {Head(q)}
  <2>1. ASSUME NEW i \in 1..Len(q)
        PROVE  q[i] \in Range(Tail(q)) \cup {Head(q)}
    <3>1. CASE i = 1
      BY Zenon, <3>1, <1>3
    <3>2. CASE i # 1
      <4>1. i - 1 \in DOMAIN Tail(q) /\ q[i] = Tail(q)[i - 1]
        BY <1>1, <1>4, <3>2
      <4> QED BY <4>1, Zenon DEF Range
    <3> QED BY Zenon, <3>1, <3>2
  <2>2. Head(q) \in Range(q)
    BY <1>3 DEF Range
  <2>3. Range(Tail(q)) \subseteq Range(q)
    BY <1>1, <1>2 DEF Range
  <2>4. Range(q) \subseteq Range(Tail(q)) \cup {Head(q)}
    BY <2>1 DEF Range
  <2> QED BY Zenon, <2>2, <2>3, <2>4
<1>6. NoRepeat(q) => NoRepeat(Tail(q)) /\ Head(q) \notin Range(Tail(q))
  BY <1>1, <1>2, <1>3 DEF Range, NoRepeat
<1> QED BY Zenon, <1>1, <1>5, <1>6

\* Detaching a burst splits a list in two.
LEMMA BurstLemma ==
  ASSUME NEW S, NEW q \in Seq(S)
  PROVE  /\ TakeBurst(q) \in Seq(S) /\ AfterBurst(q) \in Seq(S)
         /\ Range(q) = Range(TakeBurst(q)) \cup Range(AfterBurst(q))
         /\ NoRepeat(q) => /\ NoRepeat(TakeBurst(q)) /\ NoRepeat(AfterBurst(q))
                           /\ Apart(TakeBurst(q), AfterBurst(q))
<1> DEFINE n == IF Len(q) < Burst THEN Len(q) ELSE Burst
           a == TakeBurst(q)
           b == AfterBurst(q)
<1>1. n \in Nat /\ n <= Len(q)
  BY SizeAssumption
<1>2. a \in Seq(S) /\ Len(a) = n /\ \A i \in 1..n : a[i] = q[i]
  BY <1>1 DEF TakeBurst
<1>3. b = SubSeq(q, n + 1, Len(q))
  BY Zenon, <1>2 DEF AfterBurst
<1>4. /\ b \in Seq(S) /\ Len(b) = Len(q) - n
      /\ \A i \in 1..(Len(q) - n) : b[i] = q[n + i]
  <2> HIDE DEF n
  <2> QED BY <1>1, <1>3
<1> HIDE DEF n, a, b
<1>5. Range(q) \subseteq Range(a) \cup Range(b)
  <2> SUFFICES ASSUME NEW i \in 1..Len(q) PROVE q[i] \in Range(a) \cup Range(b)
    BY DEF Range
  <2>1. CASE i <= n
    BY <1>1, <1>2, <2>1 DEF Range
  <2>2. CASE i > n
    <3>1. i - n \in DOMAIN b /\ b[i - n] = q[i]
      BY <1>1, <1>4, <2>2
    <3> QED BY Zenon, <3>1 DEF Range
  <2> QED BY <1>1, <2>1, <2>2
<1>6. Range(a) \subseteq Range(q)
  BY <1>1, <1>2 DEF Range
<1>7. Range(b) \subseteq Range(q)
  <2> SUFFICES ASSUME NEW i \in 1..Len(b) PROVE b[i] \in Range(q)
    BY <1>4 DEF Range
  <2>1. n + i \in DOMAIN q /\ b[i] = q[n + i]
    BY <1>1, <1>4
  <2> QED BY Zenon, <2>1 DEF Range
<1>8. ASSUME NoRepeat(q)
      PROVE  NoRepeat(a) /\ NoRepeat(b) /\ Apart(a, b)
  <2>1. NoRepeat(a)
    BY <1>1, <1>2, <1>8 DEF NoRepeat
  <2>2. NoRepeat(b)
    <3> SUFFICES ASSUME NEW i \in 1..Len(b), NEW j \in 1..Len(b), b[i] = b[j]
                 PROVE  i = j
      BY Zenon DEF NoRepeat
    <3>1. n + i \in 1..Len(q) /\ n + j \in 1..Len(q) /\ q[n + i] = q[n + j]
      BY <1>1, <1>4
    <3>2. n + i = n + j
      BY Zenon, <3>1, <1>8 DEF NoRepeat
    <3> QED BY <1>1, <1>4, <3>2
  <2>3. ASSUME NEW i \in 1..Len(a), NEW j \in 1..Len(b), a[i] = b[j]
        PROVE  FALSE
    <3>1. i \in 1..Len(q) /\ n + j \in 1..Len(q) /\ q[i] = q[n + j] /\ i < n + j
      BY <1>1, <1>2, <1>4, <2>3
    <3> QED BY <3>1, <1>8 DEF NoRepeat
  <2>4. Apart(a, b)
    BY <1>2, <1>4, <2>3 DEF Apart, Range
  <2> QED BY Zenon, <2>1, <2>2, <2>4
<1> QED BY Zenon, <1>2, <1>4, <1>5, <1>6, <1>7, <1>8 DEF a, b

\* Putting the deferred notifications back in front of the list.
LEMMA ConcatLemma ==
  ASSUME NEW S, NEW p \in Seq(S), NEW q \in Seq(S)
  PROVE  /\ p \o q \in Seq(S)
         /\ Range(p \o q) = Range(p) \cup Range(q)
         /\ NoRepeat(p) /\ NoRepeat(q) /\ Apart(p, q) => NoRepeat(p \o q)
<1> DEFINE r == p \o q
<1>1. r \in Seq(S) /\ Len(r) = Len(p) + Len(q)
  OBVIOUS
<1>2. \A i \in 1..Len(p) : i \in 1..Len(r) /\ r[i] = p[i]
  BY <1>1
<1>3. \A i \in 1..Len(q) : Len(p) + i \in 1..Len(r) /\ r[Len(p) + i] = q[i]
  BY <1>1
<1>4. \A i \in 1..Len(r) :
        \/ i \in 1..Len(p) /\ r[i] = p[i]
        \/ i > Len(p) /\ i - Len(p) \in 1..Len(q) /\ r[i] = q[i - Len(p)]
  BY <1>1
<1> HIDE DEF r
<1>5. Range(r) \subseteq Range(p) \cup Range(q)
  <2> SUFFICES ASSUME NEW i \in 1..Len(r) PROVE r[i] \in Range(p) \cup Range(q)
    BY <1>1 DEF Range
  <2>1. CASE i \in 1..Len(p) /\ r[i] = p[i]
    BY <2>1 DEF Range
  <2>2. CASE i - Len(p) \in 1..Len(q) /\ r[i] = q[i - Len(p)]
    BY <2>2 DEF Range
  <2> QED BY Zenon, <1>4, <2>1, <2>2
<1>6. Range(p) \subseteq Range(r) /\ Range(q) \subseteq Range(r)
  <2>1. \A i \in 1..Len(p) : p[i] \in Range(r)
    BY <1>1, <1>2 DEF Range
  <2>2. ASSUME NEW i \in 1..Len(q) PROVE q[i] \in Range(r)
    <3>1. Len(p) + i \in DOMAIN r /\ r[Len(p) + i] = q[i]
      BY <1>1, <1>3
    <3> QED BY Zenon, <3>1 DEF Range
  <2> QED BY <2>1, <2>2 DEF Range
<1>7. ASSUME NoRepeat(p), NoRepeat(q), Apart(p, q)
      PROVE  NoRepeat(r)
  <2> SUFFICES ASSUME NEW i \in 1..Len(r), NEW j \in 1..Len(r), r[i] = r[j]
               PROVE  i = j
    BY Zenon DEF NoRepeat
  <2>0. \A k \in 1..Len(p), l \in 1..Len(q) : p[k] # q[l]
    <3> SUFFICES ASSUME NEW k \in 1..Len(p), NEW l \in 1..Len(q) PROVE p[k] # q[l]
      BY Zenon
    <3>1. p[k] \in Range(p) /\ q[l] \in Range(q)
      BY DEF Range
    <3> QED BY Zenon, <3>1, <1>7 DEF Apart
  <2>1. CASE i \in 1..Len(p) /\ j \in 1..Len(p)
    BY Zenon, <1>2, <1>7, <2>1 DEF NoRepeat
  <2>2. CASE i > Len(p) /\ j > Len(p)
    <3>1. /\ i - Len(p) \in 1..Len(q) /\ j - Len(p) \in 1..Len(q)
          /\ q[i - Len(p)] = q[j - Len(p)]
      BY <1>4, <2>2
    <3>2. i - Len(p) = j - Len(p)
      BY Zenon, <3>1, <1>7 DEF NoRepeat
    <3> QED BY <3>2
  <2>3. CASE i \in 1..Len(p) /\ j > Len(p)
    BY <1>2, <1>4, <2>0, <2>3
  <2>4. CASE i > Len(p) /\ j \in 1..Len(p)
    BY <1>2, <1>4, <2>0, <2>4
  <2> QED BY <2>1, <2>2, <2>3, <2>4
<1> QED BY Zenon, <1>1, <1>5, <1>6, <1>7 DEF r

\* The requests left in a wait queue after its first n were served.
LEMMA SuffixLemma ==
  ASSUME NEW S, NEW q \in Seq(S), NEW n \in 0..Len(q)
  PROVE  LET b == SubSeq(q, n + 1, Len(q))
         IN  /\ b \in Seq(S)
             /\ Range(b) \subseteq Range(q)
             /\ Range(q) \subseteq {q[i] : i \in 1..n} \cup Range(b)
             /\ NoRepeat(q) => NoRepeat(b) /\ \A i \in 1..n : q[i] \notin Range(b)
<1> DEFINE b == SubSeq(q, n + 1, Len(q))
<1>1. /\ b \in Seq(S) /\ Len(b) = Len(q) - n
      /\ \A i \in 1..Len(b) : n + i \in 1..Len(q) /\ b[i] = q[n + i]
  OBVIOUS
<1> HIDE DEF b
<1>2. Range(b) \subseteq Range(q)
  <2> SUFFICES ASSUME NEW i \in 1..Len(b) PROVE b[i] \in Range(q)
    BY <1>1 DEF Range
  <2>1. n + i \in DOMAIN q /\ b[i] = q[n + i]
    BY <1>1
  <2> QED BY Zenon, <2>1 DEF Range
<1>3. ASSUME NoRepeat(q) PROVE NoRepeat(b)
  <2> SUFFICES ASSUME NEW i \in 1..Len(b), NEW j \in 1..Len(b), b[i] = b[j]
               PROVE  i = j
    BY Zenon DEF NoRepeat
  <2>1. n + i \in 1..Len(q) /\ n + j \in 1..Len(q) /\ q[n + i] = q[n + j]
    BY Zenon, <1>1
  <2>2. n + i = n + j
    BY Zenon, <2>1, <1>3 DEF NoRepeat
  <2> QED BY <2>2
<1>4. ASSUME NoRepeat(q), NEW i \in 1..n PROVE q[i] \notin Range(b)
  <2> SUFFICES ASSUME NEW j \in 1..Len(b), q[i] = b[j] PROVE FALSE
    BY <1>1 DEF Range
  <2>1. i \in 1..Len(q) /\ n + j \in 1..Len(q) /\ q[i] = q[n + j] /\ i < n + j
    BY <1>1
  <2> QED BY <2>1, <1>4 DEF NoRepeat
<1>5. ASSUME NEW i \in 1..Len(q) PROVE i \in 1..n \/ q[i] \in Range(b)
  <2>1. CASE i > n
    <3>1. i - n \in 1..Len(b) /\ b[i - n] = q[i]
      BY <1>1, <2>1
    <3> QED BY <1>1, <3>1 DEF Range
  <2> QED BY <2>1
<1>6. Range(q) \subseteq {q[i] : i \in 1..n} \cup Range(b)
  BY <1>5 DEF Range
<1> QED BY Zenon, <1>1, <1>2, <1>3, <1>4, <1>6 DEF b

\* command_unlink_wait removes c and keeps the rest.
LEMMA WithoutLemma ==
  ASSUME NEW S, NEW q \in Seq(S), NEW c, NoRepeat(q)
  PROVE  /\ Without(q, c) \in Seq(S)
         /\ Range(Without(q, c)) = Range(q) \ {c}
         /\ NoRepeat(Without(q, c))
<1>1. CASE c \notin Range(q)
  BY Zenon, <1>1 DEF Without
<1>2. CASE c \in Range(q)
  <2> DEFINE i == CHOOSE j \in DOMAIN q : q[j] = c
             w == [j \in 1..(Len(q) - 1) |-> IF j < i THEN q[j] ELSE q[j + 1]]
  <2>1. i \in 1..Len(q) /\ q[i] = c
    BY <1>2 DEF Range
  <2>2. Without(q, c) = w
    BY Zenon, <1>2 DEF Without
  <2> HIDE DEF i
  <2>3. Len(q) - 1 \in Nat
    BY <2>1
  <2>4. w \in Seq(S) /\ Len(w) = Len(q) - 1
    BY <2>1, <2>3
  <2>5. \A j \in 1..Len(w) :
          IF j < i THEN j \in 1..Len(q) /\ w[j] = q[j]
                   ELSE j + 1 \in 1..Len(q) /\ w[j] = q[j + 1]
    BY <2>1, <2>4
  <2> HIDE DEF w
  <2>6. ASSUME NEW j \in 1..Len(w) PROVE w[j] \in Range(q) \ {c}
    <3> DEFINE k == IF j < i THEN j ELSE j + 1
    <3>1. k \in 1..Len(q) /\ w[j] = q[k] /\ k # i
      BY <2>1, <2>5
    <3> HIDE DEF k
    <3>2. q[k] \in Range(q)
      BY <3>1 DEF Range
    <3>3. q[k] # c
      BY Zenon, <3>1, <2>1 DEF NoRepeat
    <3> QED BY Zenon, <3>1, <3>2, <3>3
  <2>7. Range(w) \subseteq Range(q) \ {c}
    BY <2>4, <2>6 DEF Range
  <2>8. NoRepeat(w)
    <3> SUFFICES ASSUME NEW j \in 1..Len(w), NEW l \in 1..Len(w), w[j] = w[l]
                 PROVE  j = l
      BY Zenon DEF NoRepeat
    <3> DEFINE J == IF j < i THEN j ELSE j + 1
               L == IF l < i THEN l ELSE l + 1
    <3>1. J \in 1..Len(q) /\ L \in 1..Len(q) /\ q[J] = q[L]
      BY Zenon, <2>1, <2>5
    <3>2. J = L
      BY Zenon, <3>1 DEF NoRepeat
    <3> QED BY <2>1, <3>2
  <2>9. ASSUME NEW j \in 1..Len(q), j # i PROVE q[j] \in Range(w)
    <3> DEFINE J == IF j < i THEN j ELSE j - 1
    <3>1. J \in 1..Len(w)
      BY <2>1, <2>4, <2>9
    <3>2. w[J] = q[j]
      BY <2>1, <2>5, <2>9, <3>1
    <3> HIDE DEF J
    <3> QED BY <2>4, <3>1, <3>2 DEF Range
  <2>10. Range(q) \ {c} \subseteq Range(w)
    BY <2>1, <2>9 DEF Range
  <2> QED BY Zenon, <2>2, <2>4, <2>7, <2>8, <2>10
<1> QED BY Zenon, <1>1, <1>2

-----------------------------------------------------------------------------
(***************************************************************************)
(* What the owner functions do to results and wait queues.  Effect(A) says *)
(* that only requests in A changed, that none of them lost a result it     *)
(* had, that these have left their ring, and that the wait queues link     *)
(* each unfinished request of A at most once.                              *)
(***************************************************************************)
States == {"NEW", "QUEUED", "PARKED", "DONE", "CANCELLED"}

Effect(A) ==
  /\ outcome' \in [Cmds -> Outcomes \cup {Pending}]
  /\ state' \in [Cmds -> States]
  /\ waitq' \in [Socks -> [Waitable -> Seq(Cmds)]]
  /\ \A c \in Cmds : Done(c) => outcome'[c] = outcome[c]
  /\ \A c \in Cmds \ A : outcome'[c] = outcome[c] /\ state'[c] = state[c]
  /\ \A c \in A : state'[c] \notin {"NEW", "QUEUED"}
  /\ \A s \in Socks, k \in Waitable :
       /\ NoRepeat(waitq'[s][k])
       /\ \A c \in Range(waitq'[s][k]) :
            c \in A /\ outcome'[c] = Pending /\ Target[c] = s /\ Kind[c] = k
  /\ \A c \in A : outcome'[c] = Pending =>
       Kind[c] \in Waitable /\ c \in Range(waitq'[Target[c]][Kind[c]])

\* A is the active list, possibly with a request that is being started.
Running(A) ==
  /\ A \subseteq Cmds /\ active \subseteq A
  /\ \A c \in A \ active : ~Done(c)

-----------------------------------------------------------------------------
(***************************************************************************)
(* Every step preserves IInv.  The bound on refs is a consequence of       *)
(* RefAccounting, so the steps establish the rest of TypeOK first.         *)
(***************************************************************************)
BaseType ==
  /\ pc \in [Cmds -> CallerPCs]
  /\ refs \in [Cmds -> Int]
  /\ state \in [Cmds -> States]
  /\ outcome \in [Cmds -> Outcomes \cup {Pending}]
  /\ cancelError \in [Cmds -> Reasons \cup {None}]
  /\ claimed \in [Cmds -> BOOLEAN]
  /\ expired \subseteq Timed
  /\ ring \in [Rings -> Seq(Cmds)]
  /\ {burst, cancelList, controlList, batch, deferred} \subseteq Seq(Cmds)
  /\ active \subseteq Cmds
  /\ accepting \in BOOLEAN
  /\ opc \in OwnerPCs
  /\ budget \in 0..Burst
  /\ sock \in [Socks -> {"unused", "open", "closed", "retired"}]
  /\ waitq \in [Socks -> [Waitable -> Seq(Cmds)]]
  /\ resultSock \in [Cmds -> Socks \cup {None}]

\* A request has at most three references.
LEMMA TypeLemma ==
  ASSUME BaseType', RefAccounting', LinkedOnce'
  PROVE  TypeOK'
<1>1. \A c \in Cmds : refs'[c] \in 0..3
  BY DEF RefAccounting, LinkedOnce, One
<1> QED BY Zenon, <1>1 DEF BaseType, TypeOK, States

LEMMA TypeOKBase ==
  ASSUME TypeOK PROVE BaseType
<1>0. refs \in [Cmds -> 0..3]
  BY Zenon DEF TypeOK
<1>1. refs \in [Cmds -> Int]
  BY <1>0
<1> QED BY Zenon, <1>1 DEF TypeOK, BaseType, States

\* Steps that touch neither the results, nor the active list, nor a wait queue.
LEMMA ParkedKept ==
  ASSUME ParkedSound, outcome' = outcome, active' = active, waitq' = waitq
  PROVE  ParkedSound'
BY DEF ParkedSound, Done

\* After an owner function ran, every active request is finished or parked;
\* only finished ones may leave the active list.
LEMMA ParkedAfter ==
  ASSUME NEW A, Effect(A), active' \subseteq A,
         \A c \in A \ active' : outcome'[c] # Pending
  PROVE  ParkedSound'
<1>1. ASSUME NEW s \in Socks, NEW k \in Waitable
      PROVE  /\ NoRepeat(waitq'[s][k])
             /\ \A c \in Range(waitq'[s][k]) :
                  c \in active' /\ outcome'[c] = Pending /\ Target[c] = s /\ Kind[c] = k
  BY DEF Effect
<1>2. \A c \in active' : outcome'[c] = Pending =>
        Kind[c] \in Waitable /\ c \in Range(waitq'[Target[c]][Kind[c]])
  BY Zenon DEF Effect
<1> QED BY <1>1, <1>2 DEF ParkedSound, Done

\* Owner steps that only settle or park active requests.
LEMMA EffectKeeps ==
  ASSUME IInv, Effect(active),
         UNCHANGED <<pc, refs, expired, cancelError, claimed, ring, burst, active,
                     listVars, accepting, budget>>,
         opc' = opc \/ (opc = "drain" /\ opc' = "stopped"),
         sock' \in [Socks -> {"unused", "open", "closed", "retired"}],
         resultSock' \in [Cmds -> Socks \cup {None}]
  PROVE  IInv'
<1>1. /\ TypeOK /\ RefAccounting /\ LinkedOnce /\ LifeCycle /\ OwnerPhase
  BY Zenon DEF IInv
<1>2. /\ CallerHolds' = CallerHolds /\ Queued' = Queued /\ OwnerHolds' = OwnerHolds
      /\ Handed' = Handed /\ cancelList' = cancelList /\ active' = active
  BY Zenon DEF CallerHolds, Queued, OwnerHolds, Handed, listVars
<1>3. TypeOK'
  BY Zenon, <1>1 DEF TypeOK, Effect, listVars, OwnerPCs, States
<1>4. RefAccounting'
  BY Zenon, <1>1, <1>2 DEF RefAccounting
<1>5. LinkedOnce'
  BY Zenon, <1>1, <1>2 DEF LinkedOnce, listVars
<1>6. LifeCycle'
  BY Zenon, <1>1, <1>2 DEF LifeCycle, LinkedOnce, Effect, OwnerHolds, Done, TypeOK
<1>7. OwnerPhase'
  BY Zenon, <1>1 DEF OwnerPhase, listVars
<1>8. ParkedSound'
  BY Zenon, <1>2, ParkedAfter
<1> QED BY Zenon, <1>3, <1>4, <1>5, <1>6, <1>7, <1>8 DEF IInv

\* Steps that leave results and wait queues alone.
LEMMA NoEffect ==
  ASSUME IInv, outcome' = outcome, state' = state, waitq' = waitq
  PROVE  Effect(active)
<1>1. TypeOK /\ LifeCycle /\ ParkedSound
  BY Zenon DEF IInv
<1> QED BY <1>1 DEF Effect, TypeOK, LifeCycle, ParkedSound, States, Done

\* Cancelling a finished request does nothing.
LEMMA CancelDone ==
  ASSUME IInv, NEW c \in Cmds, NEW e, Done(c), CancelLocal(c, e)
  PROVE  outcome' = outcome /\ state' = state /\ waitq' = waitq
<1>1. outcome \in [Cmds -> Outcomes \cup {Pending}] /\ state \in [Cmds -> States]
  BY Zenon DEF IInv, TypeOK, States
<1>2. Commit(NoOutcome, {}) /\ waitq' = waitq
  BY Zenon DEF CancelLocal, CancelOutcomes, CancelQueues
<1>3. outcome' = [d \in Cmds |-> outcome[d]] /\ state' = [d \in Cmds |-> state[d]]
  BY Zenon, <1>2 DEF Commit, NoOutcome
<1> QED BY Zenon, <1>1, <1>2, <1>3

\* LifeCycle survives when requests leave the notification lists, and when
\* finished ones leave the active list.
LEMMA EffectLife ==
  ASSUME IInv, Effect(active), active' \subseteq active,
         \A c \in active \ active' : outcome'[c] # Pending /\ (accepting' => pc[c] = "gone"),
         Queued' = Queued, Handed' \subseteq Handed,
         accepting' => Handed' \cap (active \ active') = {},
         Range(cancelList') \subseteq Range(cancelList),
         pc' = pc, cancelError' = cancelError, accepting' => accepting
  PROVE  LifeCycle'
<1>1. TypeOK /\ LifeCycle /\ LinkedOnce
  BY Zenon DEF IInv
<1> SUFFICES ASSUME NEW d \in Cmds
             PROVE  (/\ d \in Queued => state[d] = "QUEUED" /\ ~Done(d)
                     /\ d \in active => state[d] \notin {"NEW", "QUEUED"}
                     /\ pc[d] \in {"idle", "submit", "sleep"} =>
                          ~Done(d) /\ d \notin OwnerHolds \cup Handed \cup Range(cancelList)
                     /\ accepting /\ (d \in Handed \/ pc[d] \notin {"idle", "submit", "sleep", "gone"})
                          => d \in OwnerHolds
                     /\ d \in Range(cancelList) \/ pc[d] \notin {"idle", "submit", "sleep", "gone"}
                          => d \in OwnerHolds \/ Done(d)
                     /\ d \in Range(cancelList) \/ pc[d] \in {"expiring", "cancelling"}
                          => cancelError[d] # None
                     /\ pc[d] \in {"expiring", "cancelling"} => d \notin Range(cancelList))'
  BY Zenon DEF LifeCycle
<1>2. d \notin active => outcome'[d] = outcome[d] /\ state'[d] = state[d]
  BY Zenon DEF Effect
<1>3. d \in active => state'[d] \notin {"NEW", "QUEUED"}
  BY Zenon DEF Effect
<1>4. d \in Queued => d \notin active
  BY Zenon, <1>1 DEF LinkedOnce
<1>5. pc[d] \in {"idle", "submit", "sleep"} => d \notin active
  BY Zenon, <1>1 DEF LifeCycle, OwnerHolds
<1>6. Done(d) => outcome'[d] # Pending
  BY Zenon DEF Effect, Done
<1> QED BY Zenon, <1>1, <1>2, <1>3, <1>4, <1>5, <1>6 DEF LifeCycle, OwnerHolds, Done

-----------------------------------------------------------------------------
(***************************************************************************)
(* What the functions of the owner do to results and wait queues.          *)
(***************************************************************************)
\* socket_owner_complete settles each pending request it is given, once.
LEMMA CommitLemma ==
  ASSUME TypeOK, NEW o, NEW parked, Commit(o, parked),
         \A c \in DOMAIN o : o[c] \in Outcomes
  PROVE  /\ outcome' \in [Cmds -> Outcomes \cup {Pending}]
         /\ state' \in [Cmds -> States]
         /\ \A c \in Cmds : /\ Done(c) \/ c \notin DOMAIN o => outcome'[c] = outcome[c]
                            /\ ~Done(c) /\ c \in DOMAIN o =>
                                 /\ outcome'[c] = o[c]
                                 /\ state'[c] \in {"DONE", "CANCELLED"}
                            /\ (Done(c) \/ c \notin DOMAIN o) /\ c \notin parked =>
                                 state'[c] = state[c]
                            /\ (Done(c) \/ c \notin DOMAIN o) /\ c \in parked =>
                                 state'[c] = "PARKED"
  BY Zenon DEF TypeOK, Commit, Done, States

\* No outcome is the marker of an unfinished request.
LEMMA OutcomesLemma == Pending \notin Outcomes
  BY Zenon DEF Pending, Outcomes, Reasons

\* Parking and probing a queue of requests of A.
LEMMA WakeEffect ==
  ASSUME IInv, NEW A, Running(A), NEW s \in Socks, NEW k \in Waitable,
         NEW q \in Seq(Cmds), NoRepeat(q),
         \A c \in Range(q) : c \in A /\ ~Done(c) /\ Target[c] = s /\ Kind[c] = k,
         A \subseteq active \cup Range(q), Range(waitq[s][k]) \subseteq Range(q),
         WakeQueue(s, k, q)
  PROVE  /\ Effect(A)
         /\ sock' \in [Socks -> {"unused", "open", "closed", "retired"}]
         /\ resultSock' \in [Cmds -> Socks \cup {None}]
<1>1. PICK n \in 0..Len(q) :
        \E o \in [{q[i] : i \in 1..n} -> Outcomes] :
          /\ Commit(o, Range(q))
          /\ waitq' = [waitq EXCEPT ![s][k] = SubSeq(q, n + 1, Len(q))]
          /\ Adopt({c \in {q[i] : i \in 1..n} : k = "ACCEPT" /\ o[c] = "OK"})
  BY Zenon DEF WakeQueue
<1> DEFINE served == {q[i] : i \in 1..n}
           b == SubSeq(q, n + 1, Len(q))
<1>2. PICK o \in [served -> Outcomes] :
        /\ Commit(o, Range(q))
        /\ waitq' = [waitq EXCEPT ![s][k] = b]
        /\ Adopt({c \in served : k = "ACCEPT" /\ o[c] = "OK"})
  BY <1>1, Zenon
<1>3. TypeOK /\ ParkedSound /\ LifeCycle
  BY Zenon DEF IInv
<1>4. served \subseteq Range(q) /\ Range(q) \subseteq Cmds
  BY DEF Range
<1>5. /\ b \in Seq(Cmds) /\ Range(b) \subseteq Range(q) /\ NoRepeat(b)
      /\ \A c \in served : c \notin Range(b)
      /\ Range(q) \subseteq served \cup Range(b)
  BY SuffixLemma
<1> HIDE DEF b, served
<1>6. /\ outcome' \in [Cmds -> Outcomes \cup {Pending}]
      /\ state' \in [Cmds -> States]
      /\ \A c \in Cmds : /\ Done(c) \/ c \notin served => outcome'[c] = outcome[c]
                         /\ ~Done(c) /\ c \in served => outcome'[c] \in Outcomes
                         /\ c \notin Range(q) => state'[c] = state[c]
                         /\ c \in Range(q) => state'[c] \notin {"NEW", "QUEUED"}
  <2>1. DOMAIN o = served /\ \A c \in DOMAIN o : o[c] \in Outcomes
    BY Zenon
  <2> QED BY <1>2, <1>3, <1>4, <2>1, CommitLemma
<1>7. waitq' \in [Socks -> [Waitable -> Seq(Cmds)]]
  BY Zenon, <1>2, <1>3, <1>5 DEF TypeOK
<1>8. ASSUME NEW t \in Socks, NEW l \in Waitable
      PROVE  /\ NoRepeat(waitq'[t][l])
             /\ \A c \in Range(waitq'[t][l]) :
                  c \in A /\ outcome'[c] = Pending /\ Target[c] = t /\ Kind[c] = l
  <2>1. CASE t = s /\ l = k
    <3>1. waitq'[t][l] = b
      BY Zenon, <1>2, <1>3, <2>1 DEF TypeOK
    <3> QED BY Zenon, <3>1, <2>1, <1>4, <1>5, <1>6 DEF Done
  <2>2. CASE ~(t = s /\ l = k)
    <3>1. waitq'[t][l] = waitq[t][l]
      BY Zenon, <1>2, <1>3, <2>2 DEF TypeOK
    <3>2. NoRepeat(waitq[t][l]) /\ \A c \in Range(waitq[t][l]) :
            c \in active /\ ~Done(c) /\ Target[c] = t /\ Kind[c] = l
      BY Zenon, <1>3 DEF ParkedSound
    <3> QED BY Zenon, <3>1, <3>2, <2>2, <1>3, <1>4, <1>6 DEF Running, Done, TypeOK
  <2> QED BY Zenon, <2>1, <2>2
<1>9. \A c \in Cmds \ A : outcome'[c] = outcome[c] /\ state'[c] = state[c]
  BY Zenon, <1>4, <1>6
<1>10. \A c \in A : state'[c] \notin {"NEW", "QUEUED"}
  BY Zenon, <1>3, <1>6 DEF LifeCycle, Running
<1>13. ASSUME NEW c \in A, outcome'[c] = Pending
       PROVE  Kind[c] \in Waitable /\ c \in Range(waitq'[Target[c]][Kind[c]])
  <2>1. c \in Cmds /\ ~Done(c) /\ c \notin served
    BY Zenon, <1>4, <1>6, <1>13, OutcomesLemma DEF Running, Done
  <2>2. CASE c \in Range(q)
    <3>1. Target[c] = s /\ Kind[c] = k /\ c \in Range(b)
      BY Zenon, <1>5, <2>1, <2>2
    <3>2. waitq'[s][k] = b
      BY Zenon, <1>2, <1>3 DEF TypeOK
    <3> QED BY Zenon, <3>1, <3>2
  <2>3. CASE c \notin Range(q)
    <3>1. c \in active
      BY Zenon, <2>3
    <3>2. Kind[c] \in Waitable /\ c \in Range(waitq[Target[c]][Kind[c]]) /\ Target[c] \in Socks
      BY Zenon, <1>3, <2>1, <3>1, TargetAssumption DEF ParkedSound
    <3>3. ~(Target[c] = s /\ Kind[c] = k)
      BY Zenon, <2>3, <3>2
    <3>4. waitq'[Target[c]][Kind[c]] = waitq[Target[c]][Kind[c]]
      BY Zenon, <1>2, <1>3, <3>2, <3>3 DEF TypeOK
    <3> QED BY Zenon, <3>2, <3>4
  <2> QED BY Zenon, <2>2, <2>3
<1>11. Effect(A)
  BY Zenon, <1>6, <1>7, <1>8, <1>9, <1>10, <1>13 DEF Effect
<1>12. /\ sock' \in [Socks -> {"unused", "open", "closed", "retired"}]
       /\ resultSock' \in [Cmds -> Socks \cup {None}]
  BY <1>2, <1>3 DEF Adopt, TypeOK
<1> QED BY Zenon, <1>11, <1>12

\* Settling some requests of A while the queues of one socket are emptied.
LEMMA AbortEffect ==
  ASSUME IInv, NEW A, Running(A), NEW s \in Socks, NEW o, Commit(o, {}),
         \A c \in DOMAIN o : o[c] \in Outcomes,
         DOMAIN o = (A \ active) \cup Waiters(s),
         waitq' = [waitq EXCEPT ![s] = NoWaiters]
  PROVE  Effect(A)
<1>1. TypeOK /\ ParkedSound /\ LifeCycle
  BY Zenon DEF IInv
<1>2. \A c \in Waiters(s) : c \in active /\ Target[c] = s
  BY <1>1 DEF Waiters, ParkedSound
<1>3. /\ outcome' \in [Cmds -> Outcomes \cup {Pending}]
      /\ state' \in [Cmds -> States]
      /\ \A c \in Cmds : /\ c \notin DOMAIN o => outcome'[c] = outcome[c] /\ state'[c] = state[c]
                         /\ ~Done(c) /\ c \in DOMAIN o => state'[c] \in {"DONE", "CANCELLED"}
                         /\ Done(c) => outcome'[c] = outcome[c] /\ state'[c] = state[c]
  BY <1>1, CommitLemma
<1>4. waitq' \in [Socks -> [Waitable -> Seq(Cmds)]]
  BY <1>1 DEF TypeOK, NoWaiters
<1>5. ASSUME NEW t \in Socks, NEW l \in Waitable
      PROVE  /\ NoRepeat(waitq'[t][l])
             /\ \A c \in Range(waitq'[t][l]) :
                  c \in A /\ outcome'[c] = Pending /\ Target[c] = t /\ Kind[c] = l
  <2>1. CASE t = s
    <3>1. waitq'[t][l] = <<>>
      BY Zenon, <1>1, <2>1 DEF TypeOK, NoWaiters
    <3> QED BY <3>1 DEF NoRepeat, Range
  <2>2. CASE t # s
    <3>1. waitq'[t][l] = waitq[t][l]
      BY Zenon, <1>1, <2>2 DEF TypeOK
    <3>2. NoRepeat(waitq[t][l]) /\ \A c \in Range(waitq[t][l]) :
            c \in active /\ ~Done(c) /\ Target[c] = t /\ Kind[c] = l
      BY Zenon, <1>1 DEF ParkedSound
    <3>3. ASSUME NEW c \in Range(waitq[t][l])
          PROVE  c \notin DOMAIN o /\ c \in Cmds
      <4>1. c \in active /\ c \in Cmds /\ Target[c] # s
        BY Zenon, <2>2, <3>2 DEF Running
      <4> QED BY Zenon, <1>2, <4>1
    <3> QED BY Zenon, <3>1, <3>2, <3>3, <1>3 DEF Running, Done
  <2> QED BY Zenon, <2>1, <2>2
<1>6. \A c \in Cmds \ A : outcome'[c] = outcome[c] /\ state'[c] = state[c]
  BY Zenon, <1>2, <1>3 DEF Running
<1>7. \A c \in A : state'[c] \notin {"NEW", "QUEUED"}
  BY Zenon, <1>1, <1>3 DEF LifeCycle, Running
<1>8. ASSUME NEW c \in A, outcome'[c] = Pending
      PROVE  Kind[c] \in Waitable /\ c \in Range(waitq'[Target[c]][Kind[c]])
  <2>1. c \in Cmds /\ ~Done(c) /\ c \notin DOMAIN o
    BY <1>1, <1>3, <1>8, CommitLemma, OutcomesLemma DEF Running, Done
  <2>2. c \in active /\ c \notin Waiters(s)
    BY Zenon, <2>1
  <2>3. Kind[c] \in Waitable /\ c \in Range(waitq[Target[c]][Kind[c]]) /\ Target[c] \in Socks
    BY Zenon, <1>1, <2>1, <2>2, TargetAssumption DEF ParkedSound
  <2>4. Target[c] # s
    BY Zenon, <2>2, <2>3 DEF Waiters
  <2>5. waitq'[Target[c]] = waitq[Target[c]]
    BY Zenon, <1>1, <2>3, <2>4 DEF TypeOK
  <2> QED BY Zenon, <2>3, <2>5
<1> QED BY Zenon, <1>3, <1>4, <1>5, <1>6, <1>7, <1>8 DEF Effect

\* Settling one request of A that is in no wait queue afterwards.
LEMMA SettleEffect ==
  ASSUME IInv, NEW A, Running(A), NEW c \in A, A \subseteq active \cup {c},
         NEW o, Commit(o, {}), DOMAIN o \subseteq {c}, c \in active \/ c \in DOMAIN o,
         \A d \in DOMAIN o : o[d] \in Outcomes,
         waitq' \in [Socks -> [Waitable -> Seq(Cmds)]],
         \A s \in Socks, k \in Waitable :
           /\ NoRepeat(waitq'[s][k])
           /\ Range(waitq'[s][k]) = Range(waitq[s][k]) \ DOMAIN o
  PROVE  Effect(A)
<1>1. TypeOK /\ ParkedSound /\ LifeCycle
  BY Zenon DEF IInv
<1>2. /\ outcome' \in [Cmds -> Outcomes \cup {Pending}]
      /\ state' \in [Cmds -> States]
      /\ \A d \in Cmds : /\ d \notin DOMAIN o => outcome'[d] = outcome[d] /\ state'[d] = state[d]
                         /\ ~Done(d) /\ d \in DOMAIN o => state'[d] \in {"DONE", "CANCELLED"}
                         /\ Done(d) => outcome'[d] = outcome[d] /\ state'[d] = state[d]
  BY <1>1, CommitLemma
<1>3. ASSUME NEW s \in Socks, NEW k \in Waitable, NEW d \in Range(waitq'[s][k])
      PROVE  d \in A /\ outcome'[d] = Pending /\ Target[d] = s /\ Kind[d] = k
  <2>1. d \in Range(waitq[s][k]) /\ d \notin DOMAIN o
    BY <1>3, Zenon
  <2>2. d \in active /\ ~Done(d) /\ Target[d] = s /\ Kind[d] = k
    BY <1>1, <2>1 DEF ParkedSound
  <2> QED BY Zenon, <1>1, <1>2, <2>1, <2>2 DEF Running, Done, TypeOK
<1>4. \A d \in Cmds \ A : outcome'[d] = outcome[d] /\ state'[d] = state[d]
  BY Zenon, <1>2
<1>5. \A d \in A : state'[d] \notin {"NEW", "QUEUED"}
  BY Zenon, <1>1, <1>2 DEF LifeCycle, Running
<1>6. ASSUME NEW d \in A, outcome'[d] = Pending
      PROVE  Kind[d] \in Waitable /\ d \in Range(waitq'[Target[d]][Kind[d]])
  <2>1. d \in Cmds /\ ~Done(d) /\ d \notin DOMAIN o
    BY <1>1, <1>2, <1>6, CommitLemma, OutcomesLemma DEF Running, Done
  <2>2. d \in active
    BY Zenon, <2>1
  <2>3. Kind[d] \in Waitable /\ d \in Range(waitq[Target[d]][Kind[d]]) /\ Target[d] \in Socks
    BY Zenon, <1>1, <2>1, <2>2, TargetAssumption DEF ParkedSound
  <2> QED BY Zenon, <2>1, <2>3
<1> QED
  <2>1. \A s \in Socks, k \in Waitable : NoRepeat(waitq'[s][k])
    BY Zenon
  <2> QED BY <1>2, <1>3, <1>4, <1>5, <1>6, <2>1 DEF Effect

\* command_cancel_local
LEMMA CancelEffect ==
  ASSUME IInv, NEW A, Running(A), NEW c \in A, A \subseteq active \cup {c},
         NEW e \in Outcomes, CancelLocal(c, e)
  PROVE  Effect(A) /\ outcome'[c] # Pending
<1> DEFINE o == CancelOutcomes(c, e)
           s == Target[c]
<1>1. TypeOK /\ ParkedSound /\ LifeCycle /\ c \in Cmds /\ s \in Socks
  BY Zenon, TargetAssumption DEF IInv, Running
<1>2. Commit(o, {}) /\ waitq' = CancelQueues(c)
  BY Zenon DEF CancelLocal
<1>3. \A d \in DOMAIN o : o[d] \in Outcomes
  BY Zenon DEF CancelOutcomes, NoOutcome
<1>4. ~Done(c) => c \in DOMAIN o
  BY Zenon DEF CancelOutcomes
<1>5. outcome'[c] # Pending
  <2> HIDE DEF o
  <2> QED BY <1>1, <1>2, <1>3, <1>4, CommitLemma, OutcomesLemma DEF Done
<1>6. CASE Done(c)
  <2>1. c \in active /\ DOMAIN o = {} /\ waitq' = waitq
    BY Zenon, <1>2, <1>6 DEF Running, CancelOutcomes, CancelQueues, NoOutcome
  <2>2. /\ waitq' \in [Socks -> [Waitable -> Seq(Cmds)]]
        /\ \A t \in Socks, k \in Waitable :
             /\ NoRepeat(waitq'[t][k])
             /\ Range(waitq'[t][k]) = Range(waitq[t][k]) \ DOMAIN o
    BY Zenon, <1>1, <2>1 DEF TypeOK, ParkedSound
  <2> HIDE DEF o
  <2>3. Effect(A)
    BY Zenon, <1>2, <1>3, <2>1, <2>2, SettleEffect
  <2> QED BY Zenon, <1>5, <2>3
<1>7. CASE ~Done(c) /\ Connecting(c)
  <2>1. DOMAIN o = {c} \cup Waiters(s) /\ waitq' = [waitq EXCEPT ![s] = NoWaiters]
    BY Zenon, <1>2, <1>7 DEF CancelOutcomes, CancelQueues
  <2>2. c \in Waiters(s) /\ c \in active
    BY <1>1, <1>7 DEF Connecting, Waiters, Waitable, ParkedSound
  <2> HIDE DEF o
  <2>3. DOMAIN o = (A \ active) \cup Waiters(s)
    BY Zenon, <2>1, <2>2
  <2>4. Effect(A)
    BY <1>1, <1>2, <1>3, <2>1, <2>3, AbortEffect, Zenon
  <2> QED BY Zenon, <1>5, <2>4
<1>8. CASE ~Done(c) /\ ~Connecting(c)
  <2>1. DOMAIN o = {c}
    BY Zenon, <1>8 DEF CancelOutcomes
  <2>2. waitq' = [waitq EXCEPT ![s] = [k \in Waitable |-> Without(waitq[s][k], c)]]
    BY Zenon, <1>1, <1>2, <1>8 DEF CancelQueues, TypeOK
  <2>3. \A k \in Waitable : /\ Without(waitq[s][k], c) \in Seq(Cmds)
                            /\ NoRepeat(Without(waitq[s][k], c))
                            /\ Range(Without(waitq[s][k], c)) = Range(waitq[s][k]) \ {c}
    BY SMTT(30), <1>1, WithoutLemma DEF TypeOK, ParkedSound
  <2>4. waitq' \in [Socks -> [Waitable -> Seq(Cmds)]]
    BY Zenon, <1>1, <2>2, <2>3 DEF TypeOK
  <2>5. ASSUME NEW t \in Socks, NEW k \in Waitable
        PROVE  /\ NoRepeat(waitq'[t][k])
               /\ Range(waitq'[t][k]) = Range(waitq[t][k]) \ {c}
    <3>1. CASE t = s
      <4>1. waitq'[t][k] = Without(waitq[s][k], c)
        BY Zenon, <1>1, <2>2, <3>1 DEF TypeOK
      <4> QED BY Zenon, <2>3, <3>1, <4>1
    <3>2. CASE t # s
      BY SMTT(30), <1>1, <2>2, <3>2 DEF TypeOK, ParkedSound
    <3> QED BY Zenon, <3>1, <3>2
  <2> HIDE DEF o
  <2>6. Effect(A)
    BY <1>2, <1>3, <2>1, <2>4, <2>5, SettleEffect, Zenon
  <2> QED BY Zenon, <1>5, <2>6
<1> QED BY Zenon, <1>6, <1>7, <1>8

\* command_start: the request joins the active list, and is settled or parked.
LEMMA StartEffect ==
  ASSUME IInv, NEW c \in Cmds, c \in Queued, NEW e \in Reasons \cup {None},
         StartCommand(c, e)
  PROVE  /\ active' = active \cup {c}
         /\ Effect(active \cup {c})
         /\ sock' \in [Socks -> {"unused", "open", "closed", "retired"}]
         /\ resultSock' \in [Cmds -> Socks \cup {None}]
<1> DEFINE A == active \cup {c}
           s == Target[c]
           k == Kind[c]
           Done3 == /\ Effect(A)
                    /\ sock' \in [Socks -> {"unused", "open", "closed", "retired"}]
                    /\ resultSock' \in [Cmds -> Socks \cup {None}]
<1>1. TypeOK /\ ParkedSound /\ LifeCycle /\ LinkedOnce /\ s \in Socks /\ k \in Kinds
  BY Zenon, TargetAssumption, KindAssumption DEF IInv
<1>2. c \notin active /\ ~Done(c)
  BY Zenon, <1>1 DEF LinkedOnce, LifeCycle
<1>3. Running(A)
  BY Zenon, <1>1, <1>2 DEF Running, TypeOK
<1>4. /\ sock \in [Socks -> {"unused", "open", "closed", "retired"}]
      /\ resultSock \in [Cmds -> Socks \cup {None}]
      /\ waitq \in [Socks -> [Waitable -> Seq(Cmds)]]
  BY Zenon, <1>1 DEF TypeOK
<1>5. \A t \in Socks, l \in Waitable :
        NoRepeat(waitq[t][l]) /\ c \notin Range(waitq[t][l])
  BY Zenon, <1>1, <1>2 DEF ParkedSound
<1>6. ASSUME NEW v \in Outcomes, Commit(Outcome(c, v), {}), waitq' = waitq
      PROVE  Effect(A)
  <2>1. /\ DOMAIN Outcome(c, v) = {c}
        /\ \A d \in DOMAIN Outcome(c, v) : Outcome(c, v)[d] \in Outcomes
    BY Zenon, <1>6 DEF Outcome
  <2>2. \A t \in Socks, l \in Waitable :
          Range(waitq'[t][l]) = Range(waitq[t][l]) \ DOMAIN Outcome(c, v)
    BY Zenon, <1>5, <1>6, <2>1
  <2> QED BY <1>3, <1>4, <1>5, <1>6, <2>1, <2>2, SettleEffect, Zenon
<1>7. ASSUME NEW v \in Outcomes, Finish(c, v)
      PROVE  Done3
  BY <1>4, <1>6, <1>7, Zenon DEF Finish
<1>8. {"OK", "ERROR", "EAGAIN", "EBADF"} \subseteq Outcomes /\ Reasons \subseteq Outcomes
  BY Zenon DEF Outcomes
<1>9. ASSUME Park(c), k \in Waitable
      PROVE  Done3
  <2>1. /\ outcome' \in [Cmds -> Outcomes \cup {Pending}]
        /\ state' \in [Cmds -> States]
        /\ \A d \in Cmds : /\ outcome'[d] = outcome[d]
                           /\ d # c => state'[d] = state[d]
                           /\ d = c => state'[d] = "PARKED"
    <3>1. DOMAIN NoOutcome = {}
      BY Zenon DEF NoOutcome
    <3> QED BY <1>1, <1>9, <3>1, CommitLemma DEF Park
  <2>2. waitq' = [waitq EXCEPT ![s][k] = Append(waitq[s][k], c)]
    BY Zenon, <1>9, <1>4, <1>1 DEF Park
  <2>3. /\ Append(waitq[s][k], c) \in Seq(Cmds)
        /\ Range(Append(waitq[s][k], c)) = Range(waitq[s][k]) \cup {c}
        /\ NoRepeat(Append(waitq[s][k], c))
    BY <1>1, <1>4, <1>5, <1>9, AppendLemma
  <2>4. waitq' \in [Socks -> [Waitable -> Seq(Cmds)]]
    BY <1>4, <2>2, <2>3, Zenon
  <2>5. ASSUME NEW t \in Socks, NEW l \in Waitable
        PROVE  /\ NoRepeat(waitq'[t][l])
               /\ \A d \in Range(waitq'[t][l]) :
                    d \in A /\ outcome'[d] = Pending /\ Target[d] = t /\ Kind[d] = l
    <3>0. \A d \in Range(waitq[t][l]) :
            d \in Cmds /\ d \in active /\ outcome[d] = Pending /\ Target[d] = t /\ Kind[d] = l
      <4>1. active \subseteq Cmds
        BY Zenon, <1>1 DEF TypeOK
      <4>2. \A d \in Range(waitq[t][l]) :
              d \in active /\ ~Done(d) /\ Target[d] = t /\ Kind[d] = l
        BY Zenon, <1>1 DEF ParkedSound
      <4> HIDE DEF s, k, A
      <4> QED BY Zenon, <4>1, <4>2 DEF Done
    <3>1. CASE t = s /\ l = k
      <4>1. waitq'[t][l] = Append(waitq[s][k], c)
        BY Zenon, <1>4, <2>2, <3>1
      <4>2. NoRepeat(waitq'[t][l]) /\ Range(waitq'[t][l]) = Range(waitq[t][l]) \cup {c}
        BY Zenon, <2>3, <3>1, <4>1
      <4>3. c \in A /\ outcome'[c] = Pending /\ Target[c] = t /\ Kind[c] = l
        BY Zenon, <1>2, <2>1, <3>1 DEF Done
      <4> QED BY Zenon, <2>1, <3>0, <4>2, <4>3
    <3>2. CASE ~(t = s /\ l = k)
      <4>1. waitq'[t][l] = waitq[t][l]
        BY Zenon, <1>4, <2>2, <3>2
      <4> QED BY Zenon, <1>5, <2>1, <3>0, <4>1
    <3> QED BY Zenon, <3>1, <3>2
  <2>6. \A d \in A : state'[d] \notin {"NEW", "QUEUED"}
    BY Zenon, <1>1, <2>1 DEF LifeCycle, TypeOK
  <2>8. ASSUME NEW d \in A, outcome'[d] = Pending
        PROVE  Kind[d] \in Waitable /\ d \in Range(waitq'[Target[d]][Kind[d]])
    <3>1. CASE d = c
      <4>1. waitq'[s][k] = Append(waitq[s][k], c)
        BY Zenon, <1>1, <1>4, <1>9, <2>2
      <4> QED BY Zenon, <1>9, <2>3, <3>1, <4>1
    <3>2. CASE d \in active
      <4>1. d \in Cmds /\ ~Done(d)
        BY Zenon, <1>1, <2>1, <2>8, <3>2 DEF Done, TypeOK
      <4>2. Kind[d] \in Waitable /\ d \in Range(waitq[Target[d]][Kind[d]]) /\ Target[d] \in Socks
        BY Zenon, <1>1, <3>2, <4>1, TargetAssumption DEF ParkedSound
      <4>3. CASE Target[d] = s /\ Kind[d] = k
        <5>1. waitq'[s][k] = Append(waitq[s][k], c)
          BY Zenon, <1>1, <1>4, <1>9, <2>2
        <5> QED BY Zenon, <2>3, <4>2, <4>3, <5>1
      <4>4. CASE ~(Target[d] = s /\ Kind[d] = k)
        <5>1. waitq'[Target[d]][Kind[d]] = waitq[Target[d]][Kind[d]]
          BY Zenon, <1>4, <2>2, <4>2, <4>4
        <5> QED BY Zenon, <4>2, <5>1
      <4> QED BY Zenon, <4>3, <4>4
    <3> QED BY Zenon, <3>1, <3>2
  <2>7. Effect(A)
    BY Zenon, <2>1, <2>4, <2>5, <2>6, <2>8 DEF Effect
  <2> QED BY Zenon, <1>4, <1>9, <2>7 DEF Park
<1>10. CASE e # None
  <2>1. e \in Outcomes
    BY Zenon, <1>8, <1>10
  <2>2. CancelLocal(c, e) /\ UNCHANGED <<sock, resultSock>>
    BY Zenon, <1>10 DEF StartCommand
  <2>3. Effect(A)
    BY Zenon, <1>3, <2>1, <2>2, CancelEffect
  <2> QED BY Zenon, <1>4, <2>2, <2>3 DEF StartCommand
<1>11. CASE e = None
  <2>1. active' = A
    BY Zenon DEF StartCommand
  <2>2. Process(c) \/ Finish(c, "ERROR")
    BY Zenon, <1>11 DEF StartCommand
  <2>3. CASE Finish(c, "ERROR") \/ Finish(c, "EBADF")
    BY Zenon, <1>7, <1>8, <2>1, <2>3
  <2>4. CASE ProcessCreate(c)
    <3>1. CASE Finish(c, "ERROR")
      BY Zenon, <1>7, <1>8, <2>1, <3>1
    <3>2. CASE Commit(Outcome(c, "OK"), {}) /\ Adopt({c}) /\ UNCHANGED waitq
      <4>1. Effect(A)
        BY Zenon, <1>6, <1>8, <3>2
      <4>2. /\ sock' \in [Socks -> {"unused", "open", "closed", "retired"}]
            /\ resultSock' \in [Cmds -> Socks \cup {None}]
        BY Zenon, <1>4, <3>2 DEF Adopt
      <4> QED BY Zenon, <2>1, <4>1, <4>2
    <3> QED BY Zenon, <2>4, <3>1, <3>2 DEF ProcessCreate
  <2>5. CASE k = "CONNECT" /\ ProcessConnect(c)
    BY <1>7, <1>8, <1>9, <2>1, <2>5, Zenon DEF ProcessConnect, Waitable
  <2>6. CASE k = "SEND" /\ ProcessSend(c)
    BY Zenon, <1>7, <1>8, <1>9, <2>1, <2>6 DEF ProcessSend, Waitable
  <2>7. CASE k \in {"RECV", "ACCEPT"} /\ ProcessQueued(c)
    <3>1. k \in Waitable
      BY Zenon, <2>7 DEF Waitable
    <3>2. CASE Finish(c, "ERROR")
      BY Zenon, <1>7, <1>8, <2>1, <3>2
    <3>3. CASE WakeQueue(s, k, Append(waitq[s][k], c))
      <4> DEFINE q == Append(waitq[s][k], c)
      <4>1. q \in Seq(Cmds) /\ Range(q) = Range(waitq[s][k]) \cup {c} /\ NoRepeat(q)
        BY <1>1, <1>4, <1>5, <3>1, AppendLemma
      <4>2. \A d \in Range(q) : d \in A /\ ~Done(d) /\ Target[d] = s /\ Kind[d] = k
        BY <1>1, <1>2, <3>1, <4>1 DEF ParkedSound
      <4>3. A \subseteq active \cup Range(q) /\ Range(waitq[s][k]) \subseteq Range(q)
        BY Zenon, <4>1
      <4> HIDE DEF q
      <4>4. WakeQueue(s, k, q)
        BY Zenon, <3>3 DEF q
      <4>5. Done3
        BY Zenon, <1>1, <1>3, <3>1, <4>1, <4>2, <4>3, <4>4, WakeEffect
      <4> QED BY Zenon, <2>1, <4>5
    <3> QED BY Zenon, <2>7, <3>2, <3>3 DEF ProcessQueued
  <2>8. CASE ProcessControl(c)
    BY Zenon, <1>7, <1>8, <2>1, <2>8 DEF ProcessControl
  <2>9. CASE ProcessClose(c)
    <3>1. PICK v \in {"OK", "ERROR"} :
            Commit([d \in {c} \cup Waiters(s) |-> IF d = c THEN v ELSE "ECANCELED"], {})
      BY Zenon, <2>9 DEF ProcessClose
    <3> DEFINE o == [d \in {c} \cup Waiters(s) |-> IF d = c THEN v ELSE "ECANCELED"]
    <3>2. DOMAIN o = {c} \cup Waiters(s) /\ \A d \in DOMAIN o : o[d] \in Outcomes
      BY Zenon, <1>8 DEF Reasons
    <3>3. A \ active = {c}
      BY Zenon, <1>2
    <3>4. waitq' = [waitq EXCEPT ![s] = NoWaiters]
      BY Zenon, <2>9 DEF ProcessClose
    <3>5. Commit(o, {})
      BY Zenon, <3>1
    <3> HIDE DEF o
    <3>6. Effect(A)
      BY <1>1, <1>3, <3>2, <3>3, <3>4, <3>5, AbortEffect, Zenon
    <3>7. /\ sock' \in [Socks -> {"unused", "open", "closed", "retired"}]
          /\ resultSock' \in [Cmds -> Socks \cup {None}]
      BY Zenon, <1>1, <1>4, <2>9 DEF ProcessClose
    <3> QED BY Zenon, <2>1, <3>6, <3>7
  <2> QED BY <2>2, <2>3, <2>4, <2>5, <2>6, <2>7, <2>8, <2>9, <1>1, Zenon
          DEF Process, Kinds, Waitable
<1> QED BY Zenon, <1>10, <1>11

=============================================================================
