------------------------------ MODULE DnsReply ------------------------------
(***************************************************************************)
(* The DNS client plugin of dns_client.c: what one response datagram does  *)
(* to a transaction, and the loop that follows CNAME records to an         *)
(* address.  Names are compared without case, so a name is a value.         *)
(***************************************************************************)
EXTENDS Integers, Sequences

CONSTANTS
    Names, NoName,
    Question,       \* the qname of the class configuration
    Addresses,
    MaxHops         \* 16 in tg_dns_address

\* A record: IN or not, and an A record of four bytes, a CNAME whose target
\* fills its data or does not, or anything else.
Records == [owner : Names, in : BOOLEAN, type : {"a"}, data : Addresses]
           \cup [owner : Names, in : BOOLEAN, type : {"cname", "cname_bad"}, data : Names]
           \cup [owner : {Question}, in : {TRUE}, type : {"other"}, data : {Question}]

CONSTANT Answers    \* sequences of records: the answer sections

\* What a configuration satisfies:
\*   /\ Question \in Names /\ NoName \notin Names \cup Addresses /\ MaxHops \in Nat \ {0}
\*   /\ \A s \in Answers : \A k \in DOMAIN s : s[k] \in Records

VARIABLES
    response,       \* header checks and answers of the datagram
    require,        \* require_address of the class
    pc,             \* "rx", "hop", "record", "done"
    hop, wanted, nextName, i,       \* the loops of tg_dns_address
    address,        \* of tg_dns_state, NoName if none
    result, reason

vars == <<response, require, pc, hop, wanted, nextName, i, address, result, reason>>

Init ==
    /\ response \in [mine : BOOLEAN, wellFormed : BOOLEAN, rcode : {0, 3}, answers : Answers]
    /\ require \in BOOLEAN
    /\ pc = "rx" /\ hop = 0 /\ wanted = Question /\ nextName = NoName /\ i = 1
    /\ address = NoName /\ result = "none" /\ reason = "none"

Finish(r) == pc' = "done" /\ result' = r

\* tg_dns_on_rx up to tg_dns_address; tg_dns_response_valid tests that the
\* datagram answers the question with its transaction id (mine) and that its
\* sections fill it (wellFormed).
Valid == response.mine /\ response.wellFormed
Refused == ~Valid \/ response.rcode # 0 \/ response.answers = <<>>
OnRx ==
    /\ pc = "rx"
    /\ reason' = IF Valid /\ response.rcode # 0 THEN "dns_rcode" ELSE reason
    /\ IF Refused THEN Finish("failed")
       ELSE IF require THEN pc' = "hop" /\ UNCHANGED result
       ELSE Finish("complete")
    /\ UNCHANGED <<response, require, hop, wanted, nextName, i, address>>

\* One round of tg_dns_address begins, or the hops are used up.
Rounds == MaxHops
Hop ==
    /\ pc = "hop"
    /\ IF hop >= Rounds THEN Finish("failed") /\ UNCHANGED <<nextName, i>>
       ELSE pc' = "record" /\ nextName' = NoName /\ i' = 1 /\ UNCHANGED result
    /\ UNCHANGED <<response, require, hop, wanted, address, reason>>

\* One record of a round.
Matters(r) == r.in /\ r.owner = wanted
Found(r) == Matters(r) /\ r.type = "a"
Record ==
    /\ pc = "record" /\ i <= Len(response.answers)
    /\ LET r == response.answers[i]
           alias == Matters(r) /\ nextName = NoName
       IN  /\ address' = IF Found(r) THEN r.data ELSE address
           /\ nextName' = IF alias /\ r.type = "cname" THEN r.data ELSE nextName
           /\ IF Found(r) THEN Finish("complete")
              ELSE IF alias /\ r.type = "cname_bad" THEN Finish("failed")
              ELSE UNCHANGED <<pc, result>>
    /\ i' = i + 1
    /\ UNCHANGED <<response, require, hop, wanted, reason>>

\* The end of a round.
EndRound ==
    /\ pc = "record" /\ i > Len(response.answers)
    /\ IF nextName = NoName \/ nextName = wanted THEN Finish("failed") /\ UNCHANGED <<hop, wanted>>
       ELSE pc' = "hop" /\ wanted' = nextName /\ hop' = hop + 1 /\ UNCHANGED result
    /\ UNCHANGED <<response, require, nextName, i, address, reason>>

Done == pc = "done" /\ UNCHANGED vars

Next == OnRx \/ Hop \/ Record \/ EndRound \/ Done

Spec == Init /\ [][Next]_vars /\ WF_vars(Next)

----------------------------------------------------------------------------
(* Properties.  The reference follows relations, not rounds. *)

TheAnswers == {response.answers[k] : k \in DOMAIN response.answers}
Alias(n) ==
    LET ks == {k \in DOMAIN response.answers : /\ response.answers[k].in /\ response.answers[k].owner = n
                                               /\ response.answers[k].type \in {"cname", "cname_bad"}}
    IN  IF ks = {} THEN NoName
        ELSE LET r == response.answers[CHOOSE k \in ks : \A l \in ks : k <= l]
             IN  IF r.type = "cname" THEN r.data ELSE NoName
Reach[k \in 0..(MaxHops - 1)] ==
    IF k = 0 THEN {Question} ELSE Reach[k - 1] \cup ({Alias(n) : n \in Reach[k - 1]} \ {NoName})
AddressesOf(n) == {r.data : r \in {x \in TheAnswers : x.in /\ x.owner = n /\ x.type = "a"}}

\* Only a response to the query with code 0 and an answer completes a
\* transaction, and hops and records are counted within their bounds.
TypeOK ==
    /\ result = "complete" => Valid /\ response.rcode = 0 /\ response.answers # <<>>
    /\ hop \in 0..MaxHops /\ i \in 1..(Len(response.answers) + 1) /\ wanted \in Names

\* An exported address belongs to the question or to a name that CNAME records
\* of the answer section lead to from it: no unrelated record, no other class
\* (tg_dns_address; the comment above it).
AddressRooted ==
    address # NoName => \E n \in Reach[MaxHops - 1] : address \in AddressesOf(n)

\* Where the first CNAME records of each name lead to an address within the
\* hop limit, and all of them are well formed, the transaction succeeds with
\* one (tg_dns_address, tg_dns_on_rx).
AddressFound ==
    pc = "done" /\ require /\ Valid /\ response.rcode = 0
    /\ (\E n \in Reach[MaxHops - 1] : AddressesOf(n) # {})
    /\ (\A r \in TheAnswers : r.type # "cname_bad") =>
        result = "complete" /\ address # NoName

=============================================================================
