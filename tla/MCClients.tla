----------------------------- MODULE MCClients ------------------------------
(***************************************************************************)
(* The protocol clients and the capacity search.  A behaviour plays one    *)
(* scenario; only its component is there.                                  *)
(***************************************************************************)
EXTENDS Integers, SequencesExt

CONSTANTS Noisy

VARIABLES
    scenario, stream, pos, reason, result, pc,
    command, keepalive, p, reusable,
    config, ll, c, txn,
    response, require, hop, wanted, nextName, i, address,
    limits, truth, baseline, factor, low, high, cps, repeat, passed, file, runs

\* Redis: every correct reply, two in a row, and every stream one byte away
\* from a correct one.
Alphabet == {"+", "-", "$", "cr", "lf", "0", "1", "2", "ok"}
End == <<"cr", "lf">>
Correct == {<<"+", "pong">> \o End, <<"+", "ok">> \o End, <<"$", "-", "1">> \o End,
            <<"$", "0">> \o End \o End, <<"$", "1">> \o End \o <<"cr">> \o End,
            <<"$", "0", "2">> \o End \o <<"lf", "$">> \o End,
            <<"$", "1", "0">> \o End \o [k \in 1..10 |-> "0"] \o End,
            <<"-", "ok">> \o End}
Twice == {s \o t : s, t \in {r \in Correct : Len(r) < 6}}
Changed == UNION {{[s EXCEPT ![k] = x] : k \in DOMAIN s, x \in Alphabet} : s \in Correct}
Longer == UNION {{InsertAt(s, k, x) : k \in DOMAIN s, x \in Alphabet} : s \in Correct}
Shorter == UNION {{RemoveAt(s, k) : k \in DOMAIN s} : s \in Correct}
Redis == INSTANCE RespReply WITH
    Streams <- Correct \cup Twice \cup Changed \cup Longer \cup Shorter, LineCap <- 2, BulkMax <- 11

\* HTTP: up to three responses, whole, cut short and followed by more, also of
\* other versions of the protocol.
Header(m) == [k |-> "header", of |-> m]
EndOfHeaders(status, keep, body) ==
    [k |-> "blank", version |-> "1.1", status |-> status, keep |-> keep, body |-> body]
Info(m, status) == <<Header(m), EndOfHeaders(status, TRUE, 0)>>
Response(m, headers, status, keep, announced, sent) ==
    [k \in 1..headers |-> Header(m)] \o <<EndOfHeaders(status, keep, announced)>> \o [k \in 1..sent |-> [k |-> "body"]]
Responses(m) ==
    {Response(m, h, s, k, a, b) : h \in 1..3, s \in {200, 404}, k \in BOOLEAN, a \in {-1, 0, 2}, b \in 0..3}
OfVersion(v, r) == [n \in DOMAIN r |-> IF r[n].k = "blank" THEN [r[n] EXCEPT !.version = v] ELSE r[n]]
Http == INSTANCE HttpReply WITH
    Streams <- Responses(1) \cup {OfVersion(v, Info(1, 100)) \o Response(2, 1, 200, TRUE, 2, 2) : v \in {"0.9", "1.0"}}
                 \cup {OfVersion("2.0", r) : r \in Responses(1)} \cup {Info(1, s) \o r : s \in {100, 101}, r \in Responses(2)}
                 \cup {r \o Info(2, 100) : r \in Responses(1)}
                 \cup {r \o Response(2, 1, 200, TRUE, 0, 0) : r \in Responses(1)},
    HeaderCap <- 2, BodyCap <- 2

\* DNS: every answer section of up to three records, and chains and cycles
\* longer than the hop limit.
Records ==
    LET names == {"q", "n", "m"}
    IN  [owner : names, in : {TRUE}, type : {"a"}, data : {"a1"}]
        \cup [owner : names, in : {TRUE}, type : {"cname"}, data : names]
        \cup {[owner |-> "q", in |-> FALSE, type |-> "a", data |-> "a2"],
              [owner |-> "q", in |-> TRUE, type |-> "cname_bad", data |-> "q"],
              [owner |-> "q", in |-> TRUE, type |-> "other", data |-> "q"]}
Dns == INSTANCE DnsReply WITH
    Names <- {"q", "n", "m"}, NoName <- "none", Question <- "q", Addresses <- {"a1", "a2"}, MaxHops <- 3,
    Answers <- UNION {[1..n -> Records] : n \in 0..3}

\* Capacity: limits that are and are not powers of two apart.
Earlier(t) ==
    IF t < 2 THEN [status |-> "below_minimum", passed |-> 0, failed |-> 2]
    ELSE IF t >= 12 THEN [status |-> "lower_bound_only", passed |-> 12, failed |-> 0]
    ELSE [status |-> "bracketed", passed |-> t - 1, failed |-> t + 2]
Search == INSTANCE Capacity WITH
    Limits <- {[minimum |-> m, maximum |-> x, precision |-> q, repeats |-> r] :
                  m \in {1, 3}, x \in {3, 8, 13}, q \in {1, 2, 4}, r \in {1, 2}},
    Truths <- 0..8 \cup {11, 12, 13, 20},
    Baselines <- {[truth |-> t, capacity |-> Earlier(t), repeats |-> 2, same |-> s] :
                     t \in {1, 5, 8, 12}, s \in BOOLEAN},
    Factors <- {60, 100}

redisVars == <<command, keepalive, p, reusable>>
httpVars == <<config, ll, c, txn>>
dnsVars == <<response, require, hop, wanted, nextName, i, address>>
searchVars == <<limits, truth, baseline, factor, low, high, cps, repeat, passed, file, runs>>
vars == <<scenario, stream, pos, reason, result, pc, redisVars, httpVars, dnsVars, searchVars>>

NoRedis == command = 0 /\ keepalive = 0 /\ p = 0 /\ reusable = 0
NoHttp == config = 0 /\ ll = 0 /\ c = 0 /\ txn = 0
NoDns == response = 0 /\ require = 0 /\ hop = 0 /\ wanted = 0 /\ nextName = 0 /\ i = 0 /\ address = 0
NoSearch ==
    /\ limits = 0 /\ truth = 0 /\ baseline = 0 /\ factor = 0 /\ low = 0 /\ high = 0
    /\ cps = 0 /\ repeat = 0 /\ passed = 0 /\ file = 0 /\ runs = 0

Init ==
    \/ /\ scenario = "redis" /\ Redis!Init
       /\ NoHttp /\ NoDns /\ NoSearch /\ pc = 0
    \/ /\ scenario = "http" /\ Http!Init
       /\ NoRedis /\ NoDns /\ NoSearch /\ pc = 0 /\ reason = 0
    \/ /\ scenario = "dns" /\ Dns!Init
       /\ NoRedis /\ NoHttp /\ NoSearch /\ stream = 0 /\ pos = 0
    \/ /\ scenario = "search" /\ Search!Init
       /\ NoRedis /\ NoHttp /\ NoDns /\ stream = 0 /\ pos = 0 /\ reason = 0

Next ==
    \/ scenario = "redis" /\ Redis!Next /\ UNCHANGED <<scenario, httpVars, dnsVars, searchVars, pc>>
    \/ scenario = "http" /\ Http!Next /\ UNCHANGED <<scenario, redisVars, dnsVars, searchVars, pc, reason>>
    \/ scenario = "dns" /\ Dns!Next /\ UNCHANGED <<scenario, redisVars, httpVars, searchVars, stream, pos>>
    \/ scenario = "search" /\ Search!Next /\ UNCHANGED <<scenario, redisVars, httpVars, dnsVars, stream, pos, reason>>

Spec == Init /\ [][Next]_vars

----------------------------------------------------------------------------
(* Properties *)

\* A transaction succeeds on exactly one whole, correct reply to its request and
\* on every such reply, wherever the receives are cut; failures are blamed
\* rightly, connections reused only after a whole reply (redis.c, http.c), and
\* an exported address belongs to the name that was asked for (dns.c).
RepliesJudged ==
    /\ scenario = "redis" =>
          Redis!TypeOK /\ Redis!OnlyReplies /\ Redis!RepliesAccepted /\ Redis!ReasonRight /\ Redis!ReusableRight
    /\ scenario = "http" => /\ Http!TypeOK /\ Http!OnlyWhole /\ Http!WholeAccepted /\ Http!HeadersOfFinal
                            /\ Http!ReuseRight /\ Http!StatusBlamed
    /\ scenario = "dns" => Dns!TypeOK /\ Dns!AddressRooted /\ Dns!AddressFound

\* A valid capacity is what was measured, no run is made twice, a result is
\* accepted as a later baseline, and the regression gate is never wrong about a
\* service with a sharp limit (snowtg_capacity.py).
SearchSound ==
    scenario = "search" =>
        Search!TypeOK /\ Search!ResultMeasured /\ Search!RunOnce /\ Search!AcceptedLater /\ Search!GateSound
=============================================================================
