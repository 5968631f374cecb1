----------------------------- MODULE HttpReply ------------------------------
(***************************************************************************)
(* The HTTP client plugin of http_client.c over llhttp: informational      *)
(* responses and a final one, cut into receives anywhere.  The generated   *)
(* parser of llhttp is modelled by the callbacks it makes.  What arrives   *)
(* is a sequence of units:                                                 *)
(*   [k |-> "header", of |-> m]     a part of a header of message m        *)
(*   [k |-> "blank", version, status, keep, body]   the end of a header    *)
(*       block; body is a number of body units or -1 for a body that ends  *)
(*       with EOF                                                          *)
(*   [k |-> "body"]                                                        *)
(***************************************************************************)
EXTENDS Integers, Sequences, SequencesExt

CONSTANTS
    Streams,
    HeaderCap, BodyCap      \* limits of captured headers and bodies

\* What a configuration satisfies:
\*   HeaderCap \in Nat /\ BodyCap \in Nat

VARIABLES
    config,                 \* tg_http_config: head, close, anyStatus, captures
    stream, pos,
    ll,                     \* llhttp: state and body units to come
    c,                      \* tg_http_parser
    txn,                    \* reusable, peerCloses, reason
    result                  \* last tg_proto_result, "none" before the first

vars == <<config, stream, pos, ll, c, txn, result>>

----------------------------------------------------------------------------
\* Callbacks.  A machine m has ll, c, txn and bad (a callback returned -1).

Bad(m) == [m EXCEPT !.bad = TRUE]

\* tg_http_on_message_begin.
OnMessageBegin(m) == IF m.c.complete THEN Bad(m) ELSE m

\* tg_http_capture, tg_http_header_end.
OnHeader(m, unit) ==
    IF ~config.headers THEN m
    ELSE IF Len(m.c.headers) >= HeaderCap THEN Bad(m)
    ELSE [m EXCEPT !.c.headers = Append(@, unit.of)]

\* tg_http_on_headers_complete; skip says that no body follows.
Informational(status) == status \in 100..199
Refused(status) == ~config.anyStatus /\ status \notin 200..299
Supported(version) == version \in {"1.0", "1.1"}
OnHeadersComplete(m, version, status) ==
    LET n == [m EXCEPT !.c.status = status]
    IN  IF ~Supported(version) THEN Bad(m)
        ELSE CASE status = 101 -> Bad(n)
               [] Informational(status) /\ status # 101 -> n
               [] ~Informational(status) /\ Refused(status) -> Bad([n EXCEPT !.txn.reason = "http_status"])
               [] OTHER -> n
SkipBody(status) == config.head /\ ~Informational(status)

\* tg_http_on_body.
OnBody(m) ==
    IF config.json /\ m.c.body >= BodyCap THEN Bad(m)
    ELSE [m EXCEPT !.c.body = @ + 1]

\* tg_http_on_message_complete.
Complete(m, keep) ==
    LET reuse == ~config.close /\ keep
    IN  [m EXCEPT !.c.complete = TRUE, !.c.reusable = reuse,
                  !.txn.reusable = reuse, !.txn.peerCloses = ~reuse]
OnMessageComplete(m, keep) ==
    IF m.c.status < 200 THEN [m EXCEPT !.c.headers = <<>>] ELSE Complete(m, keep)

----------------------------------------------------------------------------
\* llhttp: the callbacks of one unit.

Keeps(unit) == unit.keep /\ unit.body # -1
EndMessage(m, keep) ==
    [OnMessageComplete(m, keep) EXCEPT !.ll = [state |-> IF keep THEN "start" ELSE "closed", left |-> 0, keep |-> FALSE]]
Blank(m, unit) ==
    LET n == OnHeadersComplete(m, unit.version, unit.status)
    IN  IF n.bad THEN n
        ELSE IF SkipBody(unit.status) \/ Informational(unit.status) \/ unit.body = 0
             THEN EndMessage(n, unit.keep)
        ELSE [n EXCEPT !.ll = [state |-> "body", left |-> unit.body, keep |-> Keeps(unit)]]
BodyUnit(m) ==
    LET n == OnBody(m)
    IN  CASE n.bad -> n
          [] ~n.bad /\ m.ll.left = 1 -> EndMessage(n, m.ll.keep)
          [] OTHER -> [n EXCEPT !.ll.left = IF @ = -1 THEN -1 ELSE @ - 1]
Unit(m, unit) ==
    CASE m.bad -> m
      [] ~m.bad /\ unit.k = "header" /\ m.ll.state \in {"start", "headers"} ->
             LET n == IF m.ll.state = "start" THEN OnMessageBegin(m) ELSE m
             IN  IF n.bad THEN n ELSE OnHeader([n EXCEPT !.ll.state = "headers"], unit)
      [] ~m.bad /\ unit.k = "blank" /\ m.ll.state = "headers" -> Blank(m, unit)
      [] ~m.bad /\ unit.k = "body" /\ m.ll.state = "body" -> BodyUnit(m)
      [] OTHER -> Bad(m)

----------------------------------------------------------------------------

Init ==
    /\ config \in [head : BOOLEAN, close : BOOLEAN, anyStatus : BOOLEAN, headers : BOOLEAN, json : BOOLEAN]
    /\ stream \in Streams /\ pos = 0
    /\ ll = [state |-> "start", left |-> 0, keep |-> FALSE]
    /\ c = [complete |-> FALSE, reusable |-> FALSE, status |-> 0, headers |-> <<>>, body |-> 0]
    /\ txn = [reusable |-> FALSE, peerCloses |-> FALSE, reason |-> "none"]
    /\ result = "none"

Open == result \in {"none", "more"}
Machine == [ll |-> ll, c |-> c, txn |-> txn, bad |-> FALSE]

\* tg_http_on_rx, for a receive of n units.
OnRx(n) ==
    /\ Open /\ pos + n <= Len(stream)
    /\ LET m == FoldLeft(Unit, Machine, SubSeq(stream, pos + 1, pos + n))
       IN  /\ ll' = m.ll /\ c' = m.c
           /\ txn' = IF m.bad THEN m.txn ELSE [m.txn EXCEPT !.reusable = m.c.reusable]
           /\ result' = CASE m.bad -> "failed" [] ~m.bad /\ m.c.complete -> "complete" [] OTHER -> "more"
    /\ pos' = pos + n
    /\ UNCHANGED <<config, stream>>

\* tg_http_on_eof: llhttp_message_needs_eof and llhttp_finish.
AfterEof(m) == [m EXCEPT !.c.reusable = FALSE, !.txn.reusable = FALSE, !.ll.state = "finished"]
EndsWithEof == ll.state = "body" /\ ll.left = -1
OnEof ==
    /\ Open
    /\ LET m == IF EndsWithEof THEN EndMessage(Machine, FALSE) ELSE Machine
           n == AfterEof(m)
       IN  /\ ll' = n.ll /\ c' = n.c /\ txn' = n.txn
           /\ result' = IF n.c.complete THEN "complete" ELSE "failed"
    /\ UNCHANGED <<config, stream, pos>>

\* tg_flow_finish_transaction: the connection is kept for another request.
Reused == result = "complete" /\ txn.reusable

Done == ~Open /\ UNCHANGED vars

Next == (\E n \in 1..Len(stream) : OnRx(n)) \/ OnEof \/ Done

Spec == Init /\ [][Next]_vars

----------------------------------------------------------------------------
(* Properties.  A whole response, by its units and not by the parser. *)

Arrived == SubSeq(stream, 1, pos)
Blanks(s) == {i \in DOMAIN s : s[i].k = "blank"}
Final(s) == {i \in Blanks(s) : ~Informational(s[i].status)}
BodyAfter(s, i) == IF config.head THEN 0 ELSE s[i].body

\* Informational responses, then one final response and nothing after it, all of
\* HTTP/1.0 or 1.1.
Whole(s) ==
    \E i \in Final(s) :
        /\ Final(s) = {i} /\ \A j \in Blanks(s) : j <= i /\ s[j].status # 101
        /\ \A j \in DOMAIN s : j < i => s[j].k # "body"
        /\ \A j \in Blanks(s) : j > 1 /\ s[j - 1].k = "header" /\ s[j].version \in {"1.0", "1.1"}
        /\ IF BodyAfter(s, i) = -1 THEN TRUE ELSE Len(s) = i + BodyAfter(s, i)
        /\ \A j \in (i + 1)..Len(s) : s[j].k = "body"
FinalBlank(s) == s[CHOOSE i \in Final(s) : TRUE]
ByEof(s) == BodyAfter(s, CHOOSE i \in Final(s) : TRUE) = -1
TooLong(s) ==
    \/ config.headers /\ \E m \in 1..Len(s) : Len(SelectSeq(s, LAMBDA u : u.k = "header" /\ u.of = m)) > HeaderCap
    \/ config.json /\ Len(SelectSeq(s, LAMBDA u : u.k = "body")) > BodyCap

\* Captured headers and bodies stay within their buffers.
TypeOK ==
    /\ Len(c.headers) <= HeaderCap /\ (config.json => c.body <= BodyCap)
    /\ result \in {"none", "more", "complete", "failed"} /\ c.complete \in BOOLEAN

\* A transaction succeeds only on exactly one whole final response of an
\* accepted status, wherever the receives were cut
\* (tg_http_on_rx, tg_http_on_eof and the callbacks).
OnlyWhole ==
    result = "complete" => Whole(Arrived) /\ ~Refused(FinalBlank(Arrived).status)

\* A whole response of an accepted status within the limits fails only
\* when EOF cuts it short, and completes with its last unit unless only EOF
\* ends it (tg_http_on_rx, tg_http_on_eof).
WholeAccepted ==
    Whole(stream) /\ (config.anyStatus \/ FinalBlank(stream).status \in 200..299) /\ ~TooLong(stream) =>
        /\ result = "failed" => ll.state = "finished" /\ pos < Len(stream)
        /\ pos = Len(stream) => result = "complete" \/ (ByEof(stream) /\ result = "more")

\* The captured headers of a finished response are its own, none of an
\* informational response before it (tg_http_on_message_complete).
HeadersOfFinal ==
    result = "complete" /\ config.headers =>
        \A i \in DOMAIN c.headers : c.headers[i] = Arrived[Max({j \in DOMAIN Arrived : Arrived[j].k = "header"})].of

\* A connection is reused only after a whole response that does not end with
\* EOF and only where scenario and server keep it, and otherwise the peer is
\* known to close (tg_http_on_message_complete, tg_http_on_eof).
ReuseRight ==
    result = "complete" =>
        /\ Reused => ~config.close /\ FinalBlank(Arrived).keep /\ ~ByEof(Arrived)
        /\ txn.peerCloses = ~Reused

\* A failure is blamed on the status exactly where a refused final status came
\* first (tg_http_on_headers_complete).
StatusBlamed ==
    result = "failed" /\ Whole(stream) /\ ~TooLong(stream) =>
        (txn.reason = "http_status" <=> Final(Arrived) # {} /\ ~config.anyStatus /\ FinalBlank(stream).status \notin 200..299)
=============================================================================
