----------------------------- MODULE RespReply ------------------------------
(***************************************************************************)
(* The streaming parser of redis_client.c: one reply to PING, GET or SET,  *)
(* cut into receives at any byte.  A byte is one of the few the parser     *)
(* tells apart; "pong" and "ok" stand for the words it compares.           *)
(***************************************************************************)
EXTENDS Integers, Sequences, SequencesExt

CONSTANTS
    Streams,        \* what servers send
    LineCap,        \* sizeof(line)
    BulkMax         \* TG_REDIS_BULK_MAX

\* What a configuration satisfies:
\*   LineCap \in Nat \ {0} /\ BulkMax \in Nat \ 0..8

VARIABLES
    command, keepalive,     \* tg_redis_config
    stream, pos,            \* what the server sends, how much of it arrived
    p,                      \* tg_redis_state
    reusable, reason,       \* of tg_txn
    result                  \* last tg_proto_result, "none" before the first

vars == <<command, keepalive, stream, pos, p, reusable, reason, result>>

Digits == {"0", "1", "2"}
Digit(c) == CASE c = "0" -> 0 [] c = "1" -> 1 [] c = "2" -> 2

----------------------------------------------------------------------------
\* finish_line: the parser and the reason after a header line, state
\* "failed" where the function returns -1.
Fits(remaining, digit) == remaining <= (BulkMax - digit) \div 10

Number(line) ==
    FoldLeft(LAMBDA n, c : IF n = -1 \/ c \notin Digits THEN -1
                           ELSE IF ~Fits(n, Digit(c)) THEN -1
                           ELSE n * 10 + Digit(c), 0, line)
\* Seeded fault: an empty bulk string has no second line end.
BulkStateEmpty(n) == IF n > 0 THEN "body" ELSE "done"
BulkState(n) == IF n > 0 THEN "body" ELSE "body_cr"
BulkHeader(s) ==
    IF s.line = <<"-", "1">> THEN [s EXCEPT !.state = "done"]
    ELSE LET n == Number(s.line)
         IN  IF s.line = <<>> \/ n = -1 THEN [s EXCEPT !.state = "failed"]
             ELSE [s EXCEPT !.state = BulkState(n), !.remaining = n]
StatusLine(s) ==
    LET expected == IF command = "ping" THEN "pong" ELSE "ok"
    IN  [s EXCEPT !.state = IF command # "get" /\ s.line = <<expected>> THEN "done" ELSE "failed"]
FinishLine(s) ==
    CASE s.type = "-" -> [s EXCEPT !.state = "failed", !.error = s.line # <<>>]
      [] s.type = "+" -> StatusLine(s)
      [] OTHER -> IF command = "get" THEN BulkHeader(s) ELSE [s EXCEPT !.state = "failed"]

\* The switch of on_rx: one byte outside of a body.
Failed(s) == [s EXCEPT !.state = "failed"]
To(s, ok, state) == IF ok THEN [s EXCEPT !.state = state] ELSE Failed(s)
\* NUL is refused as "lf" is.
InLine(s, c) ==
    CASE c = "cr" -> [s EXCEPT !.state = "line_lf"]
      [] c = "lf" \/ (c # "cr" /\ Len(s.line) = LineCap) -> Failed(s)
      [] OTHER -> [s EXCEPT !.line = Append(@, c)]
OneByte(s, c) ==
    CASE s.state = "type" -> [To(s, c \in {"+", "-", "$"}, "line") EXCEPT !.type = c]
      [] s.state = "line" -> InLine(s, c)
      [] s.state = "line_lf" -> IF c = "lf" THEN FinishLine(s) ELSE Failed(s)
      [] s.state = "body_cr" -> To(s, c = "cr", "body_lf")
      [] s.state = "body_lf" -> To(s, c = "lf", "done")
      [] OTHER -> Failed(s)

\* A body takes all it can of a receive.
BodyTakes(s, n) == IF n > s.remaining THEN s.remaining ELSE n

RECURSIVE Parse(_, _)
\* The loop of on_rx.
Parse(s, bytes) ==
    IF bytes = <<>> \/ s.state = "failed" THEN s
    ELSE IF s.state = "body"
         THEN LET n == BodyTakes(s, Len(bytes))
                  left == s.remaining - n
              IN  Parse([s EXCEPT !.remaining = left, !.state = IF left <= 0 THEN "body_cr" ELSE "body"],
                        SubSeq(bytes, n + 1, Len(bytes)))
         ELSE Parse(OneByte(s, Head(bytes)), Tail(bytes))

----------------------------------------------------------------------------

Init ==
    /\ command \in {"ping", "get", "set"} /\ keepalive \in BOOLEAN
    /\ stream \in Streams /\ pos = 0
    /\ p = [state |-> "type", remaining |-> 0, line |-> <<>>, type |-> "none", error |-> FALSE]
    /\ reusable = FALSE /\ reason = "none" /\ result = "none"

\* on_rx and fail, for a receive of any length.  The flow is finished, and its
\* transaction reset, when the result is not "more".
Open == result \in {"none", "more"}
MayReuse(s) == s.state = "done" /\ keepalive
OnRx(n) ==
    /\ Open /\ pos + n <= Len(stream)
    /\ LET s == Parse(p, SubSeq(stream, pos + 1, pos + n))
       IN  /\ p' = s
           /\ result' = CASE s.state = "failed" -> "failed" [] s.state = "done" -> "complete" [] OTHER -> "more"
           /\ reusable' = MayReuse(s)
           /\ reason' = IF s.state # "failed" THEN reason ELSE IF s.error THEN "redis_error" ELSE "parse"
    /\ pos' = pos + n
    /\ UNCHANGED <<command, keepalive, stream>>

\* on_eof.
OnEof ==
    /\ Open
    /\ reusable' = FALSE /\ result' = IF p.state = "done" THEN "complete" ELSE "failed"
    /\ UNCHANGED <<command, keepalive, stream, pos, p, reason>>

Done == ~Open /\ UNCHANGED vars

Next == (\E n \in 1..Len(stream) : OnRx(n)) \/ OnEof \/ Done

Spec == Init /\ [][Next]_vars

----------------------------------------------------------------------------
(* Properties.  A reply, by its grammar and not by the parser. *)

CrLf == <<"cr", "lf">>
Value(digits) == FoldLeft(LAMBDA n, c : 10 * n + Digit(c), 0, digits)
Bulk(bytes) ==
    \E k \in 1..LineCap :
        /\ k + 3 <= Len(bytes)
        /\ LET digits == SubSeq(bytes, 2, k + 1)
           IN  /\ \A i \in DOMAIN digits : digits[i] \in Digits
               /\ Value(digits) <= BulkMax
               /\ SubSeq(bytes, k + 2, k + 3) = CrLf
               /\ Len(bytes) = k + 5 + Value(digits)
               /\ SubSeq(bytes, Len(bytes) - 1, Len(bytes)) = CrLf
Reply(bytes) ==
    CASE command = "ping" -> bytes = <<"+", "pong">> \o CrLf
      [] command = "set" -> bytes = <<"+", "ok">> \o CrLf
      [] OTHER -> bytes = <<"$", "-", "1">> \o CrLf \/ (bytes # <<>> /\ Head(bytes) = "$" /\ Bulk(bytes))
ErrorLine(bytes) ==
    \E k \in 2..Len(bytes) : /\ Head(bytes) = "-" /\ k > 2 /\ k - 2 <= LineCap
                             /\ k < Len(bytes) /\ SubSeq(bytes, k, k + 1) = CrLf
                             /\ \A i \in 2..(k - 1) : bytes[i] \notin {"cr", "lf"}

Arrived == SubSeq(stream, 1, pos)

\* The parser is in one of its states, its line fits the buffer and it waits
\* for no more bytes than the longest body has.
TypeOK ==
    /\ p.state \in {"type", "line", "line_lf", "body", "body_cr", "body_lf", "done", "failed"}
    /\ p.remaining \in 0..BulkMax /\ Len(p.line) <= LineCap
    /\ pos \in 0..Len(stream) /\ result \in {"none", "more", "complete", "failed"}

\* A transaction succeeds only on exactly one whole reply to its command,
\* wherever the receives were cut (on_rx, finish_line).
OnlyReplies == result = "complete" => Reply(Arrived)

\* A correct reply never fails, and completes with its last byte, wherever
\* the receives were cut (on_rx).
RepliesAccepted ==
    Reply(stream) /\ p.state # "type" =>
        /\ p.state # "failed"
        /\ pos = Len(stream) => p.state = "done"

\* The reason given for a failed parse tells an error reply of the server from
\* anything else (finish_line, fail).
ReasonRight ==
    p.state = "failed" => (reason = "redis_error" <=> ErrorLine(Arrived))

\* A connection goes back to the pool only after a whole reply and only where
\* the scenario keeps connections (on_rx, on_eof).
ReusableRight == reusable => keepalive /\ result = "complete" /\ Reply(Arrived)
=============================================================================
