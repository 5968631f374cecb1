--------------------------- MODULE RequestService ---------------------------
(***************************************************************************)
(* What the command channel promises about one request, whatever rings,    *)
(* lists, timers and reference counts lie behind it: a request that was    *)
(* accepted is answered exactly once, the answer never changes, and its    *)
(* memory is reclaimed exactly once and not before it is answered.         *)
(*                                                                         *)
(*    idle --> asking --> accepted --> freed                               *)
(*       \_______\_____________________/                                   *)
(*                refused                                                  *)
(***************************************************************************)
CONSTANTS
  Requests,   \* the calls
  Results,    \* the possible answers
  Pending     \* no answer yet

VARIABLES
  phase,      \* phase[c]: how far the request has come
  result      \* result[c]: its answer

service == <<phase, result>>

Init ==
  /\ phase = [c \in Requests |-> "idle"]
  /\ result = [c \in Requests |-> Pending]

Ask(c) ==
  /\ phase[c] = "idle"
  /\ phase' = [phase EXCEPT ![c] = "asking"]
  /\ UNCHANGED result

Refuse(c) ==
  /\ phase[c] \in {"idle", "asking"}
  /\ phase' = [phase EXCEPT ![c] = "freed"]
  /\ UNCHANGED result

Accept(c) ==
  /\ phase[c] = "asking"
  /\ phase' = [phase EXCEPT ![c] = "accepted"]
  /\ UNCHANGED result

\* Some accepted requests are answered together (a reset fails every waiter of
\* a socket), and some answered ones are reclaimed.
Serve ==
  \E answered, freed \in SUBSET {c \in Requests : phase[c] = "accepted"} :
    /\ \A c \in answered : result[c] = Pending
    /\ \E r \in [answered -> Results] :
         result' = [c \in Requests |-> IF c \in answered THEN r[c] ELSE result[c]]
    /\ \A c \in freed : result'[c] # Pending
    /\ phase' = [c \in Requests |-> IF c \in freed THEN "freed" ELSE phase[c]]

Next == Serve \/ \E c \in Requests : Ask(c) \/ Refuse(c) \/ Accept(c)

Spec == Init /\ [][Next]_service
=============================================================================
