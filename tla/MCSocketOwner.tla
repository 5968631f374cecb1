--------------------------- MODULE MCSocketOwner ---------------------------
(***************************************************************************)
(* SocketOwner for TLC.  A behaviour plays one scenario, the calls of      *)
(* which are the only ones made.                                           *)
(***************************************************************************)
EXTENDS SocketOwner, TLC

CONSTANTS r1, r2, close, connect, send, create, accept, control, s1, s2, s3

VARIABLE scenario

MCKind == r1 :> "RECV" @@ r2 :> "RECV" @@ close :> "CLOSE" @@ connect :> "CONNECT" @@ send :> "SEND"
          @@ create :> "CREATE" @@ accept :> "ACCEPT" @@ control :> "CONTROL"
MCTarget == [c \in Cmds |-> IF c = control THEN s2 ELSE s1]

\* Two readers whose threads may be cancelled; two readers and the close of their
\* socket; a connect with a timeout and a writer; a new socket, an accepted one,
\* and a nonblocking command on either once it is taken.
Calls == [readers |-> {r1, r2}, closing |-> {r1, r2, close}, connecting |-> {connect, send}, creating |-> {create, accept, control}]

RunInit == scenario \in DOMAIN Calls /\ Init
RunNext ==
    /\ UNCHANGED scenario /\ Next
    /\ \A c \in Cmds \ Calls[scenario] : pc'[c] = "idle"
    /\ scenario = "closing" => \A c \in Cmds : pc'[c] # "cancelling"
    /\ scenario = "creating" => pc'[control] # "cancelling"
RunSpec == RunInit /\ [][RunNext]_<<vars, scenario>>

Symmetric == Permutations({r1, r2})
=============================================================================
