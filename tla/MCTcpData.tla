----------------------------- MODULE MCTcpData ------------------------------
(***************************************************************************)
(* The data paths of a connection: receiver, sender and out-of-order index. *)
(* A behaviour plays one scenario; the other components stay in their      *)
(* initial states.                                                         *)
(***************************************************************************)
EXTENDS Integers, Sequences

CONSTANTS Null

VARIABLES scenario, b, read, others, s, got, edge, wire, tree, list, pc, at, above, rekey, keys

\* The sequence space wraps inside the stream, the window is smaller than the
\* stream, and the pools may be empty.
Small == INSTANCE TcpReceive WITH
    SeqSpace <- 32, Isn <- 29, StreamLen <- 4, MaxSeg <- 2, RcvBuf <- 3, Scale <- 1, QueueCap <- 2,
    Limits <- [segs |-> 1, bytes |-> 2],
    Tiers <- << [upTo |-> 1, segs |-> 1, bytes |-> 1], [upTo |-> 9, segs |-> 1, bytes |-> 2] >>,
    OwnerMax <- 5, Enter <- 4, Exit <- 2, LowWater <- 1, HighWater <- 4, Pool <- {0, 5},
    Others <- {0}, SackCap <- 2, HistoryMax <- 1
\* The owner core's out-of-order memory is shared with another connection.
Shared == INSTANCE TcpReceive WITH
    SeqSpace <- 32, Isn <- 29, StreamLen <- 4, MaxSeg <- 2, RcvBuf <- 4, Scale <- 1, QueueCap <- 1,
    Limits <- [segs |-> 2, bytes |-> 4],
    Tiers <- << [upTo |-> 1, segs |-> 1, bytes |-> 1], [upTo |-> 9, segs |-> 2, bytes |-> 2] >>,
    OwnerMax <- 4, Enter <- 4, Exit <- 2, LowWater <- 1, HighWater <- 4, Pool <- {1, 5},
    Others <- {0, 3}, SackCap <- 2, HistoryMax <- 2

\* SACK recovery of a flight of four segments.
Sack == INSTANCE TcpSend WITH
    Total <- 4, Mss <- 1, HiWat <- 4, FirstWnd <- 4, Cwnds <- {1, 4}, DupThresh <- 2, ScoreMax <- 3,
    MaxRetries <- 1, SackOn <- TRUE, Nodelay <- FALSE, Status <- "ESTABLISHED", SackCap <- 2, MaxWire <- 1
\* A peer without SACK, and segments of two bytes.
NewReno == INSTANCE TcpSend WITH
    Total <- 5, Mss <- 2, HiWat <- 4, FirstWnd <- 5, Cwnds <- {2, 4}, DupThresh <- 2, ScoreMax <- 3,
    MaxRetries <- 1, SackOn <- FALSE, Nodelay <- FALSE, Status <- "ESTABLISHED", SackCap <- 2, MaxWire <- 1
\* A window that opens late, and acknowledgements that overtake each other.
Window == INSTANCE TcpSend WITH
    Total <- 3, Mss <- 1, HiWat <- 2, FirstWnd <- 1, Cwnds <- {1, 3}, DupThresh <- 2, ScoreMax <- 3,
    MaxRetries <- 1, SackOn <- TRUE, Nodelay <- FALSE, Status <- "ESTABLISHED", SackCap <- 2, MaxWire <- 2

\* Nine keys on both sides of the wrap of a five-bit sequence space.
Index == INSTANCE OfoIndex WITH N <- 9, Base <- 28, Width <- 5

receiveVars == <<b, read, others>>
sendVars == <<s, got, edge, wire>>
indexVars == <<tree, list, pc, at, above, rekey, keys>>
vars == <<scenario, receiveVars, sendVars, indexVars>>

Init ==
    /\ scenario \in {"small", "shared", "sack", "newreno", "window", "index"}
    /\ IF scenario = "shared" THEN Shared!Init ELSE Small!Init
    /\ CASE scenario = "newreno" -> NewReno!Init
         [] scenario = "window" -> Window!Init
         [] OTHER -> Sack!Init
    /\ scenario \notin {"newreno", "window", "sack"} => s.cwnd = 1
    /\ Index!Init

Next ==
    \/ scenario = "small" /\ Small!Next /\ UNCHANGED <<scenario, sendVars, indexVars>>
    \/ scenario = "shared" /\ Shared!Next /\ UNCHANGED <<scenario, sendVars, indexVars>>
    \/ scenario = "sack" /\ Sack!Next /\ UNCHANGED <<scenario, receiveVars, indexVars>>
    \/ scenario = "newreno" /\ NewReno!Next /\ UNCHANGED <<scenario, receiveVars, indexVars>>
    \/ scenario = "window" /\ Window!Next /\ UNCHANGED <<scenario, receiveVars, indexVars>>
    \/ scenario = "index" /\ Index!Next /\ UNCHANGED <<scenario, receiveVars, sendVars>>

Spec == Init /\ [][Next]_vars

----------------------------------------------------------------------------
(* Properties *)

\* The application reads the peer's stream and nothing else, and neither
\* out-of-order bytes nor a closed window lock out the missing ones.  What came
\* out of order is ordered, counted once for connection and core, within the
\* core's cap, and never given up once it was reported to the peer
\* (tcp_receive_stream_range, tcp_ofo_queue_insert, tcp_options_collect_sacks).
ReceiverSound ==
    /\ scenario = "small" => Small!StreamExact /\ Small!HoleFits /\ Small!WindowAnnounced
    /\ scenario = "shared" => /\ Shared!TypeOK /\ Shared!QueueSound /\ Shared!BufferBooks /\ Shared!OwnerCap
                              /\ Shared!SacksHeld /\ Shared!DsackReal

\* The sender's picture of the flight is true under lost, repeated and
\* reordered ACKs: the scoreboard names bytes the peer holds, a recovery can
\* still end, the timer covers the flight, Karn's rule holds, nothing is sent
\* beyond the window and nothing unsent is forgotten
\* (tcp_process_peer_ack_ex, tcp_sack_update, tcp_tx_flush).
SenderSound ==
    /\ scenario = "sack" => /\ Sack!TypeOK /\ Sack!ScoreTrue /\ Sack!RecoveryShape
                            /\ Sack!RescueOnce /\ Sack!TimerCovers /\ Sack!KarnSafe
    /\ scenario = "newreno" => NewReno!RecoveryShape /\ NewReno!TimerCovers /\ NewReno!KarnSafe
    /\ scenario = "window" => Window!WithinWindow /\ Window!NoForgottenData

\* The recovery loop of tcp_tx_flush makes progress with every retransmission,
\* so it ends and no byte is resent twice by the NextSeg rules.
ResendsAdvance == [][scenario = "sack" => Sack!ResendsAdvance]_vars

\* Tree and list of the out-of-order queue are the same order, balanced, and a
\* search finds the right segment, also across the wrap of sequence numbers
\* (tcp_ofo_lower_bound, rb_insert_color, rb_erase, tcp_ofo_rekey_after_trim).
IndexRight ==
    scenario = "index" => /\ Index!TypeOK /\ Index!Linked /\ Index!SameOrder
                          /\ Index!SearchRight /\ Index!Balanced
=============================================================================
