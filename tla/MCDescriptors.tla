--------------------------- MODULE MCDescriptors ----------------------------
(***************************************************************************)
(* Descriptors and poll sets.  A behaviour plays one scenario: "table" has *)
(* two threads and two descriptors for three sockets and no poll sets,     *)
(* "polling" the constants of the configuration.                           *)
(***************************************************************************)
EXTENDS Nepoll, TLC

CONSTANTS t1, t2

VARIABLE scenario

Table == INSTANCE PublicFd WITH
    Threads <- {t1, t2}, Waiters <- {}, NSOCK_FD_MAX <- 2, MaxSockets <- 3, EventMasks <- {"read"}

RunInit ==
    /\ scenario \in {"table", "polling"}
    /\ IF scenario = "polling" THEN Init
       ELSE Table!FdInit /\ poller = [p \in Pollers |-> [life |-> "none", refs |-> 0, cursor |-> 0, sub |-> [f \in Fds |-> NoSub]]]
                         /\ wait = [w \in Waiters |-> Away]

RunNext ==
    \/ scenario = "table" /\ Table!FdNext /\ UNCHANGED <<scenario, pollVars>>
    \/ scenario = "polling" /\ Next /\ UNCHANGED scenario

RunSpec == RunInit /\ [][RunNext]_<<vars, scenario>>

Symmetric == Permutations(Waiters) \cup Permutations({t1, t2})

----------------------------------------------------------------------------
(* Properties *)

\* Descriptors are neither leaked nor shared, and every open socket is named
\* by one, on its way to one or about to be closed, however publishing,
\* accepting and closing fail or overlap (fd_publish, nclose, naccept).
NoLeakedDescriptor ==
    scenario = "table" => Table!FdInv

\* The table hides no readiness the owner would compute now (it may still show
\* some that was used up), and a waiter sleeps only if the table has nothing for
\* it or somebody is about to notify it (socket_public_update, fd_publish,
\* nepoll_wait).
NothingMissed ==
    /\ scenario = "table" => Table!ReadinessShown
    /\ scenario = "polling" => PollInv

\* A number that is used again never mixes its sockets: concurrent closes never
\* withdraw the newer one, and a subscription made for the older one never
\* reports it (nclose, nepoll_wait).
NumbersReused ==
    [][IF scenario = "table" THEN Table!WithdrawnAfterClose ELSE NoStaleEvent]_vars
=============================================================================
