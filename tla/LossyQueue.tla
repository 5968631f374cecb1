----------------------------- MODULE LossyQueue -----------------------------
(***************************************************************************)
(* What a statistics channel promises: a bounded queue that may refuse a   *)
(* record and then counts it, and hands over what it took, whole and in    *)
(* order.                                                                  *)
(***************************************************************************)
EXTENDS Naturals, Sequences

CONSTANTS Cap, Records

VARIABLES queue, last, lost

Init == queue = <<>> /\ last = <<>> /\ lost = 0

Put == \E r \in Records : /\ Len(queue) < Cap
                          /\ queue' = Append(queue, r)
                          /\ UNCHANGED <<last, lost>>
Lose == lost' = lost + 1 /\ UNCHANGED <<queue, last>>
Get == /\ queue # <<>>
       /\ last' = <<Head(queue)>> /\ queue' = Tail(queue)
       /\ UNCHANGED lost

Next == Put \/ Lose \/ Get
Spec == Init /\ [][Next]_<<queue, last, lost>>
=============================================================================
