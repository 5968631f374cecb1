---------------------------- MODULE StatsChannel ----------------------------
(***************************************************************************)
(* The channel of stats.c on which a worker hands statistics snapshots to  *)
(* the main core: one writer, one reader, two sequence counters and an     *)
(* array of records that are copied field by field while the other side    *)
(* runs.  Release stores and acquire loads order the copies as the steps   *)
(* here are ordered.                                                       *)
(* A snapshot is its number; each of its Fields holds that number, so a    *)
(* torn record shows.                                                      *)
(***************************************************************************)
EXTENDS Integers, Sequences

CONSTANTS
    Cap,            \* TG_STATS_CHANNEL_CAP
    Fields,         \* what a copy of a record consists of
    MaxPublish      \* snapshots published

ASSUME ChannelAssumption == Cap \in Nat \ {0} /\ MaxPublish \in Nat

VARIABLES
    writeSeq, readSeq, dropped, records,
    number,     \* snapshots so far (stats_sequence)
    ppc, seen, left,        \* writer: place, read_seq it loaded, fields to copy
    cpc, got, rest,         \* reader: place, its copy, fields to copy
    sent, out, taken        \* history: accepted and consumed records, drops taken

writer == <<number, ppc, seen, left>>
reader == <<cpc, got, rest>>
vars == <<writeSeq, readSeq, dropped, records, number, ppc, seen, left, cpc, got, rest,
          sent, out, taken>>

Numbers == 0..MaxPublish
Zero == [f \in Fields |-> 0]
Whole(n) == [f \in Fields |-> n]
Slot(i) == i % Cap

\* tg_stats_channel_init.
Init ==
    /\ writeSeq = 0 /\ readSeq = 0 /\ dropped = 0
    /\ records = [s \in 0..(Cap - 1) |-> Zero]
    /\ number = 0 /\ ppc = "idle" /\ seen = 0 /\ left = {}
    /\ cpc = "idle" /\ got = Zero /\ rest = {}
    /\ sent = [i \in Numbers |-> 0] /\ out = [i \in Numbers |-> Zero] /\ taken = 0

----------------------------------------------------------------------------
\* tg_stats_channel_publish.

Publish ==
    /\ ppc = "idle" /\ number < MaxPublish
    /\ number' = number + 1 /\ seen' = readSeq /\ ppc' = "check"
    /\ UNCHANGED <<writeSeq, readSeq, dropped, records, left, reader, sent, out, taken>>

Full(w, r) == w - r >= Cap

PublishDrop ==
    /\ ppc = "check" /\ Full(writeSeq, seen)
    /\ dropped' = dropped + 1 /\ ppc' = "idle"
    /\ UNCHANGED <<writeSeq, readSeq, records, number, seen, left, reader, sent, out, taken>>

PublishBegin ==
    /\ ppc = "check" /\ ~Full(writeSeq, seen)
    /\ left' = Fields /\ ppc' = "copy"
    /\ UNCHANGED <<writeSeq, readSeq, dropped, records, number, seen, reader, sent, out, taken>>

PublishCopy(f) ==
    /\ ppc = "copy" /\ f \in left
    /\ records' = [records EXCEPT ![Slot(writeSeq)][f] = number]
    /\ left' = left \ {f}
    /\ UNCHANGED <<writeSeq, readSeq, dropped, number, ppc, seen, reader, sent, out, taken>>

\* Seeded fault: the sequence number is stored before the record is complete.
CopiedEarly(fields) == TRUE
Copied(fields) == fields = {}

PublishCommit ==
    /\ ppc = "copy" /\ Copied(left)
    /\ writeSeq' = writeSeq + 1 /\ ppc' = "idle" /\ left' = {}
    /\ sent' = [sent EXCEPT ![writeSeq] = number]
    /\ UNCHANGED <<readSeq, dropped, records, number, seen, reader, out, taken>>

----------------------------------------------------------------------------
\* tg_stats_channel_consume and _take_dropped.

Empty(r, w) == r = w

Consume ==
    /\ cpc = "idle" /\ ~Empty(readSeq, writeSeq)
    /\ rest' = Fields /\ cpc' = "copy"
    /\ UNCHANGED <<writeSeq, readSeq, dropped, records, writer, got, sent, out, taken>>

ConsumeCopy(f) ==
    /\ cpc = "copy" /\ f \in rest
    /\ got' = [got EXCEPT ![f] = records[Slot(readSeq)][f]]
    /\ rest' = rest \ {f}
    /\ UNCHANGED <<writeSeq, readSeq, dropped, records, writer, cpc, sent, out, taken>>

\* Seeded fault: one read takes every record there is.
ConsumeCommitAll ==
    /\ cpc = "copy" /\ rest = {}
    /\ readSeq' = writeSeq /\ cpc' = "idle"
    /\ out' = [i \in Numbers |-> IF i \in readSeq..(writeSeq - 1) THEN Whole(sent[i]) ELSE out[i]]
    /\ UNCHANGED <<writeSeq, dropped, records, writer, got, rest, sent, taken>>
ConsumeCommit ==
    /\ cpc = "copy" /\ rest = {}
    /\ readSeq' = readSeq + 1 /\ cpc' = "idle"
    /\ out' = [out EXCEPT ![readSeq] = got]
    /\ UNCHANGED <<writeSeq, dropped, records, writer, got, rest, sent, taken>>

TakeDropped ==
    /\ dropped > 0
    /\ taken' = taken + dropped /\ dropped' = 0
    /\ UNCHANGED <<writeSeq, readSeq, records, writer, reader, sent, out>>

Next ==
    \/ Publish \/ PublishDrop \/ PublishBegin \/ PublishCommit
    \/ Consume \/ ConsumeCommit \/ TakeDropped
    \/ \E f \in Fields : PublishCopy(f) \/ ConsumeCopy(f)

Spec == Init /\ [][Next]_vars

----------------------------------------------------------------------------
(* Properties *)

Idle == IF ppc = "idle" THEN 0 ELSE 1   \* attempts under way

TypeOK ==
    /\ writeSeq \in Numbers /\ readSeq \in Numbers /\ dropped \in Nat /\ taken \in Nat
    /\ records \in [0..(Cap - 1) -> [Fields -> Numbers]]
    /\ number \in Numbers /\ ppc \in {"idle", "check", "copy"} /\ seen \in Numbers
    /\ left \subseteq Fields /\ cpc \in {"idle", "copy"}
    /\ got \in [Fields -> Numbers] /\ rest \subseteq Fields
    /\ sent \in [Numbers -> Numbers] /\ out \in [Numbers -> [Fields -> Numbers]]
    /\ readSeq <= writeSeq

\* The i-th snapshot the main core reads is the i-th the worker got into the
\* channel, with every field of that snapshot, and snapshots are read in the
\* order they were taken (publish and consume never work on one slot at once).
FifoDelivery ==
    /\ \A i \in Numbers : i < readSeq => out[i] = Whole(sent[i])
    /\ \A i, j \in Numbers : i < j /\ j < writeSeq => sent[i] < sent[j]

\* Every snapshot is accounted for: those in the channel, those dropped and
\* those whose loss was reported are all there were (tg_stats_channel_publish,
\* _take_dropped).
DropAccounting == number = writeSeq + dropped + taken + Idle

\* The channel is a bounded lossy queue of whole records
\* (tg_stats_channel_publish, _consume).
Records == {Whole(n) : n \in Numbers}
Pending == [i \in 1..(writeSeq - readSeq) |-> Whole(sent[readSeq + i - 1])]
Last == IF readSeq = 0 THEN <<>> ELSE <<out[readSeq - 1]>>
Lost == dropped + taken
Queue == INSTANCE LossyQueue WITH queue <- Pending, last <- Last, lost <- Lost
ImplementsQueue == Queue!Spec

\* What the writer and the reader know while they copy, and that the slots
\* of readSeq..writeSeq-1 hold the accepted snapshots.
WriterKnows ==
    /\ writeSeq + Idle <= number
    /\ ppc # "idle" => seen <= readSeq
    /\ ppc = "copy" => /\ writeSeq - seen < Cap
                       /\ \A f \in Fields \ left : records[Slot(writeSeq)][f] = number
ReaderKnows ==
    cpc = "copy" => /\ readSeq < writeSeq
                    /\ \A f \in Fields \ rest : got[f] = sent[readSeq]
SlotsHold ==
    /\ writeSeq - readSeq <= Cap
    /\ \A i \in Numbers : i < writeSeq => sent[i] <= number - Idle
    /\ \A i \in Numbers : readSeq <= i /\ i < writeSeq =>
           \A f \in Fields : records[Slot(i)][f] = sent[i]

\* The inductive invariant: a slot is never written while it may be read
\* (write_seq and read_seq of tg_stats_channel_publish and _consume).
IInv == TypeOK /\ FifoDelivery /\ DropAccounting /\ WriterKnows /\ ReaderKnows /\ SlotsHold
=============================================================================
