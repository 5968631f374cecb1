------------------------- MODULE StatsChannelProofs -------------------------
(***************************************************************************)
(* Proofs about StatsChannel for every capacity, every set of fields and   *)
(* any number of snapshots: the inductive invariant, what it implies, and  *)
(* that the channel implements LossyQueue.                                 *)
(***************************************************************************)
EXTENDS StatsChannel, SequenceTheorems, TLAPS

\* A sequence number names a slot of the array.
LEMMA SlotInRange ==
    ASSUME NEW i \in Nat
    PROVE  Slot(i) \in 0..(Cap - 1)
BY ChannelAssumption DEF Slot

\* Numbers less than Cap apart name different slots (write_seq % CAP).
LEMMA SlotsDiffer ==
    ASSUME NEW i \in Nat, NEW j \in Nat, i < j, j - i < Cap
    PROVE  Slot(i) # Slot(j)
<1> DEFINE p == i \div Cap
           q == j \div Cap
<1>1. i = Cap * p + (i % Cap) /\ p \in Int
  BY ChannelAssumption
<1>2. j = Cap * q + (j % Cap) /\ q \in Int
  BY ChannelAssumption
<1>3. ASSUME i % Cap = j % Cap PROVE FALSE
  <2>1. j - i = Cap * (q - p)
    BY <1>1, <1>2, <1>3, ChannelAssumption
  <2>2. q - p >= 1
    BY <2>1, <1>1, <1>2, ChannelAssumption
  <2>3. Cap * (q - p) >= Cap
    BY <2>2, <1>1, <1>2, ChannelAssumption
  <2>4. Cap * (q - p) \in Int
    BY <1>1, <1>2, ChannelAssumption
  <2> HIDE DEF p, q
  <2> QED BY <2>1, <2>3, <2>4, ChannelAssumption
<1> QED BY Zenon, <1>3 DEF Slot

----------------------------------------------------------------------------
LEMMA InitIInv == Init => IInv
<1> SUFFICES ASSUME Init PROVE IInv
  BY Zenon
<1>1. Zero \in [Fields -> Numbers] /\ 0 \in Numbers
  BY ChannelAssumption DEF Zero, Numbers
<1>2. TypeOK
  BY <1>1, ChannelAssumption DEF Init, TypeOK
<1>3. FifoDelivery
  BY ChannelAssumption DEF Init, FifoDelivery, Numbers
<1>4. DropAccounting /\ Idle = 0
  BY DEF Init, DropAccounting, Idle
<1>5. WriterKnows /\ ReaderKnows /\ SlotsHold
  BY <1>4, ChannelAssumption DEF Init, WriterKnows, ReaderKnows, SlotsHold, Numbers
<1> QED
  BY Zenon, <1>2, <1>3, <1>4, <1>5 DEF IInv

\* The writer: the load of read_seq, the two outcomes of the test.
LEMMA PublishStep == ASSUME IInv, Publish PROVE IInv'
<1> USE DEF IInv, Publish, reader
<1>1. TypeOK'
  <2>1. number + 1 \in Numbers /\ readSeq \in Numbers
    BY ChannelAssumption DEF TypeOK, Numbers
  <2> QED BY Zenon, <2>1 DEF TypeOK
<1>2. FifoDelivery'
  BY Zenon DEF FifoDelivery
<1>3. DropAccounting' /\ Idle = 0 /\ Idle' = 1
  BY DEF DropAccounting, Idle, TypeOK, Numbers
<1>4. WriterKnows'
  BY <1>3, ChannelAssumption DEF WriterKnows, TypeOK, Numbers
<1>5. ReaderKnows'
  BY Zenon DEF ReaderKnows
<1>6. SlotsHold'
  BY <1>3, ChannelAssumption DEF SlotsHold, TypeOK, Numbers
<1> QED
  BY Zenon, <1>1, <1>2, <1>3, <1>4, <1>5, <1>6

LEMMA DropStep == ASSUME IInv, PublishDrop PROVE IInv'
<1> USE DEF IInv, PublishDrop, reader
<1>1. TypeOK'
  BY DEF TypeOK
<1>2. FifoDelivery'
  BY Zenon DEF FifoDelivery
<1>3. DropAccounting' /\ Idle = 1 /\ Idle' = 0
  BY DEF DropAccounting, Idle, TypeOK, Numbers
<1>4. WriterKnows'
  BY <1>3, ChannelAssumption DEF WriterKnows, TypeOK, Numbers
<1>5. ReaderKnows'
  BY Zenon DEF ReaderKnows
<1>6. SlotsHold'
  BY <1>3, ChannelAssumption DEF SlotsHold, TypeOK, Numbers
<1> QED
  BY Zenon, <1>1, <1>2, <1>3, <1>4, <1>5, <1>6

LEMMA BeginStep == ASSUME IInv, PublishBegin PROVE IInv'
<1> USE DEF IInv, PublishBegin, reader
<1>1. TypeOK'
  BY Zenon DEF TypeOK
<1>2. FifoDelivery'
  BY Zenon DEF FifoDelivery
<1>3. DropAccounting' /\ Idle = 1 /\ Idle' = 1
  BY Zenon DEF DropAccounting, Idle, TypeOK, Numbers
<1>4. WriterKnows'
  BY <1>3, ChannelAssumption DEF Full, WriterKnows, TypeOK, Numbers
<1>5. ReaderKnows'
  BY Zenon DEF ReaderKnows
<1>6. SlotsHold'
  BY Zenon, <1>3, ChannelAssumption DEF SlotsHold, TypeOK, Numbers
<1> QED
  BY Zenon, <1>1, <1>2, <1>3, <1>4, <1>5, <1>6

\* The slot being written is none of those the reader may read.
LEMMA CopyStep == ASSUME IInv, NEW f \in Fields, PublishCopy(f) PROVE IInv'
<1> USE DEF IInv, PublishCopy, reader
<1>1. writeSeq \in Nat /\ Slot(writeSeq) \in 0..(Cap - 1) /\ number \in Numbers
  BY SlotInRange DEF TypeOK, Numbers
<1>2. TypeOK'
  <2>1. records' \in [0..(Cap - 1) -> [Fields -> Numbers]]
    BY Zenon, <1>1 DEF TypeOK
  <2> QED BY Zenon, <2>1 DEF TypeOK
<1>3. FifoDelivery'
  BY Zenon DEF FifoDelivery
<1>4. DropAccounting' /\ Idle' = Idle
  BY Zenon DEF DropAccounting, Idle
<1>5. WriterKnows'
  BY Zenon, <1>1, <1>4 DEF WriterKnows, TypeOK
<1>6. ReaderKnows'
  BY Zenon DEF ReaderKnows
<1>7. ASSUME NEW i \in Numbers, readSeq <= i, i < writeSeq
      PROVE  records'[Slot(i)] = records[Slot(i)]
  <2>1. i \in Nat /\ writeSeq - i < Cap
    BY <1>7, ChannelAssumption DEF WriterKnows, TypeOK, Numbers
  <2>2. Slot(i) # Slot(writeSeq)
    BY Zenon, <1>1, <1>7, <2>1, SlotsDiffer
  <2> QED BY Zenon, <1>1, <2>1, <2>2, SlotInRange DEF TypeOK
<1>8. SlotsHold'
  BY Zenon, <1>4, <1>7 DEF SlotsHold
<1> QED
  BY Zenon, <1>2, <1>3, <1>4, <1>5, <1>6, <1>8

\* The record is complete when write_seq admits it.
LEMMA CommitStep == ASSUME IInv, PublishCommit PROVE IInv'
<1> USE DEF IInv, PublishCommit, reader
<1>1. left = {} /\ Idle = 1 /\ Idle' = 0
  BY Zenon DEF Copied, Idle
<1>2. writeSeq \in Numbers /\ writeSeq + 1 \in Numbers
  BY <1>1, ChannelAssumption DEF WriterKnows, TypeOK, Numbers
<1>3. sent'[writeSeq] = number /\ \A i \in Numbers : i # writeSeq => sent'[i] = sent[i]
  BY Zenon, <1>2 DEF TypeOK
<1>4. \A i \in Numbers : i < writeSeq => sent[i] < number
  <2> SUFFICES ASSUME NEW i \in Numbers, i < writeSeq PROVE sent[i] < number
    BY Zenon
  <2>1. sent[i] <= number - 1
    BY Zenon, <1>1 DEF SlotsHold
  <2>2. sent[i] \in Numbers /\ number \in Numbers
    BY Zenon DEF TypeOK
  <2> QED BY <2>1, <2>2 DEF Numbers
<1>5. TypeOK'
  BY <1>2 DEF TypeOK, Numbers
<1>6. FifoDelivery'
  <2>1. \A i \in Numbers : i < readSeq => out'[i] = Whole(sent'[i])
    BY <1>3 DEF FifoDelivery, TypeOK, Numbers
  <2>2. ASSUME NEW i \in Numbers, NEW j \in Numbers, i < j, j < writeSeq + 1
        PROVE  sent'[i] < sent'[j]
    <3>1. i # writeSeq /\ i < writeSeq /\ sent'[i] = sent[i]
      BY <2>2, <1>2, <1>3 DEF Numbers
    <3>2. CASE j = writeSeq
      BY Zenon, <3>1, <3>2, <1>3, <1>4
    <3>3. CASE j # writeSeq
      <4>1. j < writeSeq /\ sent'[j] = sent[j]
        BY <2>2, <3>3, <1>2, <1>3 DEF Numbers
      <4> QED BY Zenon, <2>2, <3>1, <4>1 DEF FifoDelivery
    <3> QED BY Zenon, <3>2, <3>3
  <2> QED BY Zenon, <2>1, <2>2 DEF FifoDelivery
<1>7. DropAccounting'
  BY <1>1 DEF DropAccounting, TypeOK, Numbers
<1>8. WriterKnows'
  BY <1>1, <1>2 DEF WriterKnows, TypeOK, Numbers
<1>9. ReaderKnows'
  BY <1>3 DEF ReaderKnows, TypeOK, Numbers
<1>10. SlotsHold'
  <2>1. writeSeq' - readSeq' <= Cap
    BY <1>2, ChannelAssumption DEF WriterKnows, TypeOK, Numbers
  <2>2. ASSUME NEW i \in Numbers, i < writeSeq'
        PROVE  sent'[i] <= number' - Idle'
    <3>1. CASE i = writeSeq
      BY <3>1, <1>1, <1>3 DEF TypeOK, Numbers
    <3>2. CASE i # writeSeq
      <4>1. i < writeSeq
        BY <2>2, <3>2, <1>2 DEF Numbers
      <4>2. sent[i] < number /\ sent'[i] = sent[i]
        BY Zenon, <4>1, <3>2, <1>3, <1>4
      <4>3. sent[i] \in Numbers /\ number \in Numbers
        BY Zenon DEF TypeOK
      <4> QED BY <4>2, <4>3, <1>1 DEF Numbers
    <3> QED BY Zenon, <3>1, <3>2
  <2>3. ASSUME NEW i \in Numbers, readSeq' <= i, i < writeSeq', NEW f \in Fields
        PROVE  records'[Slot(i)][f] = sent'[i]
    <3>1. CASE i = writeSeq
      BY Zenon, <3>1, <1>1, <1>3 DEF WriterKnows
    <3>2. CASE i # writeSeq
      BY <2>3, <3>2, <1>2, <1>3 DEF SlotsHold, Numbers
    <3> QED BY Zenon, <3>1, <3>2
  <2> QED BY Zenon, <2>1, <2>2, <2>3 DEF SlotsHold
<1> QED
  BY Zenon, <1>5, <1>6, <1>7, <1>8, <1>9, <1>10

----------------------------------------------------------------------------
\* The reader.
LEMMA ConsumeStep == ASSUME IInv, Consume PROVE IInv'
<1> USE DEF IInv, Consume, writer
<1>1. TypeOK'
  BY Zenon DEF TypeOK
<1>2. FifoDelivery'
  BY Zenon DEF FifoDelivery
<1>3. DropAccounting' /\ Idle' = Idle
  BY Zenon DEF DropAccounting, Idle, TypeOK, Numbers
<1>4. WriterKnows'
  BY Zenon, <1>3 DEF WriterKnows
<1>5. ReaderKnows'
  BY DEF ReaderKnows, Empty, TypeOK, Numbers
<1>6. SlotsHold'
  BY Zenon, <1>3 DEF SlotsHold
<1> QED
  BY Zenon, <1>1, <1>2, <1>3, <1>4, <1>5, <1>6

LEMMA ConsumeCopyStep == ASSUME IInv, NEW f \in Fields, ConsumeCopy(f) PROVE IInv'
<1> USE DEF IInv, ConsumeCopy, writer
<1>0. /\ got' \in [Fields -> Numbers]
      /\ \A g \in Fields \ rest' : got'[g] = sent[readSeq]
  <2>1. readSeq \in Numbers /\ readSeq <= readSeq /\ readSeq < writeSeq
    BY DEF ReaderKnows, TypeOK, Numbers
  <2>2. records[Slot(readSeq)][f] = sent[readSeq] /\ sent[readSeq] \in Numbers
    BY Zenon, <2>1 DEF SlotsHold, TypeOK
  <2> QED BY Zenon, <2>2 DEF ReaderKnows, TypeOK
<1>1. TypeOK'
  BY Zenon, <1>0 DEF TypeOK
<1>2. FifoDelivery'
  BY Zenon DEF FifoDelivery
<1>3. DropAccounting' /\ Idle' = Idle
  BY Zenon DEF DropAccounting, Idle, TypeOK, Numbers
<1>4. WriterKnows'
  BY Zenon, <1>3 DEF WriterKnows
<1>5. ReaderKnows'
  BY Zenon, <1>0 DEF ReaderKnows
<1>6. SlotsHold'
  BY Zenon, <1>3 DEF SlotsHold
<1> QED
  BY Zenon, <1>1, <1>2, <1>3, <1>4, <1>5, <1>6

LEMMA ConsumeCommitStep == ASSUME IInv, ConsumeCommit PROVE IInv'
<1> USE DEF IInv, ConsumeCommit, writer
<1>0. /\ readSeq \in Numbers /\ readSeq + 1 \in Numbers /\ readSeq + 1 <= writeSeq
      /\ got = Whole(sent[readSeq])
  <2>1. readSeq \in Numbers /\ readSeq + 1 \in Numbers /\ readSeq + 1 <= writeSeq
    BY ChannelAssumption DEF ReaderKnows, TypeOK, Numbers
  <2>2. got = Whole(sent[readSeq])
    BY Zenon DEF ReaderKnows, Whole, TypeOK
  <2> QED BY Zenon, <2>1, <2>2
<1>1. TypeOK'
  BY Zenon, <1>0 DEF TypeOK, Numbers
<1>2. FifoDelivery'
  BY <1>0 DEF FifoDelivery, TypeOK, Numbers
<1>3. DropAccounting' /\ Idle' = Idle
  BY Zenon DEF DropAccounting, Idle, TypeOK, Numbers
<1>4. WriterKnows'
  BY <1>0, <1>3 DEF WriterKnows, TypeOK, Numbers
<1>5. ReaderKnows'
  BY Zenon DEF ReaderKnows
<1>6. SlotsHold'
  <2>1. writeSeq' - readSeq' <= Cap
    BY <1>0, ChannelAssumption DEF SlotsHold, TypeOK, Numbers
  <2>2. \A i \in Numbers : i < writeSeq' => sent'[i] <= number' - Idle'
    BY Zenon, <1>3 DEF SlotsHold
  <2>3. ASSUME NEW i \in Numbers, readSeq' <= i, i < writeSeq', NEW f \in Fields
        PROVE  records'[Slot(i)][f] = sent'[i]
    <3>1. readSeq <= i /\ i < writeSeq
      BY <2>3, <1>0 DEF Numbers
    <3> QED BY Zenon, <3>1 DEF SlotsHold
  <2> QED BY Zenon, <2>1, <2>2, <2>3 DEF SlotsHold
<1> QED
  BY Zenon, <1>1, <1>2, <1>3, <1>4, <1>5, <1>6

LEMMA TakeStep == ASSUME IInv, TakeDropped PROVE IInv'
<1> USE DEF IInv, TakeDropped, writer, reader
<1>1. TypeOK'
  BY DEF TypeOK
<1>2. FifoDelivery'
  BY Zenon DEF FifoDelivery
<1>3. DropAccounting' /\ Idle' = Idle
  BY DEF DropAccounting, Idle, TypeOK, Numbers
<1>4. WriterKnows'
  BY Zenon, <1>3 DEF WriterKnows
<1>5. ReaderKnows'
  BY Zenon DEF ReaderKnows
<1>6. SlotsHold'
  BY Zenon, <1>3 DEF SlotsHold
<1> QED
  BY Zenon, <1>1, <1>2, <1>3, <1>4, <1>5, <1>6

LEMMA StepIInv == IInv /\ [Next]_vars => IInv'
<1> SUFFICES ASSUME IInv, [Next]_vars PROVE IInv'
  BY Zenon
<1>1. CASE UNCHANGED vars
  BY Zenon, <1>1 DEF vars, IInv, TypeOK, FifoDelivery, DropAccounting, Idle,
     WriterKnows, ReaderKnows, SlotsHold
<1>2. CASE Next
  BY Zenon, <1>2, PublishStep, DropStep, BeginStep, CopyStep, CommitStep, ConsumeStep,
     ConsumeCopyStep, ConsumeCommitStep, TakeStep DEF Next
<1> QED BY Zenon, <1>1, <1>2

\* The invariant of the two copying sides holds in every state, for every
\* capacity of the channel.
THEOREM ChannelInvariance == Spec => []IInv
BY InitIInv, StepIInv, PTL DEF Spec

\* The main core reads the accepted snapshots in order and untorn.
THEOREM ChannelDelivery == Spec => []FifoDelivery
<1>1. IInv => FifoDelivery
  BY Zenon DEF IInv
<1> QED BY <1>1, ChannelInvariance, PTL

\* No snapshot disappears unaccounted.
THEOREM ChannelAccounting == Spec => []DropAccounting
<1>1. IInv => DropAccounting
  BY Zenon DEF IInv
<1> QED BY <1>1, ChannelInvariance, PTL

----------------------------------------------------------------------------
(* The channel of StatsChannel implements LossyQueue. *)

\* The accepted and unread snapshots are a sequence of whole records.
LEMMA PendingType ==
    ASSUME IInv
    PROVE  Pending \in Seq(Records) /\ Len(Pending) = writeSeq - readSeq
<1>1. writeSeq - readSeq \in Nat
  BY DEF IInv, TypeOK, Numbers
<1>2. \A i \in 1..(writeSeq - readSeq) : Whole(sent[readSeq + i - 1]) \in Records
  <2> SUFFICES ASSUME NEW i \in 1..(writeSeq - readSeq)
               PROVE  sent[readSeq + i - 1] \in Numbers
    BY Zenon DEF Records
  <2>1. readSeq \in 0..MaxPublish /\ writeSeq \in 0..MaxPublish /\ readSeq <= writeSeq
    BY Zenon DEF IInv, TypeOK, Numbers
  <2>2. readSeq + i - 1 \in 0..MaxPublish
    BY <2>1, ChannelAssumption
  <2> QED BY Zenon, <2>2 DEF IInv, TypeOK, Numbers
<1>3. Pending \in Seq(Records)
  BY <1>1, <1>2, IsASeq DEF Pending
<1> QED BY <1>1, <1>3 DEF Pending

LEMMA QueueInit == Init => Queue!Init
BY DEF Init, Queue!Init, Pending, Last, Lost

\* A stored write_seq is one record put at the end.
LEMMA CommitPuts == ASSUME IInv, IInv', PublishCommit PROVE Queue!Put
<1> DEFINE n == writeSeq - readSeq
           r == Whole(number)
<1>1. /\ n \in Nat /\ writeSeq \in Numbers /\ readSeq \in Nat /\ number \in Numbers
      /\ writeSeq' = writeSeq + 1 /\ readSeq' = readSeq /\ writeSeq \in Nat
  BY DEF IInv, PublishCommit, TypeOK, Numbers
<1>2. r \in Records
  BY Zenon, <1>1 DEF Records
<1>3. Pending \in Seq(Records) /\ Len(Pending) = n
  BY Zenon, PendingType
<1>4. Pending' \in Seq(Records) /\ Len(Pending') = n + 1
  <2>1. (Pending \in Seq(Records) /\ Len(Pending) = writeSeq - readSeq)'
    BY PendingType, PTL
  <2> QED BY <2>1, <1>1 DEF Records, Whole
<1>5. n < Cap
  BY ChannelAssumption DEF IInv, PublishCommit, WriterKnows, TypeOK, Numbers
<1>6. ASSUME NEW i \in 1..(n + 1) PROVE Pending'[i] = Append(Pending, r)[i]
  <2>1. Pending'[i] = Whole(sent'[readSeq + i - 1])
    BY <1>1 DEF Pending, Whole
  <2>2. CASE i = n + 1
    <3>1. readSeq + i - 1 = writeSeq
      BY <2>2, <1>1 DEF Numbers
    <3>2. sent'[writeSeq] = number
      BY Zenon, <1>1 DEF IInv, TypeOK, PublishCommit
    <3> QED BY <2>1, <2>2, <3>1, <3>2, <1>2, <1>3, AppendProperties
  <2>3. CASE i \in 1..n
    <3>1. readSeq + i - 1 # writeSeq /\ readSeq + i - 1 \in Numbers
      BY <2>3, <1>1, ChannelAssumption DEF Numbers
    <3>2. sent'[readSeq + i - 1] = sent[readSeq + i - 1]
      BY Zenon, <3>1 DEF IInv, TypeOK, PublishCommit
    <3>3. Pending[i] = Whole(sent[readSeq + i - 1])
      BY Zenon, <2>3 DEF Pending
    <3>4. Append(Pending, r)[i] = Pending[i]
      BY <2>3, <1>2, <1>3, AppendProperties
    <3> QED BY Zenon, <2>1, <3>2, <3>3, <3>4 DEF Whole
  <2>4. i = n + 1 \/ i \in 1..n
    BY <1>1
  <2> QED BY Zenon, <2>2, <2>3, <2>4
<1>7. Pending' = Append(Pending, r)
  <2>1. Append(Pending, r) \in Seq(Records) /\ Len(Append(Pending, r)) = n + 1
    BY <1>2, <1>3, AppendProperties
  <2> QED BY Zenon, <2>1, <1>4, <1>6, SeqEqual
<1>8. Last' = Last /\ Lost' = Lost
  BY Zenon DEF PublishCommit, Last, Lost
<1> QED BY Zenon, <1>2, <1>3, <1>5, <1>7, <1>8 DEF Queue!Put

\* A stored read_seq is the first record got, whole.
LEMMA CommitGets == ASSUME IInv, IInv', ConsumeCommit PROVE Queue!Get
<1> DEFINE n == writeSeq - readSeq
<1>1. /\ n \in Nat \ {0} /\ readSeq \in Numbers /\ readSeq \in Nat
      /\ readSeq' = readSeq + 1 /\ writeSeq' = writeSeq /\ sent' = sent
      /\ writeSeq \in Nat
  BY DEF IInv, ConsumeCommit, ReaderKnows, TypeOK, Numbers
<1>2. Pending \in Seq(Records) /\ Len(Pending) = n
  BY Zenon, PendingType
<1>3. Pending' \in Seq(Records) /\ Len(Pending') = n - 1
  <2>1. (Pending \in Seq(Records) /\ Len(Pending) = writeSeq - readSeq)'
    BY PendingType, PTL
  <2> QED BY <2>1, <1>1 DEF Records, Whole
<1>4. Pending # <<>>
  BY Zenon, <1>1, <1>2
<1>5. /\ Tail(Pending) \in Seq(Records) /\ Len(Tail(Pending)) = n - 1
      /\ \A i \in 1..(n - 1) : Tail(Pending)[i] = Pending[i + 1]
  BY Zenon, <1>2, <1>4, HeadTailProperties
<1>6. ASSUME NEW i \in 1..(n - 1) PROVE Pending'[i] = Tail(Pending)[i]
  <2>1. Pending'[i] = Whole(sent[readSeq + 1 + i - 1])
    BY <1>1 DEF Pending, Whole
  <2>2. Pending[i + 1] = Whole(sent[readSeq + (i + 1) - 1])
    BY <1>1 DEF Pending
  <2>3. readSeq + 1 + i - 1 = readSeq + (i + 1) - 1
    BY <1>1
  <2> QED BY Zenon, <2>1, <2>2, <2>3, <1>5
<1>7. Pending' = Tail(Pending)
  BY Zenon, <1>3, <1>5, <1>6, SeqEqual
<1>8. Last' = <<Head(Pending)>>
  <2>1. Head(Pending) = Pending[1]
    BY <1>2, <1>4
  <2>2. Pending[1] = Whole(sent[readSeq])
    <3>1. Pending[1] = Whole(sent[readSeq + 1 - 1])
      BY <1>1 DEF Pending
    <3>2. readSeq + 1 - 1 = readSeq
      BY <1>1
    <3> QED BY Zenon, <3>1, <3>2
  <2>3. got = Whole(sent[readSeq])
    BY Zenon DEF IInv, ConsumeCommit, ReaderKnows, Whole, TypeOK
  <2>4. out'[readSeq] = got
    BY Zenon, <1>1 DEF IInv, ConsumeCommit, TypeOK
  <2>5. Last' = <<out'[readSeq]>>
    BY <1>1 DEF Last
  <2> QED BY Zenon, <2>1, <2>2, <2>3, <2>4, <2>5
<1>9. Lost' = Lost
  BY Zenon DEF ConsumeCommit, Lost
<1> QED BY Zenon, <1>4, <1>7, <1>8, <1>9 DEF Queue!Get

\* Every step of the channel is a step of the queue or leaves it alone.
LEMMA QueueStep ==
    IInv /\ IInv' /\ [Next]_vars => [Queue!Next]_<<Pending, Last, Lost>>
<1> SUFFICES ASSUME IInv, IInv', [Next]_vars
             PROVE  Queue!Next \/ UNCHANGED <<Pending, Last, Lost>>
  BY Zenon
<1>1. ASSUME UNCHANGED <<writeSeq, readSeq, sent, out>>, Lost' = Lost
      PROVE  UNCHANGED <<Pending, Last, Lost>>
  BY Zenon, <1>1 DEF Pending, Last, Whole
<1>2. CASE Publish \/ PublishBegin
  BY Zenon, <1>1, <1>2 DEF Publish, PublishBegin, Lost
<1>3. CASE PublishDrop
  <2>1. UNCHANGED <<Pending, Last>>
    BY Zenon, <1>3 DEF PublishDrop, Pending, Last, Whole
  <2>2. Lost' = Lost + 1
    BY <1>3 DEF PublishDrop, Lost, IInv, TypeOK
  <2> QED BY Zenon, <2>1, <2>2 DEF Queue!Next, Queue!Lose
<1>4. CASE \E f \in Fields : PublishCopy(f) \/ ConsumeCopy(f)
  BY Zenon, <1>1, <1>4 DEF PublishCopy, ConsumeCopy, Lost
<1>5. CASE PublishCommit
  BY Zenon, <1>5, CommitPuts DEF Queue!Next
<1>6. CASE Consume
  BY Zenon, <1>1, <1>6 DEF Consume, Lost
<1>7. CASE ConsumeCommit
  BY Zenon, <1>7, CommitGets DEF Queue!Next
<1>8. CASE TakeDropped
  <2>1. Lost' = Lost
    BY <1>8 DEF TakeDropped, Lost, IInv, TypeOK
  <2> QED BY Zenon, <2>1, <1>1, <1>8 DEF TakeDropped
<1>9. CASE UNCHANGED vars
  BY Zenon, <1>1, <1>9 DEF vars, Lost
<1> QED BY Zenon, <1>2, <1>3, <1>4, <1>5, <1>6, <1>7, <1>8, <1>9 DEF Next

\* The channel of stats.c is a bounded lossy queue: publish and consume, with
\* their copies interleaved, have the effect of putting, losing and getting
\* whole snapshots.
THEOREM ChannelRefinesQueue == Spec => ImplementsQueue
BY QueueInit, QueueStep, ChannelInvariance, PTL DEF Spec, ImplementsQueue, Queue!Spec
=============================================================================
