--------------------------- MODULE DeliveryProofs ---------------------------
(***************************************************************************)
(* What is delivered once, in order and for good: the idempotent producer, *)
(* the exactly-once pipelines and the distributed protocols.  The last two *)
(* are instances of their own modules, over the state obj (DeliveryParts). *)
(***************************************************************************)
EXTENDS IdempotentProduce, DeliveryParts, SequenceTheorems, FiniteSetTheorems, NaturalsOrder, TLAPS

(***************************************************************************)
(* The idempotent producer, for every number of batches, epochs and        *)
(* crashes.                                                                *)
(*                                                                         *)
(* The partition gate takes a higher epoch's first arrival as the start of *)
(* that epoch, so the promise needs a producer that, restarted, keeps one  *)
(* batch in flight at that gate (MCNewEpochSkips shows what happens to one *)
(* that does not); the session gate needs nothing.  A snapshot has no      *)
(* epoch, so the promise ends where a recovery supplied a wrong one.       *)
(***************************************************************************)
\* What is asked of the producer.
OneAtATimeAfterRestart ==
  "partition" \in Gates => \A e \in Nat : e > 1 => InFlight("partition", e) = 1

\* The batches there can be.
Batches == [epoch : Nat \ {0}, seq : Nat]

\* The epoch the log ends in.
EndEpoch(l) == IF l = <<>> THEN 0 ELSE l[Len(l)].epoch

(***************************************************************************)
(* A log of whole runs: sequenced, by rising epochs, and each batch behind *)
(* the earlier ones of its epoch.                                          *)
(***************************************************************************)
Sequenced(l) ==
  \A i \in 1 .. Len(l) :
    IF i > 1 /\ l[i - 1].epoch = l[i].epoch
    THEN l[i].seq = l[i - 1].seq + 1
    ELSE l[i].seq = 0 /\ (i > 1 => l[i - 1].epoch < l[i].epoch)

\* Epochs never go back along the log.
Rising(l) == \A i, j \in 1 .. Len(l) : i <= j => l[i].epoch <= l[j].epoch

\* Each batch is behind the earlier ones of its epoch.
Whole(l) ==
  \A i \in 1 .. Len(l) : \A n \in 0 .. l[i].seq :
    \E j \in 1 .. i : l[j] = Batch(l[i].epoch, n)

\* The log is made of whole runs, epoch after epoch.
Runs(l) == Sequenced(l) /\ Rising(l) /\ Whole(l)

\* The types of the state.
ProducerTypes ==
  /\ gate \in Gates
  /\ log \in Seq(Batches)
  /\ committed \in 0 .. Len(log)
  /\ last \in [epoch : Nat \ {0}, seq : Nat \cup {-1}] \cup {None}
  /\ snapshot \in [offset : Nat, entry : Nat \cup {None}]
  /\ sent \in SUBSET Batches
  /\ epoch \in Nat \ {0}
  /\ next_seq \in 0 .. MaxSeq
  /\ failed \in BOOLEAN
  /\ next_to_fire \in 0 .. MaxSeq
  /\ buffered \subseteq 0 .. MaxSeq - 1

\* With its memory gone, only later epochs than the k-th batch's can still arrive.
Forgotten(k) ==
  k = 0 \/ (/\ \A b \in sent : log[k].epoch < b.epoch
            /\ failed \/ log[k].epoch < epoch)

\* What the gate remembers is the end of its log, or a session opened since.
GateMemory ==
  IF last = None THEN Forgotten(Len(log))
  ELSE /\ last.epoch <= epoch
       /\ IF last.seq = -1 THEN gate = "session" /\ EndEpoch(log) < last.epoch
          ELSE log # <<>> /\ last = log[Len(log)]

\* So does a snapshot, of the log at its offset.
SnapshotTrue ==
  /\ snapshot.offset <= Len(log)
  /\ IF snapshot.entry = None THEN Forgotten(snapshot.offset)
     ELSE snapshot.offset > 0 /\ snapshot.entry = log[snapshot.offset].seq

\* A batch is in the committed part of the log.
Stored(b) == \E i \in 1 .. committed : log[i] = b

\* Requests are of sessions opened, or of restarted producers that waited for their answers.
Requests ==
  \A b \in sent :
    /\ b.epoch <= epoch
    /\ gate = "session" => last # None /\ b.epoch <= last.epoch
    /\ gate = "partition" /\ b.epoch > 1 /\ b.seq > 0 => Stored(Batch(b.epoch, b.seq - 1))

\* What was answered for is stored.
Answered == \A b \in acks : Stored(b)

\* The producer counts answered batches only.
Heard == \A n \in Nat : n < next_to_fire \/ n \in buffered => Batch(epoch, n) \in acks

\* The inductive invariant.
IInv ==
  /\ ProducerTypes
  /\ Runs(log) /\ EndEpoch(log) <= epoch
  /\ GateMemory
  /\ SnapshotTrue
  /\ Requests
  /\ Answered
  /\ Heard
----------------------------------------------------------------------------
\* Batch makes batches, and two with the same fields are the same.
LEMMA BatchFields ==
  /\ \A b \in Batches : b.epoch \in Nat /\ b.epoch > 0 /\ b.seq \in Nat /\ b = Batch(b.epoch, b.seq)
  /\ \A e \in Nat \ {0}, n \in Nat :
       Batch(e, n) \in Batches /\ Batch(e, n).epoch = e /\ Batch(e, n).seq = n
BY DEF Batches, Batch

\* The next batch of the epoch, or the first one of a later epoch, extends the runs.
LEMMA RunsExtended ==
  ASSUME NEW l \in Seq(Batches), Runs(l), NEW b \in Batches,
         \/ b.seq = 0 /\ EndEpoch(l) < b.epoch
         \/ l # <<>> /\ b.epoch = l[Len(l)].epoch /\ b.seq = l[Len(l)].seq + 1
  PROVE  Runs(Append(l, b))
<1> DEFINE l2 == Append(l, b)
           k  == Len(l)
<1>1. k \in Nat /\ Len(l2) = k + 1 /\ l2[k + 1] = b /\ \A i \in 1 .. k : l2[i] = l[i]
  OBVIOUS
<1>2. /\ \A i \in 1 .. k : l[i].epoch \in Nat /\ l[i].seq \in Nat
      /\ b.epoch \in Nat /\ b.epoch > 0 /\ b.seq \in Nat /\ b = Batch(b.epoch, b.seq)
  <2>1. \A i \in 1 .. k : l[i] \in Batches
    OBVIOUS
  <2> QED BY <2>1, BatchFields
<1>3. \/ k = 0 /\ b.seq = 0
      \/ k > 0 /\ b.seq = 0 /\ l[k].epoch < b.epoch
      \/ k > 0 /\ b.epoch = l[k].epoch /\ b.seq = l[k].seq + 1
  <2>1. l = <<>> <=> k = 0
    OBVIOUS
  <2> QED BY <1>1, <2>1 DEF EndEpoch
<1> HIDE DEF l2, k
<1>4. Sequenced(l2)
  <2> SUFFICES ASSUME NEW i \in 1 .. k + 1
               PROVE  IF i > 1 /\ l2[i - 1].epoch = l2[i].epoch
                      THEN l2[i].seq = l2[i - 1].seq + 1
                      ELSE l2[i].seq = 0 /\ (i > 1 => l2[i - 1].epoch < l2[i].epoch)
    BY <1>1 DEF Sequenced
  <2>1. CASE i \in 1 .. k
    <3>1. i > 1 => i - 1 \in 1 .. k
      BY <1>1, <2>1
    <3> QED BY <1>1, <2>1, <3>1 DEF Runs, Sequenced, k
  <2>2. CASE i = k + 1
    <3>1. i > 1 => i - 1 = k /\ k \in 1 .. k
      BY <1>1, <2>2
    <3> QED BY <1>1, <1>2, <1>3, <2>2, <3>1
  <2> QED BY <1>1, <2>1, <2>2
<1>5. Rising(l2)
  <2> SUFFICES ASSUME NEW i \in 1 .. k + 1, NEW j \in 1 .. k + 1, i <= j
               PROVE  l2[i].epoch <= l2[j].epoch
    BY <1>1 DEF Rising
  <2>1. CASE j \in 1 .. k
    BY <1>1, <2>1 DEF Runs, Rising, k
  <2>2. CASE j = k + 1 /\ i \in 1 .. k
    <3>1. k \in 1 .. k /\ k > 0 /\ i <= k
      BY <1>1, <2>2
    <3>2. l[i].epoch <= l[k].epoch
      BY <2>2, <3>1 DEF Runs, Rising, k
    <3>3. l[k].epoch <= b.epoch
      BY <1>2, <1>3, <3>1
    <3>4. l2[i] = l[i] /\ l2[j] = b
      BY <1>1, <2>2
    <3>5. l[i].epoch \in Nat /\ l[k].epoch \in Nat /\ b.epoch \in Nat
      BY <1>2, <2>2, <3>1
    <3>6. \A x, y, z \in Nat : x <= y /\ y <= z => x <= z
      OBVIOUS
    <3>7. l[i].epoch <= b.epoch
      BY <3>2, <3>3, <3>5, <3>6, Zenon
    <3> QED BY <3>4, <3>7
  <2>3. CASE j = k + 1 /\ i = k + 1
    BY <1>1, <1>2, <2>3
  <2> QED BY <1>1, <2>1, <2>2, <2>3
<1>6. Whole(l2)
  <2> SUFFICES ASSUME NEW i \in 1 .. k + 1, NEW n \in 0 .. l2[i].seq
               PROVE  \E j \in 1 .. i : l2[j] = Batch(l2[i].epoch, n)
    BY <1>1 DEF Whole
  <2>0. ASSUME NEW h \in 1 .. k, NEW m \in 0 .. l[h].seq
        PROVE  \E j \in 1 .. h : l2[j] = Batch(l[h].epoch, m)
    <3>1. PICK j \in 1 .. h : l[j] = Batch(l[h].epoch, m)
      BY DEF Runs, Whole, k
    <3>2. j \in 1 .. k
      BY <1>1
    <3> QED BY <1>1, <3>1, <3>2
  <2>1. CASE i \in 1 .. k
    BY <1>1, <2>0, <2>1
  <2>2. CASE i = k + 1 /\ n = b.seq
    <3>1. l2[i] = Batch(l2[i].epoch, n) /\ i \in 1 .. i
      BY <1>1, <1>2, <2>2
    <3> QED BY <3>1
  <2>3. CASE i = k + 1 /\ n # b.seq
    <3>1. k \in 1 .. k /\ b.epoch = l[k].epoch /\ n \in 0 .. l[k].seq
      BY <1>1, <1>2, <1>3, <2>3
    <3>2. PICK j \in 1 .. k : l2[j] = Batch(b.epoch, n)
      BY <2>0, <3>1
    <3>3. j \in 1 .. i
      BY <1>1, <2>3
    <3> QED BY <1>1, <2>3, <3>2, <3>3
  <2> QED BY <1>1, <2>1, <2>2, <2>3
<1> QED BY <1>4, <1>5, <1>6 DEF Runs, l2

\* What a prefix of the log holds.
LEMMA PrefixFacts ==
  ASSUME NEW l \in Seq(Batches), NEW end \in 0 .. Len(l)
  PROVE  /\ SubSeq(l, 1, end) \in Seq(Batches)
         /\ Len(SubSeq(l, 1, end)) = end
         /\ \A i \in 1 .. end : SubSeq(l, 1, end)[i] = l[i]
OBVIOUS

\* A log cut short keeps its runs.
LEMMA RunsCut ==
  ASSUME NEW l \in Seq(Batches), Runs(l), NEW end \in 0 .. Len(l)
  PROVE  Runs(SubSeq(l, 1, end))
<1> DEFINE l2 == SubSeq(l, 1, end)
<1>1. Len(l2) = end /\ (\A i \in 1 .. end : l2[i] = l[i]) /\ end \in Nat /\ Len(l) \in Nat /\ end <= Len(l)
  BY PrefixFacts
<1> HIDE DEF l2
<1>2. Sequenced(l2)
  <2> SUFFICES ASSUME NEW i \in 1 .. end
               PROVE  IF i > 1 /\ l2[i - 1].epoch = l2[i].epoch
                      THEN l2[i].seq = l2[i - 1].seq + 1
                      ELSE l2[i].seq = 0 /\ (i > 1 => l2[i - 1].epoch < l2[i].epoch)
    BY <1>1 DEF Sequenced
  <2>1. i \in 1 .. Len(l) /\ (i > 1 => i - 1 \in 1 .. end)
    BY <1>1
  <2> QED BY <1>1, <2>1 DEF Runs, Sequenced
<1>3. Rising(l2)
  BY <1>1 DEF Runs, Rising
<1>4. Whole(l2)
  <2> SUFFICES ASSUME NEW i \in 1 .. end, NEW n \in 0 .. l[i].seq
               PROVE  \E j \in 1 .. i : l2[j] = Batch(l[i].epoch, n)
    BY <1>1 DEF Whole
  <2>1. PICK j \in 1 .. i : l[j] = Batch(l[i].epoch, n)
    BY <1>1 DEF Runs, Whole
  <2> QED BY <1>1, <2>1
<1> QED BY <1>2, <1>3, <1>4 DEF Runs, l2
----------------------------------------------------------------------------
\* The log's last epoch bounds all of its epochs.
LEMMA EpochsBounded ==
  ASSUME IInv
  PROVE  /\ Len(log) \in Nat /\ EndEpoch(log) \in Nat
         /\ \A i \in 1 .. Len(log) : /\ log[i] \in Batches /\ log[i].epoch \in Nat
                                     /\ log[i].epoch <= EndEpoch(log) /\ log[i].epoch <= epoch
         /\ log = <<>> <=> Len(log) = 0
         /\ log # <<>> => EndEpoch(log) = log[Len(log)].epoch
<1>1. log \in Seq(Batches) /\ Rising(log) /\ EndEpoch(log) <= epoch /\ epoch \in Nat
  BY DEF IInv, ProducerTypes, Runs
<1>2. Len(log) \in Nat /\ (log = <<>> <=> Len(log) = 0) /\ \A i \in 1 .. Len(log) : log[i] \in Batches
  BY <1>1
<1>3. \A i \in 1 .. Len(log) : log[i].epoch \in Nat
  BY <1>2, BatchFields
<1>4. EndEpoch(log) \in Nat
  BY <1>2, <1>3 DEF EndEpoch
<1>5. ASSUME NEW i \in 1 .. Len(log) PROVE log[i].epoch <= EndEpoch(log)
  <2>1. Len(log) \in 1 .. Len(log) /\ i <= Len(log) /\ log # <<>>
    BY <1>2
  <2> QED BY <1>1, <2>1 DEF Rising, EndEpoch
<1> QED BY <1>1, <1>2, <1>3, <1>4, <1>5 DEF EndEpoch

\* The start: an empty log and no requests.
LEMMA InitIInv == Init => IInv
<1> SUFFICES ASSUME Init PROVE IInv
  OBVIOUS
<1>1. ProducerTypes
  <2>1. log \in Seq(Batches) /\ Len(log) = 0 /\ committed = 0
    BY DEF Init
  <2>2. snapshot \in [offset : Nat, entry : Nat \cup {None}]
    BY DEF Init
  <2>3. sent \in SUBSET Batches /\ buffered \subseteq 0 .. MaxSeq - 1
    BY DEF Init
  <2>4. epoch \in Nat \ {0} /\ next_seq \in 0 .. MaxSeq /\ next_to_fire \in 0 .. MaxSeq
    BY ProduceAssumption DEF Init
  <2>5. gate \in Gates /\ last = None /\ failed \in BOOLEAN
    BY DEF Init
  <2> QED BY <2>1, <2>2, <2>3, <2>4, <2>5 DEF ProducerTypes
<1>2. Runs(log) /\ EndEpoch(log) <= epoch
  BY DEF Init, Runs, Sequenced, Rising, Whole, EndEpoch
<1>3. GateMemory /\ SnapshotTrue
  BY DEF Init, GateMemory, SnapshotTrue, Forgotten
<1>4. Requests /\ Answered
  BY DEF Init, Requests, Answered
<1>5. Heard
  BY DEF Init, Heard
<1> QED BY <1>1, <1>2, <1>3, <1>4, <1>5 DEF IInv

\* A session for the epoch of a producer that has none, beyond the epochs of the log.
LEMMA OpenSessionIInv == IInv /\ OpenSession => IInv'
<1> SUFFICES ASSUME IInv, OpenSession PROVE IInv'
  OBVIOUS
<1> USE ProduceAssumption
<1>1. /\ UNCHANGED <<gate, log, committed, snapshot, sent, acks, epoch, next_seq, failed,
                     next_to_fire, buffered>>
      /\ gate = "session" /\ ~failed /\ last' = Batch(epoch, -1)
      /\ last = None \/ last.epoch < epoch
  BY DEF OpenSession, netVars, producerVars, HasSession, IInv, ProducerTypes
<1>2. last'.epoch = epoch /\ last'.seq = -1 /\ last' # None
      /\ last' \in [epoch : Nat \ {0}, seq : Nat \cup {-1}]
  BY <1>1 DEF Batch, IInv, ProducerTypes
<1>3. ProducerTypes'
  BY <1>1, <1>2 DEF IInv, ProducerTypes
<1>4. EndEpoch(log) < epoch
  <2>1. CASE last = None
    BY <1>1, <2>1, EpochsBounded DEF IInv, ProducerTypes, GateMemory, Forgotten, EndEpoch
  <2>2. CASE last # None
    <3>1. EndEpoch(log) <= last.epoch
      BY <2>2, EpochsBounded DEF IInv, ProducerTypes, GateMemory
    <3> QED BY <1>1, <2>2, <3>1, EpochsBounded DEF IInv, ProducerTypes
  <2> QED BY <2>1, <2>2
<1>5. GateMemory'
  BY <1>1, <1>2, <1>4 DEF IInv, ProducerTypes, GateMemory
<1>6. Requests'
  BY <1>1, <1>2 DEF IInv, Requests, Stored
<1>7. SnapshotTrue' /\ Answered' /\ Heard'
  BY <1>1 DEF IInv, SnapshotTrue, Forgotten, Answered, Stored, Heard
<1> QED BY <1>1, <1>3, <1>5, <1>6, <1>7 DEF IInv

\* At the partition gate a restarted producer sends the next batch once the last is stored.
LEMMA SendIInv ==
  ASSUME OneAtATimeAfterRestart, IInv, Send
  PROVE  IInv'
<1> USE ProduceAssumption
<1> DEFINE b == Batch(epoch, next_seq)
<1>1. /\ UNCHANGED <<gate, log, committed, last, snapshot, acks, epoch, failed,
                     next_to_fire, buffered>>
      /\ ~failed /\ next_seq < MaxSeq /\ sent' = sent \cup {b} /\ next_seq' = next_seq + 1
      /\ gate = "session" => HasSession
      /\ Cardinality(Pending) < InFlight(gate, epoch)
  BY DEF Send, brokerVars
<1>2. b \in Batches /\ b.epoch = epoch /\ b.seq = next_seq
  BY BatchFields DEF IInv, ProducerTypes
<1> HIDE DEF b
<1>3. ProducerTypes'
  BY <1>1, <1>2 DEF IInv, ProducerTypes
<1>4. GateMemory'
  BY <1>1, <1>2 DEF IInv, GateMemory, Forgotten
<1>5. SnapshotTrue'
  BY <1>1, <1>2 DEF IInv, SnapshotTrue, Forgotten
<1>6. ASSUME gate = "partition", epoch > 1, next_seq > 0
      PROVE  Stored(Batch(epoch, next_seq - 1))
  <2>1. Cardinality(Pending) < 1
    BY <1>1, <1>6 DEF OneAtATimeAfterRestart, IInv, ProducerTypes
  <2>2. IsFiniteSet(Pending)
    <3>1. IsFiniteSet(next_to_fire .. next_seq - 1)
      BY FS_Interval DEF IInv, ProducerTypes
    <3> QED BY <3>1, FS_Difference DEF Pending
  <2>3. Pending = {}
    BY <2>1, <2>2, FS_CardinalityType, FS_EmptySet
  <2>4. next_seq - 1 \in Nat /\ (next_seq - 1 < next_to_fire \/ next_seq - 1 \in buffered)
    BY <1>6, <2>3 DEF Pending, IInv, ProducerTypes
  <2>5. Batch(epoch, next_seq - 1) \in acks
    BY <2>4 DEF IInv, Heard
  <2> QED BY <2>5 DEF IInv, Answered
<1>7. Requests'
  <2> SUFFICES ASSUME NEW c \in sent'
               PROVE  (/\ c.epoch <= epoch
                       /\ gate = "session" => last # None /\ c.epoch <= last.epoch
                       /\ gate = "partition" /\ c.epoch > 1 /\ c.seq > 0 => Stored(Batch(c.epoch, c.seq - 1)))'
    BY DEF Requests
  <2>1. CASE c \in sent
    BY <1>1, <2>1 DEF IInv, Requests, Stored
  <2>2. CASE c = b
    <3>1. gate = "session" => last # None /\ epoch <= last.epoch
      BY <1>1 DEF HasSession, IInv, ProducerTypes
    <3> QED BY <1>1, <1>2, <1>6, <2>2, <3>1 DEF IInv, ProducerTypes, Stored
  <2> QED BY <1>1, <2>1, <2>2
<1>8. Answered' /\ Heard'
  BY <1>1 DEF IInv, Answered, Stored, Heard
<1> QED BY <1>1, <1>3, <1>4, <1>5, <1>7, <1>8 DEF IInv

(***************************************************************************)
(* What a gate accepts extends the runs of its log; what it calls a        *)
(* duplicate is in the log.                                                *)
(***************************************************************************)
LEMMA VerdictsRight ==
  ASSUME IInv, NEW b \in sent
  PROVE  /\ Verdict(b) = "accepted" =>
              \/ b.seq = 0 /\ EndEpoch(log) < b.epoch
              \/ log # <<>> /\ b.epoch = log[Len(log)].epoch /\ b.seq = log[Len(log)].seq + 1
         /\ Verdict(b) = "duplicate" => \E i \in 1 .. Len(log) : log[i] = b
<1> USE ProduceAssumption
<1>1. /\ b \in Batches /\ b.epoch \in Nat /\ b.epoch > 0 /\ b.seq \in Nat
      /\ b = Batch(b.epoch, b.seq)
  BY BatchFields DEF IInv, ProducerTypes
<1>2. /\ Len(log) \in Nat /\ EndEpoch(log) \in Nat /\ (log = <<>> <=> Len(log) = 0)
      /\ log # <<>> => EndEpoch(log) = log[Len(log)].epoch /\ log[Len(log)] \in Batches
  BY EpochsBounded
<1>3. gate = "session" \/ gate = "partition"
  BY DEF IInv, ProducerTypes
<1>4. ASSUME last # None, last.seq # -1
      PROVE  log # <<>> /\ last = log[Len(log)] /\ last.epoch \in Nat /\ last.epoch > 0 /\ last.seq \in Nat
  <2>1. log # <<>> /\ last = log[Len(log)]
    BY <1>4 DEF IInv, GateMemory
  <2> QED BY <1>2, <2>1, BatchFields
<1>5. ASSUME last # None, last.seq # -1, b.epoch = last.epoch, b.seq <= last.seq
      PROVE  \E i \in 1 .. Len(log) : log[i] = b
  <2>1. Whole(log) /\ Len(log) \in 1 .. Len(log) /\ b.seq \in 0 .. log[Len(log)].seq
    BY <1>1, <1>2, <1>4, <1>5 DEF IInv, Runs
  <2>2. \E j \in 1 .. Len(log) : log[j] = Batch(log[Len(log)].epoch, b.seq)
    BY <2>1 DEF Whole
  <2> QED BY <1>1, <1>4, <1>5, <2>2
<1>6. ASSUME last = None, gate = "partition" PROVE EndEpoch(log) < b.epoch
  BY <1>1, <1>2, <1>6 DEF IInv, GateMemory, Forgotten, EndEpoch
<1>7. CASE gate = "session"
  <2>1. last # None /\ b.epoch <= last.epoch
    BY <1>7 DEF IInv, Requests
  <2>2. last.epoch \in Nat /\ last.seq \in Nat \cup {-1}
    BY <2>1 DEF IInv, ProducerTypes
  <2>3. Verdict(b) # "refused" => b.epoch = last.epoch
    BY <1>1, <1>7, <2>1, <2>2 DEF Verdict, AdmitVerdict
  <2>4. CASE last.seq = -1
    <3>1. EndEpoch(log) < last.epoch
      BY <2>1, <2>4 DEF IInv, GateMemory
    <3>2. Verdict(b) # "duplicate" /\ (Verdict(b) = "accepted" => b.seq = 0)
      BY <1>1, <1>7, <2>1, <2>4 DEF Verdict, AdmitVerdict
    <3> QED BY <2>3, <3>1, <3>2
  <2>5. CASE last.seq # -1
    <3>1. Verdict(b) = "duplicate" => b.seq <= last.seq
      BY <1>7 DEF Verdict, AdmitVerdict
    <3>2. Verdict(b) = "accepted" => b.seq = last.seq + 1
      BY <1>7 DEF Verdict, AdmitVerdict
    <3> QED BY <1>4, <1>5, <2>1, <2>3, <2>5, <3>1, <3>2
  <2> QED BY <2>4, <2>5
<1>8. CASE gate = "partition"
  <2>1. CASE last = None
    BY <1>6, <1>8, <2>1 DEF Verdict, AcceptVerdict
  <2>2. CASE last # None
    <3>1. last.seq # -1
      BY <1>8, <2>2 DEF IInv, GateMemory
    <3>2. log # <<>> /\ last = log[Len(log)] /\ last.epoch \in Nat /\ last.epoch > 0 /\ last.seq \in Nat
      BY <1>4, <2>2, <3>1
    <3>3. ASSUME b.epoch > last.epoch PROVE b.seq = 0
      <4> SUFFICES ASSUME b.seq > 0 PROVE FALSE
        BY <1>1
      <4>1. b.epoch > 1
        BY <1>1, <3>2, <3>3
      <4>2. Stored(Batch(b.epoch, b.seq - 1))
        BY <1>8, <4>1 DEF IInv, Requests
      <4>3. PICK i \in 1 .. committed : log[i] = Batch(b.epoch, b.seq - 1)
        BY <4>2 DEF Stored
      <4>4. i \in 1 .. Len(log)
        BY <1>2 DEF IInv, ProducerTypes
      <4>5. log[i].epoch = b.epoch
        BY <1>1, <4>3, BatchFields
      <4>6. log[i].epoch <= EndEpoch(log)
        BY <4>4, EpochsBounded
      <4> QED BY <1>1, <1>2, <3>2, <3>3, <4>5, <4>6
    <3>4. CASE b.epoch > last.epoch
      BY <1>1, <1>2, <1>8, <2>2, <3>2, <3>3, <3>4 DEF Verdict, AcceptVerdict
    <3>5. CASE b.epoch = last.epoch
      <4>1. Verdict(b) = "accepted" => b.seq = last.seq + 1
        BY <1>1, <1>8, <2>2, <3>2, <3>5 DEF Verdict, AcceptVerdict
      <4>2. Verdict(b) = "duplicate" => b.seq <= last.seq
        BY <1>1, <1>8, <2>2, <3>2, <3>5 DEF Verdict, AcceptVerdict
      <4> QED BY <1>5, <2>2, <3>1, <3>2, <3>5, <4>1, <4>2
    <3>6. CASE b.epoch < last.epoch
      BY <1>8, <2>2, <3>6 DEF Verdict, AcceptVerdict
    <3> QED BY <1>1, <3>2, <3>4, <3>5, <3>6
  <2> QED BY <2>1, <2>2
<1> QED BY <1>3, <1>7, <1>8

\* An accepted batch continues the run of its epoch, or starts a later epoch at 0.
LEMMA AcceptedIInv ==
  ASSUME IInv, NEW b \in sent, Verdict(b) = "accepted", log' = Append(log, b), last' = b,
         UNCHANGED <<acks, gate, committed, snapshot, sent, producerVars>>
  PROVE  IInv'
<1> USE ProduceAssumption
<1> DEFINE k == Len(log)
<1>0. UNCHANGED <<epoch, next_seq, failed, next_to_fire, buffered>>
  BY DEF producerVars
<1>1. /\ b \in Batches /\ b.epoch \in Nat /\ b.epoch > 0 /\ b.seq \in Nat /\ b.epoch <= epoch
      /\ b # None
  BY BatchFields DEF IInv, ProducerTypes, Requests, Batches
<1>2. /\ log \in Seq(Batches) /\ k \in Nat /\ committed \in 0 .. k
      /\ log' \in Seq(Batches) /\ Len(log') = k + 1 /\ log'[k + 1] = b
      /\ \A i \in 1 .. k : log'[i] = log[i]
      /\ log' # <<>>
  BY <1>1 DEF IInv, ProducerTypes
<1>3. Runs(log')
  BY <1>1, <1>2, VerdictsRight, RunsExtended DEF IInv
<1>4. EndEpoch(log') = b.epoch
  BY <1>2 DEF EndEpoch
<1>5. EndEpoch(log) <= b.epoch /\ EndEpoch(log) \in Nat
  BY <1>1, VerdictsRight, EpochsBounded DEF IInv
<1> HIDE DEF k
<1>6. ProducerTypes'
  <2>1. committed' \in 0 .. Len(log')
    BY <1>2
  <2>2. last' \in [epoch : Nat \ {0}, seq : Nat \cup {-1}]
    BY <1>1 DEF Batches
  <2> QED BY <1>0, <1>2, <2>1, <2>2 DEF IInv, ProducerTypes
<1>7. GateMemory'
  <2>1. b.seq # -1
    BY <1>1
  <2> QED BY <1>0, <1>1, <1>2, <2>1 DEF GateMemory
<1>8. SnapshotTrue'
  <2>1. snapshot.offset \in Nat /\ snapshot.offset <= k
    BY <1>2 DEF IInv, ProducerTypes, SnapshotTrue, k
  <2>2. snapshot.offset = 0 \/ snapshot.offset \in 1 .. k
    BY <1>2, <2>1
  <2> QED BY <1>0, <1>2, <2>1, <2>2 DEF IInv, SnapshotTrue, Forgotten
<1>9. \A c : Stored(c) => Stored(c)'
  <2>1. 1 .. committed \subseteq 1 .. k
    BY <1>2
  <2> QED BY <1>2, <2>1 DEF Stored
<1>10. Requests'
  <2> SUFFICES ASSUME NEW c \in sent
               PROVE  /\ c.epoch <= epoch
                      /\ gate = "session" => b # None /\ c.epoch <= b.epoch
                      /\ gate = "partition" /\ c.epoch > 1 /\ c.seq > 0 =>
                           Stored(Batch(c.epoch, c.seq - 1))'
    BY <1>0 DEF Requests
  <2>1. /\ c.epoch <= epoch
        /\ gate = "session" => last # None /\ c.epoch <= last.epoch
        /\ gate = "partition" /\ c.epoch > 1 /\ c.seq > 0 => Stored(Batch(c.epoch, c.seq - 1))
    BY DEF IInv, Requests
  <2>2. ASSUME gate = "session" PROVE c.epoch <= b.epoch
    <3>1. last # None /\ b.epoch >= last.epoch
      BY <2>1, <2>2, <1>1 DEF Verdict, AdmitVerdict, IInv, ProducerTypes
    <3> QED BY <1>1, <2>1, <2>2, <3>1, BatchFields DEF IInv, ProducerTypes
  <2> QED BY <1>1, <1>9, <2>1, <2>2
<1>11. Answered' /\ Heard'
  BY <1>0, <1>9 DEF IInv, Answered, Heard
<1> QED BY <1>0, <1>1, <1>3, <1>4, <1>6, <1>7, <1>8, <1>10, <1>11 DEF IInv

\* A step that leaves the broker's state and the requests alone.
LEMMA AnswerIInv ==
  ASSUME IInv, NEW a, acks' = acks \cup {a},
         UNCHANGED <<gate, log, last, snapshot, sent, producerVars>>,
         committed' \in committed .. Len(log), \E i \in 1 .. committed' : log[i] = a
  PROVE  IInv'
<1> USE ProduceAssumption
<1>0. UNCHANGED <<epoch, next_seq, failed, next_to_fire, buffered>>
  BY DEF producerVars
<1>1. ProducerTypes'
  BY <1>0 DEF IInv, ProducerTypes
<1>2. GateMemory' /\ SnapshotTrue'
  BY <1>0 DEF IInv, GateMemory, SnapshotTrue, Forgotten
<1>3. \A c : Stored(c) => Stored(c)'
  <2>1. 1 .. committed \subseteq 1 .. committed'
    BY DEF IInv, ProducerTypes
  <2> QED BY <2>1 DEF Stored
<1>4. Requests'
  BY <1>0, <1>3 DEF IInv, Requests
<1>5. Answered'
  BY <1>3 DEF IInv, Answered, Stored
<1>6. Heard'
  BY <1>0 DEF IInv, Heard
<1> QED BY <1>0, <1>1, <1>2, <1>4, <1>5, <1>6 DEF IInv

\* A request arrives: it is accepted, a duplicate, or refused.
LEMMA DeliverIInv ==
  ASSUME IInv, NEW b \in sent, Deliver(b)
  PROVE  IInv'
<1>1. CASE Verdict(b) = "accepted" /\ log' = Append(log, b) /\ last' = b /\ UNCHANGED acks
  BY <1>1, AcceptedIInv DEF Deliver
<1>2. CASE /\ Verdict(b) = "duplicate" /\ b \notin Range(SubSeq(log, committed + 1, Len(log)))
           /\ acks' = acks \cup {b} /\ UNCHANGED <<log, last>>
  <2>1. PICK i \in 1 .. Len(log) : log[i] = b
    BY <1>2, VerdictsRight
  <2>2. log \in Seq(Batches) /\ Len(log) \in Nat /\ committed \in 0 .. Len(log)
    BY DEF IInv, ProducerTypes
  <2>3. i <= committed
    <3> SUFFICES ASSUME i > committed PROVE FALSE
      BY <2>2
    <3> DEFINE tail == SubSeq(log, committed + 1, Len(log))
    <3>1. /\ i - committed \in 1 .. Len(log) - committed
          /\ committed + 1 \in 1 .. Len(log) + 1
      BY <2>2
    <3>2. Len(tail) = Len(log) - committed /\ tail[i - committed] = log[i] /\ DOMAIN tail = 1 .. Len(tail)
      BY <2>2, <3>1
    <3>3. b \in Range(tail)
      BY <2>1, <3>1, <3>2 DEF Range
    <3> QED BY <1>2, <3>3
  <2>4. UNCHANGED <<gate, committed, snapshot, sent, producerVars>>
    BY DEF Deliver
  <2>5. committed' \in committed .. Len(log) /\ i \in 1 .. committed'
    BY <2>2, <2>3, <2>4
  <2> QED BY <1>2, <2>1, <2>4, <2>5, AnswerIInv
<1> QED BY <1>1, <1>2 DEF Deliver

\* The next batch of the log is committed, and answered for.
LEMMA CommitIInv == IInv /\ Commit => IInv'
<1> SUFFICES ASSUME IInv, Commit PROVE IInv'
  OBVIOUS
<1>1. Len(log) \in Nat /\ committed \in 0 .. Len(log)
  BY DEF IInv, ProducerTypes
<1>2. /\ UNCHANGED <<gate, log, last, snapshot, sent, producerVars>>
      /\ acks' = acks \cup {log[committed + 1]} /\ committed' = committed + 1 /\ committed < Len(log)
  BY DEF Commit
<1>3. committed' \in committed .. Len(log) /\ committed + 1 \in 1 .. committed'
  BY <1>1, <1>2
<1> QED BY <1>2, <1>3, AnswerIInv

\* The callbacks fired are those before the first batch still without an answer.
LEMMA DrainedFacts ==
  ASSUME IInv, NEW n \in 0 .. MaxSeq - 1
  PROVE  LET waiting == buffered \cup {n}
             fire == Drained(waiting)
         IN  /\ fire \in next_to_fire .. MaxSeq
             /\ \A k \in Nat : next_to_fire <= k /\ k < fire => k \in waiting
<1> USE ProduceAssumption
<1> DEFINE waiting == buffered \cup {n}
           Free == {k \in Nat : k >= next_to_fire /\ k \notin waiting}
<1>1. next_to_fire \in 0 .. MaxSeq /\ buffered \subseteq 0 .. MaxSeq - 1
  BY DEF IInv, ProducerTypes
<1>2. MaxSeq \in Free
  BY <1>1
<1>3. PICK f \in Free : \A k \in Free : f <= k
  <2>1. Free \in SUBSET Nat
    OBVIOUS
  <2> HIDE DEF Free
  <2> QED BY <1>2, <2>1, LeastNatural
<1>4. /\ f \in next_to_fire .. MaxSeq
      /\ next_to_fire .. f - 1 \subseteq waiting /\ f \notin waiting
  BY <1>1, <1>2, <1>3
<1>5. \E g \in next_to_fire .. MaxSeq : next_to_fire .. g - 1 \subseteq waiting /\ g \notin waiting
  BY <1>4
<1>6. /\ Drained(waiting) \in next_to_fire .. MaxSeq
      /\ next_to_fire .. Drained(waiting) - 1 \subseteq waiting
  <2> HIDE DEF waiting
  <2> QED BY <1>5, Zenon DEF Drained
<1> HIDE DEF waiting
<1>7. \A k \in Nat : next_to_fire <= k /\ k < Drained(waiting) => k \in waiting
  BY <1>1, <1>6
<1> QED BY <1>6, <1>7 DEF waiting

\* The producer hears an answer, and fires callbacks in order.
LEMMA ReceiveAckIInv ==
  ASSUME IInv, NEW n \in 0 .. MaxSeq - 1, ReceiveAck(n)
  PROVE  IInv'
<1> USE ProduceAssumption
<1> DEFINE waiting == buffered \cup {n}
           fire == Drained(waiting)
<1>1. /\ UNCHANGED <<gate, log, committed, last, snapshot, sent, acks, epoch, next_seq, failed>>
      /\ Batch(epoch, n) \in acks
      /\ next_to_fire' = fire /\ buffered' = {k \in waiting : k >= fire}
  BY DEF ReceiveAck, brokerVars, netVars
<1>2. /\ fire \in next_to_fire .. MaxSeq
      /\ \A k \in Nat : next_to_fire <= k /\ k < fire => k \in waiting
  BY DrainedFacts
<1>3. next_to_fire \in 0 .. MaxSeq /\ waiting \subseteq 0 .. MaxSeq - 1
  BY DEF IInv, ProducerTypes
<1>4. \A k \in Nat : k < next_to_fire \/ k \in waiting => Batch(epoch, k) \in acks
  BY <1>1 DEF IInv, Heard
<1> HIDE DEF waiting, fire
<1>5. fire \in 0 .. MaxSeq /\ buffered' \subseteq 0 .. MaxSeq - 1
  <2>1. fire \in 0 .. MaxSeq
    BY <1>2, <1>3
  <2>2. buffered' \subseteq waiting
    BY <1>1
  <2> QED BY <1>3, <2>1, <2>2
<1>6. ProducerTypes'
  BY <1>1, <1>5 DEF IInv, ProducerTypes
<1>7. Heard'
  <2> SUFFICES ASSUME NEW k \in Nat, k < fire \/ k \in buffered' PROVE Batch(epoch, k) \in acks
    BY <1>1 DEF Heard
  <2>1. k < next_to_fire \/ k \in waiting
    BY <1>1, <1>2, <1>3
  <2> QED BY <1>4, <2>1
<1>8. GateMemory' /\ SnapshotTrue' /\ Requests' /\ Answered'
  BY <1>1 DEF IInv, GateMemory, SnapshotTrue, Forgotten, Requests, Answered, Stored
<1> QED BY <1>1, <1>6, <1>7, <1>8 DEF IInv

\* The producer gives up.
LEMMA GiveUpIInv == IInv /\ GiveUp => IInv'
<1> SUFFICES ASSUME IInv, GiveUp PROVE IInv'
  OBVIOUS
<1>1. /\ UNCHANGED <<gate, log, committed, last, snapshot, sent, acks, epoch, next_seq,
                     next_to_fire, buffered>>
      /\ failed' = TRUE
  BY DEF GiveUp, brokerVars, netVars
<1>2. ProducerTypes'
  BY <1>1 DEF IInv, ProducerTypes
<1>3. GateMemory' /\ SnapshotTrue'
  BY <1>1 DEF IInv, GateMemory, SnapshotTrue, Forgotten
<1>4. Requests' /\ Answered' /\ Heard'
  BY <1>1 DEF IInv, Requests, Answered, Stored, Heard
<1> QED BY <1>1, <1>2, <1>3, <1>4 DEF IInv

\* The producer restarts with a new epoch: what it sends is of that epoch.
LEMMA RestartIInv == IInv /\ RestartProducer => IInv'
<1> SUFFICES ASSUME IInv, RestartProducer PROVE IInv'
  OBVIOUS
<1> USE ProduceAssumption
<1>1. /\ UNCHANGED <<gate, log, committed, last, snapshot, sent, acks>>
      /\ epoch' = epoch + 1 /\ next_seq' = 0 /\ failed' = FALSE /\ next_to_fire' = 0 /\ buffered' = {}
  BY DEF RestartProducer, brokerVars, netVars
<1>2. ProducerTypes'
  <2>1. epoch' \in Nat \ {0} /\ next_seq' \in 0 .. MaxSeq /\ next_to_fire' \in 0 .. MaxSeq
    BY <1>1 DEF IInv, ProducerTypes
  <2>2. failed' \in BOOLEAN /\ buffered' \subseteq 0 .. MaxSeq - 1
    BY <1>1
  <2> QED BY <1>1, <2>1, <2>2 DEF IInv, ProducerTypes
<1>3. /\ epoch \in Nat /\ Len(log) \in Nat /\ \A i \in 1 .. Len(log) : log[i].epoch \in Nat /\ log[i].epoch <= epoch
      /\ EndEpoch(log) \in Nat /\ EndEpoch(log) <= epoch
  BY EpochsBounded DEF IInv, ProducerTypes
<1>4. ASSUME NEW k \in 0 .. Len(log), Forgotten(k) PROVE Forgotten(k)'
  <2>1. k = 0 \/ k \in 1 .. Len(log)
    BY <1>3
  <2>2. k \in 1 .. Len(log) => log[k].epoch < epoch + 1
    BY <1>3
  <2> QED BY <1>1, <1>4, <2>1, <2>2 DEF Forgotten
<1>5. GateMemory'
  <2>1. last # None => last.epoch \in Nat
    BY DEF IInv, ProducerTypes
  <2> QED BY <1>1, <1>3, <1>4, <2>1 DEF IInv, GateMemory
<1>6. SnapshotTrue'
  <2>1. snapshot.offset \in 0 .. Len(log)
    BY <1>3 DEF IInv, ProducerTypes, SnapshotTrue
  <2> QED BY <1>1, <1>4, <2>1 DEF IInv, SnapshotTrue
<1>7. Requests'
  <2>1. \A b \in sent : b.epoch \in Nat
    BY BatchFields DEF IInv, ProducerTypes
  <2> QED BY <1>1, <1>3, <2>1 DEF IInv, Requests, Stored
<1>8. Answered' /\ Heard'
  BY <1>1 DEF IInv, Answered, Stored, Heard
<1> QED BY <1>1, <1>2, <1>3, <1>5, <1>6, <1>7, <1>8 DEF IInv

\* The gate forgets an idle producer.
LEMMA ExpireIInv == IInv /\ ExpireIdle => IInv'
<1> SUFFICES ASSUME IInv, ExpireIdle PROVE IInv'
  OBVIOUS
<1>1. /\ UNCHANGED <<gate, log, committed, snapshot, acks, epoch, next_seq, next_to_fire, buffered>>
      /\ last' = None /\ sent' = {} /\ failed' = TRUE
  BY DEF ExpireIdle
<1>2. ProducerTypes'
  BY <1>1 DEF IInv, ProducerTypes
<1>3. GateMemory' /\ SnapshotTrue'
  BY <1>1 DEF IInv, GateMemory, SnapshotTrue, Forgotten
<1>4. Requests' /\ Answered' /\ Heard'
  BY <1>1 DEF IInv, Requests, Answered, Stored, Heard
<1> QED BY <1>1, <1>2, <1>3, <1>4 DEF IInv

\* A snapshot of what the gate remembers.
LEMMA TakeSnapshotIInv == IInv /\ TakeSnapshot => IInv'
<1> SUFFICES ASSUME IInv, TakeSnapshot PROVE IInv'
  OBVIOUS
<1>1. /\ UNCHANGED <<gate, log, committed, last, sent, acks, epoch, next_seq, failed,
                     next_to_fire, buffered>>
      /\ gate = "partition" /\ snapshot.offset < Len(log)
      /\ snapshot' = [offset |-> Len(log), entry |-> IF last = None THEN None ELSE last.seq]
  BY DEF TakeSnapshot, netVars, producerVars
<1>2. snapshot'.offset = Len(log) /\ snapshot'.entry = IF last = None THEN None ELSE last.seq
  BY <1>1
<1>3. /\ Len(log) \in Nat /\ \A i \in 1 .. Len(log) : log[i] \in Batches
      /\ log = <<>> <=> Len(log) = 0
  BY EpochsBounded
<1>4. last # None => /\ log # <<>> /\ last = log[Len(log)] /\ last \in Batches
                     /\ last.seq \in Nat /\ last.seq # None
  <2>1. last # None => log # <<>> /\ last = log[Len(log)] /\ last \in Batches
    BY <1>1, <1>3 DEF IInv, GateMemory
  <2>2. last \in Batches => last.seq \in Nat
    BY DEF Batches
  <2>3. last.seq \in Nat => last.seq # None
    BY ProduceAssumption
  <2> QED BY <2>1, <2>2, <2>3
<1>5. ProducerTypes'
  <2>1. snapshot' \in [offset : Nat, entry : Nat \cup {None}]
    BY <1>1, <1>3, <1>4
  <2> QED BY <1>1, <2>1 DEF IInv, ProducerTypes
<1>6. GateMemory' /\ SnapshotTrue'
  BY <1>1, <1>2, <1>3, <1>4 DEF IInv, GateMemory, SnapshotTrue, Forgotten
<1>7. Requests' /\ Answered' /\ Heard'
  BY <1>1 DEF IInv, Requests, Answered, Stored, Heard
<1> QED BY <1>1, <1>5, <1>6, <1>7 DEF IInv

\* The memory rebuilt is that of the log kept, whether the snapshot was of use or not,
\* where the epoch it was given is the right one.
LEMMA CrashIInv ==
  ASSUME IInv, NEW end \in 0 .. Len(log), BrokerCrash(end), ~misled'
  PROVE  IInv'
<1> USE ProduceAssumption
<1>1. /\ UNCHANGED <<gate, committed, sent, acks, epoch, next_seq, failed, next_to_fire, buffered>>
      /\ gate = "partition" /\ end \in committed .. Len(log)
      /\ log' = SubSeq(log, 1, end)
      /\ snapshot' = IF Loadable(snapshot, end) THEN snapshot ELSE [offset |-> 0, entry |-> None]
      /\ last' \in Rebuilt(snapshot', end)
      /\ end > 0 /\ last' # None => last'.epoch = log[end].epoch
  BY DEF BrokerCrash, netVars, producerVars
<1>2. /\ log \in Seq(Batches) /\ Len(log) \in Nat /\ committed \in 0 .. Len(log) /\ end \in Nat
      /\ end <= Len(log)
      /\ \A i \in 1 .. Len(log) : log[i] \in Batches /\ log[i].epoch \in Nat /\ log[i].epoch <= epoch
      /\ snapshot.offset \in Nat /\ snapshot.offset <= Len(log)
  BY EpochsBounded DEF IInv, ProducerTypes, SnapshotTrue
<1>3. /\ log' \in Seq(Batches) /\ Len(log') = end
      /\ \A i \in 1 .. end : log'[i] = log[i]
      /\ log' = <<>> <=> end = 0
  <2>1. /\ log' \in Seq(Batches) /\ Len(log') = end
        /\ \A i \in 1 .. end : log'[i] = log[i]
    BY <1>1, <1>2, PrefixFacts
  <2>2. log' = <<>> <=> Len(log') = 0
    BY <2>1
  <2> QED BY <2>1, <2>2
<1>4. Runs(log')
  BY <1>1, <1>2, RunsCut DEF IInv
<1>5. EndEpoch(log') <= epoch
  <2>1. end # 0 => end \in 1 .. end /\ end \in 1 .. Len(log)
    BY <1>2
  <2> QED BY <1>2, <1>3, <2>1 DEF EndEpoch, IInv, ProducerTypes
<1>6. ASSUME NEW k \in 0 .. end, Forgotten(k) PROVE Forgotten(k)'
  <2>1. k = 0 \/ k \in 1 .. end
    BY <1>2
  <2> QED BY <1>1, <1>3, <1>6, <2>1 DEF Forgotten
<1>7. /\ snapshot'.offset \in 0 .. end
      /\ IF snapshot'.entry = None THEN Forgotten(snapshot'.offset)
         ELSE snapshot'.offset > 0 /\ snapshot'.entry = log[snapshot'.offset].seq
      /\ snapshot' \in [offset : Nat, entry : Nat \cup {None}]
  <2>1. CASE snapshot.offset <= end
    <3>1. snapshot' = snapshot
      BY <1>1, <2>1 DEF Loadable
    <3> QED BY <1>2, <2>1, <3>1 DEF IInv, ProducerTypes, SnapshotTrue
  <2>2. CASE ~(snapshot.offset <= end)
    <3>1. snapshot' = [offset |-> 0, entry |-> None]
      BY <1>1, <2>2 DEF Loadable
    <3> QED BY <1>2, <3>1 DEF Forgotten
  <2> QED BY <2>1, <2>2
<1>8. IF last' = None THEN Forgotten(end)
      ELSE end > 0 /\ last' = log[end] /\ last' \in Batches
  <2>1. CASE end > snapshot'.offset
    <3>1. last' = log[end] /\ end \in 1 .. Len(log)
      BY <1>1, <1>2, <1>7, <2>1 DEF Rebuilt
    <3>2. last' \in Batches /\ last' # None
      BY <1>2, <3>1 DEF Batches
    <3> QED BY <1>2, <1>7, <2>1, <3>1, <3>2
  <2>2. CASE end = snapshot'.offset
    <3>1. CASE snapshot'.entry = None
      BY <1>1, <1>2, <1>7, <2>2, <3>1 DEF Rebuilt
    <3>2. CASE snapshot'.entry # None
      <4>1. PICK e \in 0 .. epoch : last' = Batch(e, snapshot'.entry)
        BY <1>1, <1>2, <2>2, <3>2 DEF Rebuilt
      <4>2. end > 0 /\ end \in 1 .. Len(log) /\ snapshot'.entry = log[end].seq
        BY <1>2, <1>7, <2>2, <3>2
      <4>3. last'.epoch = e /\ last'.seq = log[end].seq /\ log[end] \in Batches
        BY <1>2, <4>1, <4>2 DEF Batch
      <4>4. log[end].seq \in Nat /\ log[end].epoch \in Nat
        BY <4>3 DEF Batches
      <4>5. last' # None
        BY <4>1, <4>2, <4>4, <1>7 DEF Batch, IInv, ProducerTypes
      <4>6. e = log[end].epoch
        BY <1>1, <4>2, <4>3, <4>5
      <4>7. last' = log[end]
        BY <4>1, <4>2, <4>3, <4>6 DEF Batch, Batches
      <4> QED BY <4>2, <4>3, <4>5, <4>7
    <3> QED BY <3>1, <3>2
  <2> QED BY <1>2, <1>7, <2>1, <2>2
<1>9. ProducerTypes'
  <2>1. committed' \in 0 .. Len(log')
    BY <1>1, <1>2, <1>3
  <2>2. last' \in [epoch : Nat \ {0}, seq : Nat \cup {-1}] \cup {None}
    BY <1>8 DEF Batches
  <2> QED BY <1>1, <1>3, <1>7, <2>1, <2>2 DEF IInv, ProducerTypes
<1>10. GateMemory'
  <2>1. CASE last' = None
    BY <1>2, <1>3, <1>6, <1>8, <2>1 DEF GateMemory
  <2>2. CASE last' # None
    <3>1. end > 0 /\ last' = log[end] /\ last' \in Batches /\ end \in 1 .. Len(log) /\ end \in 1 .. end
      BY <1>2, <1>8, <2>2
    <3>2. last'.seq # -1 /\ last'.epoch <= epoch
      BY <1>2, <3>1, BatchFields
    <3> QED BY <1>1, <1>3, <2>2, <3>1, <3>2 DEF GateMemory
  <2> QED BY <2>1, <2>2
<1>11. SnapshotTrue'
  <2>1. snapshot'.offset > 0 => snapshot'.offset \in 1 .. end
    BY <1>2, <1>7
  <2> QED BY <1>2, <1>3, <1>6, <1>7, <2>1 DEF SnapshotTrue
<1>12. \A c : Stored(c) => Stored(c)'
  <2>1. 1 .. committed \subseteq 1 .. end
    BY <1>1, <1>2
  <2> QED BY <1>1, <1>3, <2>1 DEF Stored
<1>13. Requests' /\ Answered' /\ Heard'
  BY <1>1, <1>12 DEF IInv, Requests, Answered, Heard
<1> QED BY <1>1, <1>4, <1>5, <1>9, <1>10, <1>11, <1>13 DEF IInv

\* A recovery that misled is remembered.
LEMMA MisledStays ==
  ASSUME misled, [Next]_vars
  PROVE  misled'
BY DEF Next, Send, OpenSession, Commit, GiveUp, RestartProducer, ExpireIdle, TakeSnapshot,
       Deliver, ReceiveAck, BrokerCrash, vars, brokerVars

\* Every step preserves the invariant, until a recovery misleads.
LEMMA NextIInv ==
  ASSUME OneAtATimeAfterRestart
  PROVE  (misled \/ IInv) /\ [Next]_vars => (misled \/ IInv)'
<1> SUFFICES ASSUME IInv, [Next]_vars, ~misled' PROVE IInv'
  BY MisledStays
<1>1. CASE UNCHANGED vars
  BY <1>1 DEF vars, brokerVars, netVars, producerVars, IInv, ProducerTypes, GateMemory, SnapshotTrue, Forgotten,
              Requests, Answered, Stored, Heard
<1> QED
  BY <1>1, SendIInv, OpenSessionIInv, CommitIInv, GiveUpIInv, RestartIInv, ExpireIInv,
     TakeSnapshotIInv, DeliverIInv, ReceiveAckIInv, CrashIInv DEF Next
----------------------------------------------------------------------------
(***************************************************************************)
(* Whatever the network loses, repeats and reorders, and wherever the      *)
(* broker crashes, each epoch's batches stand in the log once, in order    *)
(* and without a gap, and none follows a newer epoch's: at the session     *)
(* gate for any pipelining, at the partition gate for a producer that is   *)
(* not pipelining when it has been restarted, and until a recovery gives a *)
(* memory the wrong epoch (ProducerEntry has none).                        *)
(***************************************************************************)
THEOREM SequencedLog ==
  ASSUME OneAtATimeAfterRestart
  PROVE  Spec => []LogIsSequenced
<1>1. misled \/ IInv => LogIsSequenced
  <2>1. IInv => log \in Seq(Batches) /\ Sequenced(log)
    BY DEF IInv, ProducerTypes, Runs
  <2>2. log \in Seq(Batches) => DOMAIN log = 1 .. Len(log)
    OBVIOUS
  <2> QED BY <2>1, <2>2 DEF LogIsSequenced, Sequenced
<1>2. (misled \/ IInv) /\ [Next]_vars => (misled \/ IInv)'
  BY NextIInv
<1> QED BY <1>1, <1>2, InitIInv, PTL DEF Spec

(***************************************************************************)
(* A batch the broker answered for, as committed or as a duplicate, is     *)
(* among the committed ones and stays there through every crash, again     *)
(* until a recovery gives a memory the wrong epoch.                        *)
(***************************************************************************)
THEOREM AckedStaysStored ==
  ASSUME OneAtATimeAfterRestart
  PROVE  Spec => []AckedIsStored
<1>1. misled \/ IInv => AckedIsStored
  <2> SUFFICES ASSUME IInv, ~misled, NEW a \in acks PROVE a \in Range(SubSeq(log, 1, committed))
    BY DEF AckedIsStored
  <2>1. log \in Seq(Batches) /\ committed \in 0 .. Len(log)
    BY DEF IInv, ProducerTypes
  <2> DEFINE kept == SubSeq(log, 1, committed)
  <2>2. Len(kept) = committed /\ (\A i \in 1 .. committed : kept[i] = log[i]) /\ kept \in Seq(Batches)
    BY <2>1, PrefixFacts
  <2>3. DOMAIN kept = 1 .. committed
    BY <2>2
  <2>4. PICK i \in 1 .. committed : log[i] = a
    BY DEF IInv, Answered, Stored
  <2> HIDE DEF kept
  <2>5. a \in Range(kept)
    BY <2>2, <2>3, <2>4 DEF Range
  <2> QED BY <2>5 DEF kept
<1>2. (misled \/ IInv) /\ [Next]_vars => (misled \/ IInv)'
  BY NextIInv
<1> QED BY <1>1, <1>2, InitIInv, PTL DEF Spec

----------------------------------------------------------------------------
(***************************************************************************)
(* Pipelines.  autocommit.py and dedupstore.py refuse an interval or a     *)
(* window below one.                                                       *)
(***************************************************************************)
PipeConstants ==
  /\ DedupWindow \in Nat \ {0} /\ CommitInterval \in Nat \ {0}
  /\ MaxItems \in Nat /\ MaxOutput \in Nat /\ MaxNow \in Nat

\* Value x occurs in sequence s.
Occurs(x, s) == \E i \in 1 .. Len(s) : s[i] = x

\* The fields of a consume-transform-produce loop.
CtpRecord ==
  [class : {"ctp"}, exactly_once : BOOLEAN, open : BOOLEAN, produced : Seq(Nat),
   offset_commit : Int, position : Nat, committed : Nat, out : Seq(Nat),
   early : BOOLEAN, bare : BOOLEAN]

\* Consume, transform, produce: every input below the position has its output, in the
\* open transaction or outside, where no offset was committed over open outputs; exactly
\* once, where no offset was handed over early, the open transaction continues the outputs.
Ctp ==
  /\ obj \in CtpRecord
  /\ obj.committed <= obj.position
  /\ obj.open => obj.offset_commit = -1 \/ obj.offset_commit \in 0 .. obj.position
  /\ ~ obj.bare =>
       /\ \A n \in Nat : n < obj.committed => Occurs(n, obj.out)
       /\ \A n \in Nat : n < obj.position =>
            Occurs(n, obj.out) \/ (obj.open /\ Occurs(n, obj.produced))
  /\ obj.exactly_once /\ ~ obj.early =>
       /\ Len(obj.out) = obj.committed /\ \A i \in 1 .. Len(obj.out) : obj.out[i] = i - 1
       /\ ~ obj.open => obj.position = obj.committed
       /\ obj.open => /\ Len(obj.produced) = obj.position - obj.committed
                      /\ \A i \in 1 .. Len(obj.produced) :
                           obj.produced[i] = obj.committed + i - 1

\* The index of an element of the second of two lists laid end to end.
LEMMA ShiftedIndex ==
  ASSUME NEW a \in Nat, NEW b \in Nat, NEW i \in 1 .. a + b, ~ (i <= a)
  PROVE  i - a \in 1 .. b
  OBVIOUS

\* What the invariant says of each of its fields.
LEMMA CtpFields ==
  ASSUME Ctp
  PROVE  /\ obj \in CtpRecord /\ obj.class = "ctp"
         /\ obj.exactly_once \in BOOLEAN /\ obj.open \in BOOLEAN
         /\ obj.produced \in Seq(Nat) /\ Len(obj.produced) \in Nat
         /\ obj.out \in Seq(Nat) /\ Len(obj.out) \in Nat
         /\ obj.offset_commit \in Int /\ obj.position \in Nat /\ obj.committed \in Nat
         /\ obj.early \in BOOLEAN /\ obj.bare \in BOOLEAN
         /\ obj.committed <= obj.position
BY DEF Ctp, CtpRecord

\* What occurs in either half occurs in the whole.
LEMMA OccursInConcat ==
  ASSUME NEW s \in Seq(Nat), NEW t \in Seq(Nat), NEW x, Occurs(x, s) \/ Occurs(x, t)
  PROVE  Occurs(x, s \o t)
<1>1. /\ Len(s) \in Nat /\ Len(t) \in Nat /\ Len(s \o t) = Len(s) + Len(t)
      /\ \A i \in 1 .. Len(s) + Len(t) :
           (s \o t)[i] = IF i <= Len(s) THEN s[i] ELSE t[i - Len(s)]
  BY ConcatProperties
<1>2. CASE Occurs(x, s)
  <2>1. PICK i \in 1 .. Len(s) : s[i] = x
    BY <1>2 DEF Occurs
  <2>2. i \in 1 .. Len(s) + Len(t) /\ i <= Len(s)
    BY <1>1
  <2> QED BY <1>1, <2>1, <2>2 DEF Occurs
<1>3. CASE Occurs(x, t)
  <2>1. PICK i \in 1 .. Len(t) : t[i] = x
    BY <1>3 DEF Occurs
  <2>2. i + Len(s) \in 1 .. Len(s) + Len(t) /\ ~ (i + Len(s) <= Len(s)) /\ (i + Len(s)) - Len(s) = i
    BY <1>1
  <2>3. (s \o t)[i + Len(s)] = x
    BY <1>1, <2>1, <2>2
  <2> QED BY <1>1, <2>2, <2>3 DEF Occurs
<1> QED BY <1>2, <1>3

\* What occurs goes on to occur when the sequence grows, and so does the new element.
LEMMA OccursInAppend ==
  ASSUME NEW S, NEW s \in Seq(S), NEW e \in S, NEW x, Occurs(x, s) \/ x = e
  PROVE  Occurs(x, Append(s, e))
<1>1. /\ Len(s) \in Nat /\ Len(Append(s, e)) = Len(s) + 1
      /\ \A i \in 1 .. Len(s) : Append(s, e)[i] = s[i]
      /\ Append(s, e)[Len(s) + 1] = e
  BY AppendProperties
<1>2. CASE Occurs(x, s)
  <2>1. PICK i \in 1 .. Len(s) : s[i] = x
    BY <1>2 DEF Occurs
  <2>2. i \in 1 .. Len(s) + 1
    BY <1>1
  <2> QED BY <1>1, <2>1, <2>2 DEF Occurs
<1>3. CASE x = e
  <2>1. Len(s) + 1 \in 1 .. Len(s) + 1
    BY <1>1
  <2> QED BY <1>1, <1>3, <2>1 DEF Occurs
<1> QED BY <1>2, <1>3

\* A transaction begins, takes an input's output, or takes the offset.
LEMMA CtpGrows ==
  ASSUME Ctp, Pipe!BeginTxn \/ Pipe!ProduceNext \/ Pipe!RideOffset
  PROVE  Ctp'
<1>0. obj \in CtpRecord
  BY CtpFields
<1>1. CASE Pipe!BeginTxn
  <2> DEFINE none  == -1
             empty == <<>>
  <2>1. ~ obj.open
        /\ obj' = [obj EXCEPT !.open = TRUE, !.produced = empty, !.offset_commit = none]
    BY <1>1 DEF Pipe!BeginTxn
  <2>2. none = -1 /\ none \in Int /\ empty \in Seq(Nat) /\ Len(empty) = 0 /\ 1 .. Len(empty) = {}
    OBVIOUS
  <2> HIDE DEF none, empty
  <2>3. /\ obj' \in CtpRecord /\ obj'.open /\ obj'.produced = empty /\ obj'.offset_commit = none
        /\ obj'.position = obj.position /\ obj'.committed = obj.committed /\ obj'.out = obj.out
        /\ obj'.exactly_once = obj.exactly_once /\ obj'.early = obj.early /\ obj'.bare = obj.bare
    BY <1>0, <2>1, <2>2 DEF CtpRecord
  <2>4. obj.exactly_once /\ ~ obj.early => Len(empty) = obj.position - obj.committed
    BY <2>1, <2>2, CtpFields DEF Ctp
  <2> QED BY <2>1, <2>2, <2>3, <2>4 DEF Ctp
<1>2. CASE Pipe!ProduceNext
  <2> DEFINE produced == Append(obj.produced, obj.position)
             next     == obj.position + 1
  <2>1. /\ obj.open
        /\ obj' = [obj EXCEPT !.produced = produced, !.position = next]
    BY <1>2 DEF Pipe!ProduceNext
  <2>2. /\ produced \in Seq(Nat) /\ Len(produced) = Len(obj.produced) + 1
        /\ \A i \in 1 .. Len(obj.produced) : produced[i] = obj.produced[i]
        /\ produced[Len(obj.produced) + 1] = obj.position
        /\ next \in Nat
    BY CtpFields, AppendProperties
  <2>3. ~ obj.bare => \A n \in Nat : n < next => Occurs(n, obj.out) \/ Occurs(n, produced)
    <3> SUFFICES ASSUME ~ obj.bare, NEW n \in Nat, n < next PROVE Occurs(n, obj.out) \/ Occurs(n, produced)
      OBVIOUS
    <3>1. n < obj.position => Occurs(n, obj.out) \/ Occurs(n, obj.produced)
      BY DEF Ctp
    <3>2. n < obj.position \/ n = obj.position
      BY CtpFields
    <3> QED BY <3>1, <3>2, CtpFields, OccursInAppend
  <2>4. obj.exactly_once /\ ~ obj.early =>
          /\ Len(produced) = next - obj.committed
          /\ \A i \in 1 .. Len(produced) : produced[i] = obj.committed + i - 1
    <3> SUFFICES ASSUME obj.exactly_once, ~ obj.early
                 PROVE  /\ Len(produced) = next - obj.committed
                        /\ \A i \in 1 .. Len(produced) : produced[i] = obj.committed + i - 1
      OBVIOUS
    <3>1. /\ Len(obj.produced) = obj.position - obj.committed
          /\ \A i \in 1 .. Len(obj.produced) : obj.produced[i] = obj.committed + i - 1
      BY <2>1 DEF Ctp
    <3>2. /\ Len(obj.produced) \in Nat /\ obj.position \in Nat /\ obj.committed \in Nat
      BY CtpFields
    <3> HIDE DEF produced
    <3>3. Len(produced) = next - obj.committed
      BY <2>2, <3>1, <3>2
    <3>4. ASSUME NEW i \in 1 .. Len(produced) PROVE produced[i] = obj.committed + i - 1
      <4>1. CASE i = Len(obj.produced) + 1
        BY <2>2, <3>1, <3>2, <4>1
      <4>2. CASE i # Len(obj.produced) + 1
        <5>1. i \in 1 .. Len(obj.produced)
          <6>1. i \in 1 .. Len(obj.produced) + 1
            BY <2>2
          <6> QED BY <3>2, <4>2, <6>1
        <5> QED BY <2>2, <3>1, <5>1
      <4> QED BY <4>1, <4>2
    <3> QED BY <3>3, <3>4
  <2> HIDE DEF produced, next
  <2>5. /\ obj' \in CtpRecord /\ obj'.open = obj.open /\ obj'.produced = produced
        /\ obj'.offset_commit = obj.offset_commit
        /\ obj'.position = next /\ obj'.committed = obj.committed /\ obj'.out = obj.out
        /\ obj'.exactly_once = obj.exactly_once /\ obj'.early = obj.early /\ obj'.bare = obj.bare
    BY <1>0, <2>1, <2>2 DEF CtpRecord
  <2>6. obj.committed <= next
    BY CtpFields DEF next
  <2>7. obj.offset_commit = -1 \/ obj.offset_commit \in 0 .. next
    <3>1. obj.offset_commit = -1 \/ obj.offset_commit \in 0 .. obj.position
      BY <2>1 DEF Ctp
    <3> QED BY <3>1, CtpFields DEF next
  <2> QED BY <2>1, <2>3, <2>4, <2>5, <2>6, <2>7 DEF Ctp
<1>3. CASE Pipe!RideOffset
  <2> DEFINE at == obj.position
  <2>1. obj' = [obj EXCEPT !.offset_commit = at] /\ at \in Int
    BY <1>3, CtpFields DEF Pipe!RideOffset
  <2>4. at = obj.position
    OBVIOUS
  <2> HIDE DEF at
  <2>2. /\ obj' \in CtpRecord /\ obj'.open = obj.open /\ obj'.produced = obj.produced
        /\ obj'.offset_commit = obj.position
        /\ obj'.position = obj.position /\ obj'.committed = obj.committed /\ obj'.out = obj.out
        /\ obj'.exactly_once = obj.exactly_once /\ obj'.early = obj.early /\ obj'.bare = obj.bare
    BY <1>0, <2>1, <2>4 DEF CtpRecord
  <2>3. obj.open /\ obj.position \in 0 .. obj.position
    BY <1>3, CtpFields DEF Pipe!RideOffset
  <2> QED BY <2>2, <2>3 DEF Ctp
<1> QED BY <1>1, <1>2, <1>3

\* The outputs and the offset appear together, or the worker goes back to the offset.
LEMMA CtpEnds ==
  ASSUME Ctp, Pipe!CommitBoth \/ Pipe!AbortBoth \/ Pipe!BareCommit \/ Pipe!CtpCrash
  PROVE  Ctp'
<1>0. obj \in CtpRecord
  BY CtpFields
<1>1. CASE Pipe!CommitBoth
  <2> DEFINE out       == obj.out \o obj.produced
             newCommitted == IF obj.offset_commit = -1 THEN obj.committed ELSE obj.offset_commit
             early == obj.early \/ obj.offset_commit \notin {-1, obj.position}
  <2>1. /\ obj.open /\ (obj.exactly_once => obj.offset_commit # -1)
        /\ obj' = [obj EXCEPT !.open = FALSE, !.out = out, !.committed = newCommitted,
                              !.early = early]
    BY <1>1 DEF Pipe!CommitBoth, Pipe!OffsetRides
  <2>2. /\ out \in Seq(Nat) /\ Len(out) = Len(obj.out) + Len(obj.produced)
        /\ \A i \in 1 .. Len(obj.out) + Len(obj.produced) :
             out[i] = IF i <= Len(obj.out) THEN obj.out[i] ELSE obj.produced[i - Len(obj.out)]
    BY CtpFields, ConcatProperties
  <2>3. newCommitted = obj.committed \/ newCommitted \in 0 .. obj.position
    BY <2>1 DEF Ctp
  <2>4. newCommitted \in Nat /\ newCommitted <= obj.position
    <3> HIDE DEF newCommitted
    <3> QED BY <2>3, CtpFields
  <2>5. ~ obj.bare => \A n \in Nat : n < obj.position => Occurs(n, out)
    <3> SUFFICES ASSUME ~ obj.bare, NEW n \in Nat, n < obj.position PROVE Occurs(n, out)
      OBVIOUS
    <3>1. Occurs(n, obj.out) \/ Occurs(n, obj.produced)
      BY DEF Ctp
    <3> QED BY <3>1, CtpFields, OccursInConcat
  <2>6. obj.exactly_once /\ ~ early =>
          /\ newCommitted = obj.position /\ Len(out) = obj.position
          /\ \A i \in 1 .. Len(out) : out[i] = i - 1
    <3> SUFFICES ASSUME obj.exactly_once, ~ early
                 PROVE  /\ newCommitted = obj.position /\ Len(out) = obj.position
                        /\ \A i \in 1 .. Len(out) : out[i] = i - 1
      OBVIOUS
    <3>1. /\ newCommitted = obj.position
          /\ Len(obj.out) = obj.committed /\ Len(obj.produced) = obj.position - obj.committed
          /\ \A i \in 1 .. Len(obj.out) : obj.out[i] = i - 1
          /\ \A i \in 1 .. Len(obj.produced) : obj.produced[i] = obj.committed + i - 1
      BY <2>1 DEF Ctp
    <3>2. /\ Len(obj.out) \in Nat /\ Len(obj.produced) \in Nat /\ obj.position \in Nat
          /\ obj.committed \in Nat
      BY CtpFields
    <3> HIDE DEF out, newCommitted
    <3>3. Len(out) = obj.position
      BY <2>2, <3>1, <3>2
    <3>4. ASSUME NEW i \in 1 .. Len(out) PROVE out[i] = i - 1
      <4>1. i \in 1 .. Len(obj.out) + Len(obj.produced)
        BY <2>2
      <4>2. CASE i <= Len(obj.out)
        <5>1. i \in 1 .. Len(obj.out)
          BY <3>2, <4>2
        <5> QED BY <2>2, <3>1, <4>1, <4>2, <5>1
      <4>3. CASE ~ (i <= Len(obj.out))
        <5>1. i - Len(obj.out) \in 1 .. Len(obj.produced)
          BY <3>2, <4>1, <4>3, ShiftedIndex
        <5>2. out[i] = obj.produced[i - Len(obj.out)]
          BY <2>2, <4>1, <4>3
        <5>3. obj.produced[i - Len(obj.out)] = obj.committed + (i - Len(obj.out)) - 1
          BY <3>1, <5>1
        <5> QED BY <3>1, <3>2, <5>2, <5>3
      <4> QED BY <4>2, <4>3
    <3> QED BY <3>1, <3>3, <3>4
  <2>9. early \in BOOLEAN
    OBVIOUS
  <2> HIDE DEF out, newCommitted, early
  <2>7. /\ obj' \in CtpRecord /\ obj'.open = FALSE /\ obj'.out = out
        /\ obj'.committed = newCommitted /\ obj'.position = obj.position
        /\ obj'.exactly_once = obj.exactly_once /\ obj'.early = early /\ obj'.bare = obj.bare
    BY <1>0, <2>1, <2>2, <2>4, <2>9 DEF CtpRecord
  <2>8. ~ obj.bare => \A n \in Nat : n < newCommitted => Occurs(n, out)
    <3> SUFFICES ASSUME ~ obj.bare, NEW n \in Nat, n < newCommitted PROVE Occurs(n, out)
      OBVIOUS
    <3>1. n < obj.position
      BY <2>4, CtpFields
    <3> QED BY <2>5, <3>1
  <2> QED BY <2>4, <2>5, <2>6, <2>7, <2>8 DEF Ctp
<1>2. CASE Pipe!AbortBoth \/ Pipe!CtpCrash
  <2>1. obj' = [obj EXCEPT !.open = FALSE, !.position = obj.committed]
    BY <1>2 DEF Pipe!AbortBoth, Pipe!CtpCrash
  <2>2. /\ obj' \in CtpRecord /\ obj'.open = FALSE /\ obj'.out = obj.out
        /\ obj'.committed = obj.committed /\ obj'.position = obj.committed
        /\ obj'.exactly_once = obj.exactly_once /\ obj'.early = obj.early /\ obj'.bare = obj.bare
    BY <1>0, <2>1 DEF CtpRecord
  <2>3. obj.committed <= obj.committed
    BY CtpFields
  <2> QED BY <2>2, <2>3 DEF Ctp
<1>3. CASE Pipe!BareCommit
  <2> DEFINE bare == obj.bare \/ (obj.open /\ obj.produced # <<>>)
  <2>1. ~ obj.exactly_once /\ obj' = [obj EXCEPT !.committed = obj.position, !.bare = bare]
    BY <1>3 DEF Pipe!BareCommit
  <2>2. bare \in BOOLEAN
    OBVIOUS
  <2>3. ~ bare => ~ obj.bare /\ \A n \in Nat : n < obj.position => Occurs(n, obj.out)
    <3> SUFFICES ASSUME ~ bare, NEW n \in Nat, n < obj.position PROVE Occurs(n, obj.out)
      OBVIOUS
    <3>1. Occurs(n, obj.out) \/ (obj.open /\ Occurs(n, obj.produced))
      BY DEF Ctp
    <3>2. obj.produced = <<>> => ~ Occurs(n, obj.produced)
      <4>1. obj.produced = <<>> => 1 .. Len(obj.produced) = {}
        OBVIOUS
      <4> QED BY <4>1 DEF Occurs
    <3> QED BY <3>1, <3>2
  <2> HIDE DEF bare
  <2>4. /\ obj' \in CtpRecord /\ obj'.open = obj.open /\ obj'.out = obj.out
        /\ obj'.committed = obj.position /\ obj'.position = obj.position
        /\ obj'.exactly_once = obj.exactly_once /\ obj'.offset_commit = obj.offset_commit
        /\ obj'.bare = bare
    BY <1>0, <2>1, <2>2 DEF CtpRecord
  <2>5. obj.position <= obj.position
    BY CtpFields
  <2> QED BY <2>1, <2>3, <2>4, <2>5 DEF Ctp
<1> QED BY <1>1, <1>2, <1>3

\* Every step of the transactional pipeline keeps its invariant.
LEMMA CtpStep ==
  ASSUME Ctp, Pipe!CtpNext
  PROVE  Ctp'
BY CtpGrows, CtpEnds DEF Pipe!CtpNext
----------------------------------------------------------------------------
\* The fields of a consumer that commits on a timer.
AutoRecord ==
  [class : {"auto"}, on_poll : BOOLEAN, fetched : Nat, processed : Nat, committed : Nat,
   since : Nat, busy : BOOLEAN, replayed : Nat, done : SUBSET Nat]

\* Auto-commit: what a crash would replay was processed since the last commit, at most
\* one record a tick.
AutoCommit ==
  /\ obj \in AutoRecord
  /\ obj.processed <= obj.fetched
  /\ obj.since < CommitInterval
  /\ obj.processed - obj.committed <= obj.since + (IF obj.busy THEN 1 ELSE 0)
  /\ obj.replayed <= CommitInterval
  /\ ~ obj.on_poll => /\ obj.committed <= obj.processed
                      /\ 0 .. obj.processed - 1 \subseteq obj.done

\* Every step of auto-commit keeps its invariant.
LEMMA AutoStep ==
  ASSUME PipeConstants, AutoCommit, Pipe!AutoNext
  PROVE  AutoCommit'
<1>0. obj \in AutoRecord
  BY DEF AutoCommit
<1>1. /\ obj.on_poll \in BOOLEAN /\ obj.fetched \in Nat /\ obj.processed \in Nat
      /\ obj.committed \in Nat /\ obj.since \in Nat /\ obj.busy \in BOOLEAN
      /\ obj.replayed \in Nat /\ obj.done \in SUBSET Nat /\ CommitInterval \in Nat \ {0}
      /\ obj.processed <= obj.fetched /\ obj.since < CommitInterval
      /\ obj.processed - obj.committed <= obj.since + (IF obj.busy THEN 1 ELSE 0)
      /\ obj.replayed <= CommitInterval
      /\ ~ obj.on_poll => /\ obj.committed <= obj.processed
                          /\ 0 .. obj.processed - 1 \subseteq obj.done
  BY DEF AutoCommit, AutoRecord, PipeConstants
<1>2. CASE Pipe!PollOne
  <2> DEFINE next == obj.fetched + 1
  <2>1. obj' = [obj EXCEPT !.fetched = next] /\ next \in Nat /\ obj.processed <= next
    BY <1>1, <1>2 DEF Pipe!PollOne
  <2> HIDE DEF next
  <2>2. /\ obj' \in AutoRecord /\ obj'.on_poll = obj.on_poll /\ obj'.fetched = next
        /\ obj'.processed = obj.processed /\ obj'.committed = obj.committed
        /\ obj'.since = obj.since /\ obj'.busy = obj.busy /\ obj'.replayed = obj.replayed
        /\ obj'.done = obj.done
    BY <1>0, <2>1 DEF AutoRecord
  <2> QED BY <1>1, <2>1, <2>2 DEF AutoCommit
<1>3. CASE Pipe!ProcessOne
  <2> DEFINE next == obj.processed + 1
             done == obj.done \cup {obj.processed}
  <2>1. /\ obj.processed < obj.fetched /\ ~ obj.busy
        /\ obj' = [obj EXCEPT !.processed = next, !.done = done, !.busy = TRUE]
    BY <1>3 DEF Pipe!ProcessOne
  <2>2. /\ next \in Nat /\ next = obj.processed + 1 /\ next <= obj.fetched
        /\ done \in SUBSET Nat /\ obj.done \subseteq done /\ obj.processed \in done
    BY <1>1, <2>1
  <2> HIDE DEF next, done
  <2>3. /\ obj' \in AutoRecord /\ obj'.on_poll = obj.on_poll /\ obj'.fetched = obj.fetched
        /\ obj'.processed = next /\ obj'.committed = obj.committed
        /\ obj'.since = obj.since /\ obj'.busy = TRUE /\ obj'.replayed = obj.replayed
        /\ obj'.done = done
    BY <1>0, <2>1, <2>2 DEF AutoRecord
  <2>4. next - obj.committed <= obj.since + 1
    BY <1>1, <2>1, <2>2
  <2>5. ~ obj.on_poll => obj.committed <= next /\ 0 .. next - 1 \subseteq done
    <3> SUFFICES ASSUME ~ obj.on_poll PROVE obj.committed <= next /\ 0 .. next - 1 \subseteq done
      OBVIOUS
    <3>1. \A n \in 0 .. next - 1 : n \in 0 .. obj.processed - 1 \/ n = obj.processed
      BY <1>1, <2>2
    <3>2. obj.committed <= next
      BY <1>1, <2>2
    <3> QED BY <1>1, <2>2, <3>1, <3>2
  <2> QED BY <1>1, <2>2, <2>3, <2>4, <2>5 DEF AutoCommit
<1>4. CASE Pipe!AutoTick /\ obj.since + 1 < CommitInterval
  <2> DEFINE next == obj.since + 1
  <2>1. obj' = [obj EXCEPT !.since = next, !.busy = FALSE] /\ next \in Nat /\ next < CommitInterval
    BY <1>1, <1>4 DEF Pipe!AutoTick
  <2>2. obj.processed - obj.committed <= next
    BY <1>1
  <2> HIDE DEF next
  <2>3. /\ obj' \in AutoRecord /\ obj'.on_poll = obj.on_poll /\ obj'.fetched = obj.fetched
        /\ obj'.processed = obj.processed /\ obj'.committed = obj.committed
        /\ obj'.since = next /\ obj'.busy = FALSE /\ obj'.replayed = obj.replayed
        /\ obj'.done = obj.done
    BY <1>0, <2>1 DEF AutoRecord
  <2>4. next + 0 = next
    BY <2>1
  <2> QED BY <1>1, <2>1, <2>2, <2>3, <2>4 DEF AutoCommit
<1>5. CASE Pipe!AutoTick /\ ~ (obj.since + 1 < CommitInterval)
  <2> DEFINE newCommitted == IF obj.on_poll THEN obj.fetched ELSE obj.processed
  <2>1. obj' = [obj EXCEPT !.since = 0, !.busy = FALSE, !.committed = newCommitted]
    BY <1>5 DEF Pipe!AutoTick
  <2>2. newCommitted \in Nat /\ obj.processed <= newCommitted
        /\ (~ obj.on_poll => newCommitted = obj.processed)
    BY <1>1
  <2> HIDE DEF newCommitted
  <2>3. /\ obj' \in AutoRecord /\ obj'.on_poll = obj.on_poll /\ obj'.fetched = obj.fetched
        /\ obj'.processed = obj.processed /\ obj'.committed = newCommitted
        /\ obj'.since = 0 /\ obj'.busy = FALSE /\ obj'.replayed = obj.replayed
        /\ obj'.done = obj.done
    BY <1>0, <2>1, <2>2 DEF AutoRecord
  <2>4. obj.processed - newCommitted <= 0 + 0 /\ 0 < CommitInterval
    BY <1>1, <2>2
  <2>5. ~ obj.on_poll => newCommitted <= obj.processed
    BY <1>1, <2>2
  <2> QED BY <1>1, <2>3, <2>4, <2>5 DEF AutoCommit
<1>6. CASE Pipe!AutoCrash
  <2> DEFINE S == {obj.replayed, obj.processed - obj.committed}
             replayed == Pipe!Max(S)
  <2>1. obj' = [obj EXCEPT !.fetched = obj.committed, !.processed = obj.committed,
                           !.replayed = replayed]
    BY <1>6 DEF Pipe!AutoCrash
  <2>2. replayed \in Nat /\ replayed <= CommitInterval
    <3>1. obj.processed - obj.committed \in Int /\ obj.processed - obj.committed <= CommitInterval
      BY <1>1
    <3>2. \E x \in S : \A y \in S : x >= y
      BY <1>1, <3>1
    <3>3. replayed \in S /\ \A y \in S : replayed >= y
      BY <3>2, Zenon DEF Pipe!Max
    <3> HIDE DEF replayed
    <3> QED BY <1>1, <3>1, <3>3
  <2> HIDE DEF replayed, S
  <2>3. /\ obj' \in AutoRecord /\ obj'.on_poll = obj.on_poll /\ obj'.fetched = obj.committed
        /\ obj'.processed = obj.committed /\ obj'.committed = obj.committed
        /\ obj'.since = obj.since /\ obj'.busy = obj.busy /\ obj'.replayed = replayed
        /\ obj'.done = obj.done
    BY <1>0, <2>1, <2>2 DEF AutoRecord
  <2>4. obj.committed - obj.committed <= obj.since + (IF obj.busy THEN 1 ELSE 0)
        /\ obj.committed <= obj.committed
    BY <1>1
  <2>5. ~ obj.on_poll => 0 .. obj.committed - 1 \subseteq obj.done
    <3> SUFFICES ASSUME ~ obj.on_poll, NEW n \in 0 .. obj.committed - 1 PROVE n \in obj.done
      OBVIOUS
    <3>1. n \in 0 .. obj.processed - 1
      BY <1>1
    <3> QED BY <1>1, <3>1
  <2> QED BY <1>1, <2>2, <2>3, <2>4, <2>5 DEF AutoCommit
<1> QED BY <1>2, <1>3, <1>4, <1>5, <1>6 DEF Pipe!AutoNext

----------------------------------------------------------------------------
\* The fields of a saga.
SagaRecord ==
  [class : {"saga"}, completed : Seq(Nat), state : {"running", "committed", "compensated"},
   order : Seq(Nat), undone : Nat, effects : SUBSET Nat, unknown : SUBSET Nat,
   orderly : BOOLEAN]

\* An orderly saga's steps are completed in order and undone from the last one back, so
\* that the effects left, except for a step whose answer was lost, are those of the first.
SagaInOrder ==
  /\ \A i \in 1 .. Len(obj.completed) : obj.completed[i] = i
  /\ obj.state # "compensated" =>
       obj.undone = 0 /\ obj.unknown = {} /\ obj.effects = 1 .. Len(obj.completed)
  /\ obj.state = "committed" => Len(obj.completed) = MaxItems
  /\ obj.state = "compensated" =>
       /\ Len(obj.order) = Len(obj.completed) /\ obj.undone <= Len(obj.completed)
       /\ \A k \in 1 .. Len(obj.order) : obj.order[k] = Len(obj.completed) - k + 1
       /\ obj.effects \ obj.unknown = 1 .. Len(obj.completed) - obj.undone
       /\ obj.unknown \subseteq {Len(obj.completed) + 1}

\* The saga's invariant.
Saga == obj \in SagaRecord /\ (obj.orderly => SagaInOrder)

\* A sequence read backwards is as long, of the same elements.
LEMMA BackwardsTyped ==
  ASSUME NEW s \in Seq(Nat)
  PROVE  Pipe!Reverse(s) \in Seq(Nat) /\ Len(Pipe!Reverse(s)) = Len(s)
<1> DEFINE r == [k \in 1 .. Len(s) |-> s[(Len(s) - k) + 1]]
<1>1. Len(s) \in Nat /\ \A k \in 1 .. Len(s) : s[k] \in Nat
  OBVIOUS
<1>2. \A k \in 1 .. Len(s) : (Len(s) - k) + 1 \in 1 .. Len(s)
  BY <1>1
<1>3. r \in [1 .. Len(s) -> Nat]
  BY <1>1, <1>2
<1>4. r \in Seq(Nat) /\ Len(r) = Len(s)
  BY <1>1, <1>3
<1> QED BY <1>4 DEF Pipe!Reverse

\* The completed steps, last first.
LEMMA StepsReversed ==
  ASSUME NEW s \in Seq(Nat), \A i \in 1 .. Len(s) : s[i] = i
  PROVE  /\ Pipe!Reverse(s) \in Seq(Nat) /\ Len(Pipe!Reverse(s)) = Len(s)
         /\ \A k \in 1 .. Len(s) : Pipe!Reverse(s)[k] = Len(s) - k + 1
<1>1. Len(s) \in Nat
  OBVIOUS
<1>2. \A k \in 1 .. Len(s) : Len(s) - k + 1 \in 1 .. Len(s)
  BY <1>1
<1>3. \A k \in 1 .. Len(s) : s[(Len(s) - k) + 1] = Len(s) - k + 1
  BY <1>2
<1>4. Pipe!Reverse(s) = [k \in 1 .. Len(s) |-> Len(s) - k + 1]
  BY <1>3 DEF Pipe!Reverse
<1>5. \A k \in 1 .. Len(s) : Len(s) - k + 1 \in Nat
  BY <1>2
<1> DEFINE r == [k \in 1 .. Len(s) |-> Len(s) - k + 1]
<1>6. r \in [1 .. Len(s) -> Nat]
  BY <1>5
<1>7. r \in Seq(Nat) /\ Len(r) = Len(s)
  BY <1>1, <1>6
<1> QED BY <1>4, <1>7

\* The fields of a saga that fails, or has failed.
LEMMA SagaFailed ==
  ASSUME obj \in SagaRecord
  PROVE  /\ Pipe!Failed(obj) = [obj EXCEPT !.state = "compensated",
                                           !.order = Pipe!Reverse(obj.completed)]
         /\ Pipe!Failed(obj) \in SagaRecord
         /\ Pipe!Failed(obj).completed = obj.completed /\ Pipe!Failed(obj).undone = obj.undone
         /\ Pipe!Failed(obj).effects = obj.effects /\ Pipe!Failed(obj).unknown = obj.unknown
         /\ Pipe!Failed(obj).orderly = obj.orderly /\ Pipe!Failed(obj).state = "compensated"
         /\ Pipe!Failed(obj).order = Pipe!Reverse(obj.completed)
<1> DEFINE order == Pipe!Reverse(obj.completed)
<1>1. order \in Seq(Nat)
  BY BackwardsTyped DEF SagaRecord
<1>2. Pipe!Failed(obj) = [obj EXCEPT !.state = "compensated", !.order = order]
  BY DEF Pipe!Failed
<1> HIDE DEF order
<1>3. /\ Pipe!Failed(obj) \in SagaRecord
      /\ Pipe!Failed(obj).completed = obj.completed /\ Pipe!Failed(obj).undone = obj.undone
      /\ Pipe!Failed(obj).effects = obj.effects /\ Pipe!Failed(obj).unknown = obj.unknown
      /\ Pipe!Failed(obj).orderly = obj.orderly /\ Pipe!Failed(obj).state = "compensated"
      /\ Pipe!Failed(obj).order = order
  BY <1>1, <1>2 DEF SagaRecord
<1> QED BY <1>2, <1>3 DEF order

\* Completing a step.
LEMMA SagaGoes ==
  ASSUME PipeConstants, Saga, NEW step \in 1 .. MaxItems, Pipe!CompleteStep(step)
  PROVE  Saga'
<1> DEFINE done      == Len(obj.completed)
           completed == Append(obj.completed, step)
           effects   == obj.effects \cup {step}
           state     == IF completed = Pipe!Steps THEN "committed" ELSE obj.state
           orderly   == obj.orderly /\ step = Len(completed)
<1>0. obj \in SagaRecord /\ step \in Nat
  BY DEF Saga, PipeConstants
<1>1. /\ obj.completed \in Seq(Nat) /\ done \in Nat
      /\ obj.effects \in SUBSET Nat /\ obj.state = "running"
      /\ obj' = [obj EXCEPT !.completed = completed, !.effects = effects, !.state = state,
                            !.orderly = orderly]
  BY <1>0 DEF SagaRecord, Pipe!CompleteStep
<1>2. /\ completed \in Seq(Nat) /\ Len(completed) = done + 1
      /\ \A i \in 1 .. done : completed[i] = obj.completed[i]
      /\ completed[done + 1] = step
  BY <1>0, <1>1, AppendProperties
<1>3. effects \in SUBSET Nat /\ orderly \in BOOLEAN
  BY <1>0, <1>1
<1>4. state \in {"running", "committed"} /\ (state = "committed" => Len(completed) = MaxItems)
  <2>1. completed = Pipe!Steps => Len(completed) = MaxItems
    BY DEF Pipe!Steps, PipeConstants
  <2> QED BY <1>1, <2>1
<1>5. ASSUME orderly
      PROVE  /\ \A i \in 1 .. done + 1 : completed[i] = i
             /\ obj.undone = 0 /\ obj.unknown = {} /\ effects = 1 .. done + 1
  <2>1. /\ step = done + 1 /\ \A i \in 1 .. done : obj.completed[i] = i
        /\ obj.undone = 0 /\ obj.unknown = {} /\ obj.effects = 1 .. done
    BY <1>1, <1>2, <1>5 DEF Saga, SagaInOrder
  <2>2. \A i \in 1 .. done + 1 : i \in 1 .. done \/ i = done + 1
    BY <1>1
  <2>3. (1 .. done) \cup {done + 1} = 1 .. done + 1
    BY <1>1
  <2> HIDE DEF completed
  <2> QED BY <1>2, <2>1, <2>2, <2>3
<1> HIDE DEF completed, effects, state, orderly
<1>6. /\ obj' \in SagaRecord /\ obj'.completed = completed /\ obj'.effects = effects
      /\ obj'.state = state /\ obj'.undone = obj.undone /\ obj'.unknown = obj.unknown
      /\ obj'.orderly = orderly
  BY <1>0, <1>1, <1>2, <1>3, <1>4 DEF SagaRecord
<1>7. orderly => SagaInOrder'
  BY <1>2, <1>4, <1>5, <1>6 DEF SagaInOrder
<1> QED BY <1>6, <1>7 DEF Saga

\* What an orderly saga is when it is given up, with a step of unknown outcome or none.
LEMMA SagaGivesUp ==
  ASSUME Saga, obj.orderly, obj.state # "compensated",
         NEW effects, NEW unknown,
         \/ unknown = {} /\ effects = obj.effects
         \/ unknown = {Len(obj.completed) + 1}
            /\ effects = obj.effects \cup {Len(obj.completed) + 1},
         obj' \in SagaRecord, obj'.completed = obj.completed, obj'.state = "compensated",
         obj'.order = Pipe!Reverse(obj.completed), obj'.undone = obj.undone,
         obj'.effects = effects, obj'.unknown = unknown
  PROVE  SagaInOrder'
<1> DEFINE done == Len(obj.completed)
<1>1. /\ obj.completed \in Seq(Nat) /\ done \in Nat
      /\ \A i \in 1 .. done : obj.completed[i] = i
      /\ obj.undone = 0 /\ obj.effects = 1 .. done
  BY DEF Saga, SagaInOrder, SagaRecord
<1>2. /\ Len(obj'.order) = done
      /\ \A k \in 1 .. Len(obj'.order) : obj'.order[k] = done - k + 1
  <2>1. /\ Len(Pipe!Reverse(obj.completed)) = done
        /\ \A k \in 1 .. done : Pipe!Reverse(obj.completed)[k] = done - k + 1
    BY <1>1, StepsReversed
  <2> QED BY <2>1
<1>3. effects \ unknown = 1 .. done /\ unknown \subseteq {done + 1}
  BY <1>1
<1>4. done - 0 = done /\ 0 <= done
  BY <1>1
<1> QED BY <1>1, <1>2, <1>3, <1>4 DEF SagaInOrder

\* A step whose answer is lost: the saga is unwound.
LEMMA SagaFails ==
  ASSUME PipeConstants, Saga, NEW step \in 1 .. MaxItems, Pipe!StepFails(step)
  PROVE  Saga'
<1> DEFINE effects == obj.effects \cup {step}
           unknown == {step}
           orderly == obj.orderly /\ step = Len(obj.completed) + 1
           unwound == Pipe!Failed(obj)
<1>0. obj \in SagaRecord /\ step \in Nat /\ obj.state = "running"
  BY DEF Saga, PipeConstants, Pipe!StepFails
<1>1. /\ unwound \in SagaRecord /\ unwound.completed = obj.completed
      /\ unwound.undone = obj.undone /\ unwound.effects = obj.effects
      /\ unwound.orderly = obj.orderly /\ unwound.state = "compensated"
      /\ unwound.order = Pipe!Reverse(obj.completed)
  BY <1>0, SagaFailed
<1>2. obj' = [unwound EXCEPT !.effects = @ \cup {step}, !.unknown = unknown,
                             !.orderly = @ /\ step = Len(obj.completed) + 1]
  BY Zenon DEF Pipe!StepFails
<1>3. effects \in SUBSET Nat /\ unknown \in SUBSET Nat /\ orderly \in BOOLEAN
  BY <1>0 DEF SagaRecord
<1> HIDE DEF unwound
<1>4. obj' = [unwound EXCEPT !.effects = effects, !.unknown = unknown, !.orderly = orderly]
  BY <1>1, <1>2 DEF SagaRecord
<1>5. ASSUME orderly PROVE obj.orderly /\ unknown = {Len(obj.completed) + 1}
                           /\ effects = obj.effects \cup {Len(obj.completed) + 1}
  BY <1>5
<1> HIDE DEF effects, unknown, orderly
<1>6. /\ obj' \in SagaRecord /\ obj'.completed = obj.completed /\ obj'.effects = effects
      /\ obj'.state = "compensated" /\ obj'.undone = obj.undone /\ obj'.unknown = unknown
      /\ obj'.order = Pipe!Reverse(obj.completed) /\ obj'.orderly = orderly
  BY <1>1, <1>3, <1>4 DEF SagaRecord
<1>7. orderly => SagaInOrder'
  <2>1. ASSUME orderly PROVE SagaInOrder'
    <3>1. obj.state # "compensated"
      BY <1>0
    <3> QED BY <1>5, <1>6, <2>1, <3>1, SagaGivesUp
  <2> QED BY <2>1
<1> QED BY <1>6, <1>7 DEF Saga

\* A saga is unwound: the first time in order.
LEMMA SagaCancelled ==
  ASSUME Saga, Pipe!FailSaga
  PROVE  Saga'
<1> DEFINE orderly == obj.orderly /\ obj.state # "compensated"
           unwound == Pipe!Failed(obj)
<1>0. obj \in SagaRecord
  BY DEF Saga
<1>1. /\ unwound \in SagaRecord /\ unwound.completed = obj.completed
      /\ unwound.undone = obj.undone /\ unwound.effects = obj.effects
      /\ unwound.unknown = obj.unknown
      /\ unwound.orderly = obj.orderly /\ unwound.state = "compensated"
      /\ unwound.order = Pipe!Reverse(obj.completed)
  BY <1>0, SagaFailed
<1>2. obj' = [unwound EXCEPT !.orderly = @ /\ obj.state # "compensated"]
  BY Zenon DEF Pipe!FailSaga
<1>3. orderly \in BOOLEAN
  OBVIOUS
<1> HIDE DEF unwound
<1>4. obj' = [unwound EXCEPT !.orderly = orderly]
  BY <1>1, <1>2 DEF SagaRecord
<1>5. ASSUME orderly PROVE obj.orderly /\ obj.state # "compensated" /\ obj.unknown = {}
  BY <1>5 DEF Saga, SagaInOrder
<1> HIDE DEF orderly
<1>6. /\ obj' \in SagaRecord /\ obj'.completed = obj.completed /\ obj'.effects = obj.effects
      /\ obj'.state = "compensated" /\ obj'.undone = obj.undone
      /\ obj'.unknown = obj.unknown
      /\ obj'.order = Pipe!Reverse(obj.completed) /\ obj'.orderly = orderly
  BY <1>1, <1>3, <1>4 DEF SagaRecord
<1>7. ASSUME orderly PROVE SagaInOrder'
  BY <1>5, <1>6, <1>7, SagaGivesUp
<1> QED BY <1>6, <1>7 DEF Saga

\* A step taken back.
LEMMA SagaUnwound ==
  ASSUME PipeConstants, Saga, NEW step \in 1 .. MaxItems, Pipe!CompensateStep(step)
  PROVE  Saga'
<1> DEFINE done    == Len(obj.completed)
           due     == /\ obj.state = "compensated" /\ obj.undone < Len(obj.order)
                      /\ step = obj.order[obj.undone + 1]
           effects == obj.effects \ {step}
           undone  == IF due THEN obj.undone + 1 ELSE obj.undone
           orderly == obj.orderly /\ due
<1>0. obj \in SagaRecord
  BY DEF Saga
<1>1. /\ obj.completed \in Seq(Nat) /\ done \in Nat /\ obj.undone \in Nat
      /\ obj.effects \in SUBSET Nat
      /\ obj' = [obj EXCEPT !.effects = effects, !.undone = undone, !.orderly = orderly]
  BY <1>0 DEF SagaRecord, Pipe!CompensateStep
<1>2. effects \in SUBSET Nat /\ undone \in Nat /\ orderly \in BOOLEAN
  BY <1>1
<1>3. ASSUME orderly
      PROVE  /\ obj.orderly /\ obj.state = "compensated"
             /\ undone <= done /\ effects \ obj.unknown = 1 .. done - undone
  <2>1. /\ obj.orderly /\ obj.state = "compensated" /\ obj.undone < Len(obj.order)
        /\ step = obj.order[obj.undone + 1] /\ undone = obj.undone + 1
    BY <1>3
  <2>2. /\ Len(obj.order) = done /\ obj.undone <= done
        /\ \A k \in 1 .. Len(obj.order) : obj.order[k] = done - k + 1
        /\ obj.effects \ obj.unknown = 1 .. done - obj.undone
    BY <2>1 DEF Saga, SagaInOrder
  <2>3. undone \in 1 .. Len(obj.order) /\ undone <= done
    BY <1>1, <2>1, <2>2
  <2>4. step = done - obj.undone
    <3>1. step = done - undone + 1
      BY <2>1, <2>2, <2>3
    <3>2. done \in Nat /\ obj.undone \in Nat
      BY <1>1
    <3> HIDE DEF done
    <3>3. done - (obj.undone + 1) + 1 = done - obj.undone
      BY <3>2
    <3> QED BY <2>1, <3>1, <3>3
  <2>5. effects \ obj.unknown = 1 .. done - undone
    <3>1. effects \ obj.unknown = (1 .. done - obj.undone) \ {done - obj.undone}
      BY <2>2, <2>4
    <3>2. done \in Nat /\ obj.undone \in Nat /\ obj.undone < done
      BY <1>1, <2>1, <2>2
    <3> HIDE DEF done
    <3>3. (1 .. done - obj.undone) \ {done - obj.undone} = 1 .. done - (obj.undone + 1)
      BY <3>2
    <3> QED BY <2>1, <3>1, <3>3
  <2> QED BY <2>1, <2>3, <2>5
<1> HIDE DEF effects, undone, orderly
<1>4. /\ obj' \in SagaRecord /\ obj'.completed = obj.completed /\ obj'.effects = effects
      /\ obj'.state = obj.state /\ obj'.undone = undone /\ obj'.unknown = obj.unknown
      /\ obj'.order = obj.order /\ obj'.orderly = orderly
  BY <1>0, <1>1, <1>2 DEF SagaRecord
<1>5. ASSUME orderly PROVE SagaInOrder'
  <2>1. SagaInOrder
    BY <1>3, <1>5 DEF Saga
  <2> QED BY <1>3, <1>4, <1>5, <2>1 DEF SagaInOrder
<1> QED BY <1>4, <1>5 DEF Saga

\* Every step of a saga keeps its invariant.
LEMMA SagaStep ==
  ASSUME PipeConstants, Saga, Pipe!SagaNext
  PROVE  Saga'
BY SagaGoes, SagaFails, SagaCancelled, SagaUnwound, Zenon DEF Pipe!SagaNext
----------------------------------------------------------------------------
\* The fields of a mirrored topic and its group.
MirrorRecord ==
  [class : {"mirror"}, source_end : Nat, translation : Seq(Nat), dest_next : Nat,
   checkpoints : Seq(Nat \X Nat), position : Nat, landed : Int]

\* A mirror copies in order, so that offsets translate in order; each checkpoint is a
\* translated offset; and a group lands on a checkpoint at or before its position.
Mirror ==
  /\ obj \in MirrorRecord
  /\ \A i, j \in 1 .. Len(obj.translation) : i < j => obj.translation[i] < obj.translation[j]
  /\ \A i \in 1 .. Len(obj.translation) : obj.translation[i] < obj.dest_next
  /\ \A k \in 1 .. Len(obj.checkpoints) :
       /\ obj.checkpoints[k][1] < Len(obj.translation)
       /\ obj.checkpoints[k][2] = obj.translation[obj.checkpoints[k][1] + 1]
  /\ obj.landed # -1 =>
       \E k \in 1 .. Len(obj.checkpoints) :
         obj.checkpoints[k][2] = obj.landed /\ obj.checkpoints[k][1] <= obj.position

\* The parts of a mirror's invariant.
LEMMA MirrorFields ==
  ASSUME Mirror
  PROVE  /\ obj \in MirrorRecord /\ obj.source_end \in Nat /\ obj.translation \in Seq(Nat)
         /\ Len(obj.translation) \in Nat /\ obj.dest_next \in Nat /\ obj.position \in Nat
         /\ obj.checkpoints \in Seq(Nat \X Nat) /\ Len(obj.checkpoints) \in Nat
         /\ obj.landed \in Int
         /\ \A k \in 1 .. Len(obj.checkpoints) :
              obj.checkpoints[k][1] \in Nat /\ obj.checkpoints[k][2] \in Nat
<1>1. /\ obj \in MirrorRecord /\ obj.source_end \in Nat /\ obj.translation \in Seq(Nat)
      /\ Len(obj.translation) \in Nat /\ obj.dest_next \in Nat /\ obj.position \in Nat
      /\ obj.checkpoints \in Seq(Nat \X Nat) /\ Len(obj.checkpoints) \in Nat
      /\ obj.landed \in Int
  BY DEF Mirror, MirrorRecord
<1>2. \A k \in 1 .. Len(obj.checkpoints) : obj.checkpoints[k] \in Nat \X Nat
  BY <1>1, ElementOfSeq
<1> QED BY <1>1, <1>2

\* The source grows, its group reads on.
LEMMA MirrorReads ==
  ASSUME Mirror, Pipe!SourceAppend \/ Pipe!ConsumeSource
  PROVE  Mirror'
<1>0. obj \in MirrorRecord /\ obj.source_end \in Nat /\ obj.position \in Nat
  BY MirrorFields
<1>1. CASE Pipe!SourceAppend
  <2> DEFINE next == obj.source_end + 1
  <2>1. obj' = [obj EXCEPT !.source_end = next] /\ next \in Nat
    BY <1>0, <1>1 DEF Pipe!SourceAppend
  <2> HIDE DEF next
  <2>2. /\ obj' \in MirrorRecord /\ obj'.translation = obj.translation
        /\ obj'.dest_next = obj.dest_next /\ obj'.checkpoints = obj.checkpoints
        /\ obj'.position = obj.position /\ obj'.landed = obj.landed
    BY <1>0, <2>1 DEF MirrorRecord
  <2> QED BY <2>2 DEF Mirror
<1>2. CASE Pipe!ConsumeSource
  <2> DEFINE next == obj.position + 1
  <2>1. obj' = [obj EXCEPT !.position = next] /\ next \in Nat /\ obj.landed = -1
    BY <1>0, <1>2 DEF Pipe!ConsumeSource
  <2> HIDE DEF next
  <2>2. /\ obj' \in MirrorRecord /\ obj'.translation = obj.translation
        /\ obj'.dest_next = obj.dest_next /\ obj'.checkpoints = obj.checkpoints
        /\ obj'.landed = obj.landed
    BY <1>0, <2>1 DEF MirrorRecord
  <2> QED BY <2>1, <2>2 DEF Mirror
<1> QED BY <1>1, <1>2

\* A record copied.
LEMMA MirrorCopies ==
  ASSUME Mirror, NEW extra \in 0 .. 1, Pipe!CopyRecord(extra)
  PROVE  Mirror'
<1> DEFINE at == obj.dest_next + extra
           next == obj.dest_next + extra + 1
           len == Len(obj.translation)
           translation == Append(obj.translation, at)
<1>0. obj \in MirrorRecord
  BY MirrorFields
<1>1. obj' = [obj EXCEPT !.translation = translation, !.dest_next = next]
  BY DEF Pipe!CopyRecord
<1>2. at \in Nat /\ next \in Nat /\ obj.dest_next <= at /\ at < next /\ len \in Nat
  BY MirrorFields
<1>3. obj.translation \in Seq(Nat) /\ obj.checkpoints \in Seq(Nat \X Nat)
  BY MirrorFields
<1> HIDE DEF at, next
<1>4. /\ translation \in Seq(Nat) /\ Len(translation) = len + 1
      /\ translation[len + 1] = at
      /\ \A i \in 1 .. len : translation[i] = obj.translation[i] /\ translation[i] \in Nat
  <2>1. /\ translation \in Seq(Nat) /\ Len(translation) = len + 1
        /\ translation[len + 1] = at /\ \A i \in 1 .. len : translation[i] = obj.translation[i]
    BY <1>2, <1>3, AppendProperties
  <2>2. \A i \in 1 .. len : obj.translation[i] \in Nat
    BY <1>3, ElementOfSeq
  <2> QED BY <2>1, <2>2
<1>4b. obj.dest_next \in Nat
  BY MirrorFields
<1> HIDE DEF translation
<1>5. /\ obj' \in MirrorRecord /\ obj'.translation = translation /\ obj'.dest_next = next
      /\ obj'.checkpoints = obj.checkpoints /\ obj'.position = obj.position
      /\ obj'.landed = obj.landed
  BY <1>0, <1>1, <1>2, <1>4 DEF MirrorRecord
<1>6. \A i \in 1 .. len : translation[i] < obj.dest_next
  BY <1>4 DEF Mirror
<1>7. \A i \in 1 .. len + 1 : i \in 1 .. len \/ i = len + 1
  BY <1>2
<1>8. \A i \in 1 .. len + 1 : translation[i] < next
  <2> SUFFICES ASSUME NEW i \in 1 .. len + 1 PROVE translation[i] < next
    OBVIOUS
  <2>1. CASE i = len + 1
    BY <1>2, <1>4, <2>1
  <2>2. CASE i \in 1 .. len
    <3>1. translation[i] \in Nat /\ translation[i] < obj.dest_next
      BY <1>4, <1>6, <2>2
    <3> QED BY <1>2, <1>4b, <3>1
  <2> QED BY <1>7, <2>1, <2>2
<1>9. ASSUME NEW i \in 1 .. len + 1, NEW j \in 1 .. len + 1, i < j
      PROVE  translation[i] < translation[j]
  <2>1. i \in 1 .. len
    <3>1. i \in Int /\ j \in Int /\ i < j /\ 1 <= i /\ j <= len + 1
      BY <1>2, <1>9
    <3> QED BY <1>2, <3>1
  <2>2. CASE j = len + 1
    <3>1. translation[i] \in Nat /\ translation[i] < obj.dest_next
      BY <1>4, <1>6, <2>1
    <3>2. translation[j] = at
      BY <1>4, <2>2
    <3> QED BY <1>2, <1>4b, <3>1, <3>2
  <2>3. CASE j \in 1 .. len
    BY <1>4, <1>9, <2>1, <2>3 DEF Mirror
  <2> QED BY <1>7, <2>2, <2>3
<1>10. ASSUME NEW k \in 1 .. Len(obj.checkpoints)
       PROVE  /\ obj.checkpoints[k][1] < len + 1
              /\ obj.checkpoints[k][2] = translation[obj.checkpoints[k][1] + 1]
  <2>1. /\ obj.checkpoints[k][1] \in Nat /\ obj.checkpoints[k][1] < len
        /\ obj.checkpoints[k][2] = obj.translation[obj.checkpoints[k][1] + 1]
    BY MirrorFields DEF Mirror
  <2>2. obj.checkpoints[k][1] + 1 \in 1 .. len
    <3> DEFINE o == obj.checkpoints[k][1]
    <3>1. o \in Nat /\ len \in Nat /\ o < len
      BY <1>2, <2>1
    <3> HIDE DEF o, len
    <3>2. o + 1 \in 1 .. len
      BY <3>1
    <3> QED BY <3>2 DEF o
  <2>3. obj.checkpoints[k][1] < len + 1
    BY <1>2, <2>1
  <2> QED BY <1>4, <2>1, <2>2, <2>3
<1>11. Len(translation) = len + 1
  BY <1>4
<1> HIDE DEF len
<1> QED BY <1>5, <1>8, <1>9, <1>10, <1>11 DEF Mirror

\* A checkpoint added.
LEMMA MirrorMarks ==
  ASSUME Mirror, NEW o \in Nat, Pipe!AddCheckpoint(o)
  PROVE  Mirror'
<1> DEFINE mark == <<o, obj.translation[o + 1]>>
           len == Len(obj.checkpoints)
           checkpoints == Append(obj.checkpoints, mark)
<1>0. obj \in MirrorRecord
  BY MirrorFields
<1>1. obj' = [obj EXCEPT !.checkpoints = checkpoints] /\ o < Len(obj.translation)
  BY DEF Pipe!AddCheckpoint
<1>2. o + 1 \in 1 .. Len(obj.translation)
  <2>1. Len(obj.translation) \in Nat
    BY MirrorFields
  <2> QED BY <1>1, <2>1
<1>3. /\ mark \in Nat \X Nat /\ mark[1] = o /\ mark[2] = obj.translation[o + 1]
      /\ len \in Nat /\ obj.checkpoints \in Seq(Nat \X Nat)
  <2>1. /\ len \in Nat /\ obj.checkpoints \in Seq(Nat \X Nat)
        /\ obj.translation \in Seq(Nat)
    BY MirrorFields
  <2>2. obj.translation[o + 1] \in Nat
    BY <1>2, <2>1, ElementOfSeq
  <2> QED BY <2>1, <2>2
<1> HIDE DEF mark
<1>4. /\ checkpoints \in Seq(Nat \X Nat) /\ Len(checkpoints) = len + 1
      /\ checkpoints[len + 1] = mark
      /\ \A k \in 1 .. len : checkpoints[k] = obj.checkpoints[k]
  BY <1>3, AppendProperties
<1> HIDE DEF checkpoints
<1>5. /\ obj' \in MirrorRecord /\ obj'.translation = obj.translation
      /\ obj'.dest_next = obj.dest_next /\ obj'.checkpoints = checkpoints
      /\ obj'.position = obj.position /\ obj'.landed = obj.landed
  BY <1>0, <1>1, <1>4 DEF MirrorRecord
<1>6. \A k \in 1 .. len + 1 : k \in 1 .. len \/ k = len + 1
  BY <1>3
<1>7. ASSUME NEW k \in 1 .. len + 1
      PROVE  /\ checkpoints[k][1] < Len(obj.translation)
             /\ checkpoints[k][2] = obj.translation[checkpoints[k][1] + 1]
  BY <1>1, <1>3, <1>4, <1>6 DEF Mirror
<1>8. \A k \in 1 .. len : k \in 1 .. len + 1
  BY <1>3
<1>9. obj.landed # -1 =>
        \E k \in 1 .. len + 1 : checkpoints[k][2] = obj.landed /\ checkpoints[k][1] <= obj.position
  BY <1>4, <1>8 DEF Mirror
<1>10. Len(checkpoints) = len + 1
  BY <1>4
<1> HIDE DEF len
<1>11. /\ \A i, j \in 1 .. Len(obj.translation) : i < j => obj.translation[i] < obj.translation[j]
       /\ \A i \in 1 .. Len(obj.translation) : obj.translation[i] < obj.dest_next
  BY DEF Mirror
<1> QED BY <1>5, <1>7, <1>9, <1>10, <1>11 DEF Mirror

\* The group fails over.
LEMMA MirrorFailsOver ==
  ASSUME Mirror, Pipe!FailOver
  PROVE  Mirror'
<1> DEFINE before == {i \in DOMAIN obj.checkpoints : obj.checkpoints[i][1] <= obj.position}
           k == Pipe!Max(before)
           landed == obj.checkpoints[k][2]
<1>0. obj \in MirrorRecord
  BY MirrorFields
<1>1. /\ Pipe!Translate(obj, obj.position)[1] # -1
      /\ obj' = [obj EXCEPT !.landed = Pipe!Translate(obj, obj.position)[2]]
  BY DEF Pipe!FailOver
<1>2. Pipe!Translate(obj, obj.position) = IF before = {} THEN <<-1, -1>> ELSE obj.checkpoints[k]
  BY Zenon DEF Pipe!Translate
<1>3. before # {}
  BY <1>1, <1>2
<1>3b. Len(obj.checkpoints) \in Nat /\ DOMAIN obj.checkpoints = 1 .. Len(obj.checkpoints)
  <2>1. obj.checkpoints \in Seq(Nat \X Nat)
    BY MirrorFields
  <2> QED BY <2>1, LenProperties
<1>4. k \in before
  <2>1. before \in SUBSET Nat /\ \A y \in before : y <= Len(obj.checkpoints)
    BY <1>3b
  <2> HIDE DEF before
  <2>2. Max(before) \in before
    BY <1>3, <1>3b, <2>1, MaxOfNaturals
  <2>3. Pipe!Max(before) = Max(before)
    BY DEF Max, Pipe!Max
  <2> QED BY <2>2, <2>3
<1>5. k \in 1 .. Len(obj.checkpoints) /\ obj.checkpoints[k][1] <= obj.position
  <2> HIDE DEF k
  <2> QED BY <1>4, <1>3b
<1>6. obj' = [obj EXCEPT !.landed = landed]
  BY <1>1, <1>2, <1>3
<1>7. landed \in Nat /\ landed \in Int
  <2> HIDE DEF k
  <2>1. \A i \in 1 .. Len(obj.checkpoints) : obj.checkpoints[i][2] \in Nat
    BY MirrorFields
  <2> QED BY <1>5, <2>1
<1>8. \E i \in 1 .. Len(obj.checkpoints) :
        obj.checkpoints[i][2] = landed /\ obj.checkpoints[i][1] <= obj.position
  BY <1>5
<1> HIDE DEF landed, k, before
<1>9. /\ obj' \in MirrorRecord /\ obj'.translation = obj.translation
      /\ obj'.dest_next = obj.dest_next /\ obj'.checkpoints = obj.checkpoints
      /\ obj'.position = obj.position /\ obj'.landed = landed
  BY <1>0, <1>6, <1>7 DEF MirrorRecord
<1> QED BY <1>8, <1>9 DEF Mirror

\* Every step of a mirror keeps its invariant.
LEMMA MirrorStep ==
  ASSUME PipeConstants, Mirror, Pipe!MirrorNext
  PROVE  Mirror'
<1>1. 0 .. MaxItems \subseteq Nat
  BY DEF PipeConstants
<1> QED BY <1>1, MirrorReads, MirrorCopies, MirrorMarks, MirrorFailsOver, Zenon DEF Pipe!MirrorNext

----------------------------------------------------------------------------
\* A record in flight.
Flight == [at : Nat, acked : BOOLEAN]

\* The fields of a connector.
ConnectorRecord ==
  [class : {"connector"}, source : SUBSET Nat, inflight : Seq(Flight), committed : Int,
   latest_read : Int, target : SUBSET Nat]

\* A connector has in flight, in order, all that it read above its committed position;
\* what is acknowledged, and all up to that position, has arrived.
Connector ==
  /\ obj \in ConnectorRecord
  /\ obj.committed <= obj.latest_read
  /\ \A i \in 1 .. Len(obj.inflight) :
       /\ obj.inflight[i].at > obj.committed /\ obj.inflight[i].at <= obj.latest_read
       /\ obj.inflight[i].acked => obj.inflight[i].at \in obj.target
  /\ \A i, j \in 1 .. Len(obj.inflight) : i < j => obj.inflight[i].at < obj.inflight[j].at
  /\ \A p \in obj.source : obj.committed < p /\ p <= obj.latest_read =>
       \E i \in 1 .. Len(obj.inflight) : obj.inflight[i].at = p
  /\ \A p \in obj.source : p <= obj.committed => p \in obj.target

\* The parts of a connector's invariant.
LEMMA ConnectorFields ==
  ASSUME Connector
  PROVE  /\ obj \in ConnectorRecord /\ obj.source \in SUBSET Nat
         /\ obj.inflight \in Seq(Flight) /\ Len(obj.inflight) \in Nat
         /\ DOMAIN obj.inflight = 1 .. Len(obj.inflight)
         /\ obj.committed \in Int /\ obj.latest_read \in Int /\ obj.committed <= obj.latest_read
         /\ obj.target \in SUBSET Nat
         /\ \A i \in 1 .. Len(obj.inflight) :
              /\ obj.inflight[i] \in Flight /\ obj.inflight[i].at \in Nat
              /\ obj.inflight[i].acked \in BOOLEAN
<1>1. /\ obj \in ConnectorRecord /\ obj.source \in SUBSET Nat
      /\ obj.inflight \in Seq(Flight) /\ obj.committed \in Int /\ obj.latest_read \in Int
      /\ obj.committed <= obj.latest_read /\ obj.target \in SUBSET Nat
  BY DEF Connector, ConnectorRecord
<1>2. Len(obj.inflight) \in Nat /\ DOMAIN obj.inflight = 1 .. Len(obj.inflight)
  BY <1>1, LenProperties
<1>3. \A i \in 1 .. Len(obj.inflight) : obj.inflight[i] \in Flight
  BY <1>1, ElementOfSeq
<1>4. \A f \in Flight : f.at \in Nat /\ f.acked \in BOOLEAN
  BY DEF Flight
<1> QED BY <1>1, <1>2, <1>3, <1>4

\* A position read.
LEMMA ConnectorReads ==
  ASSUME Connector, NEW p \in Nat, Pipe!ReadPosition(p)
  PROVE  Connector'
<1> DEFINE len == Len(obj.inflight)
           new == [at |-> p, acked |-> FALSE]
           inflight == Append(obj.inflight, new)
<1>0. obj \in ConnectorRecord
  BY ConnectorFields
<1>1. /\ p \in obj.source /\ p > obj.latest_read
      /\ ~ \E q \in obj.source : q > obj.latest_read /\ q < p
      /\ obj' = [obj EXCEPT !.inflight = inflight, !.latest_read = p]
  BY DEF Pipe!ReadPosition
<1>2. /\ obj.inflight \in Seq(Flight) /\ len \in Nat /\ obj.source \in SUBSET Nat
      /\ obj.committed \in Int /\ obj.latest_read \in Int /\ obj.committed <= obj.latest_read
      /\ \A i \in 1 .. len : obj.inflight[i].at \in Nat
  BY ConnectorFields
<1>3. new \in Flight /\ new.at = p /\ new.acked = FALSE
  BY DEF Flight
<1> HIDE DEF new
<1>4. /\ inflight \in Seq(Flight) /\ Len(inflight) = len + 1 /\ inflight[len + 1] = new
      /\ \A i \in 1 .. len : inflight[i] = obj.inflight[i]
  BY <1>2, <1>3, AppendProperties
<1> HIDE DEF inflight
<1>5. /\ obj' \in ConnectorRecord /\ obj'.source = obj.source /\ obj'.inflight = inflight
      /\ obj'.committed = obj.committed /\ obj'.latest_read = p /\ obj'.target = obj.target
  <2>1. p \in Int
    OBVIOUS
  <2> QED BY <1>0, <1>1, <1>4, <2>1 DEF ConnectorRecord
<1>6. \A i \in 1 .. len + 1 : i \in 1 .. len \/ i = len + 1
  BY <1>2
<1>7. \A i \in 1 .. len : i \in 1 .. len + 1
  BY <1>2
<1>8. obj.committed < p /\ obj.committed <= p
  BY <1>1, <1>2
<1>9. \A i \in 1 .. len :
        /\ obj.inflight[i].at > obj.committed /\ obj.inflight[i].at <= obj.latest_read
        /\ obj.inflight[i].acked => obj.inflight[i].at \in obj.target
  BY DEF Connector
<1>10. \A i \in 1 .. len : obj.inflight[i].at < p /\ obj.inflight[i].at <= p
  BY <1>1, <1>2, <1>9
<1>11. ASSUME NEW i \in 1 .. len + 1
       PROVE  /\ inflight[i].at > obj.committed /\ inflight[i].at <= p
              /\ inflight[i].acked => inflight[i].at \in obj.target
  <2>1. CASE i = len + 1
    BY <1>3, <1>4, <1>8, <2>1
  <2>2. CASE i \in 1 .. len
    BY <1>4, <1>9, <1>10, <2>2
  <2> QED BY <1>6, <2>1, <2>2
<1>12. ASSUME NEW i \in 1 .. len + 1, NEW j \in 1 .. len + 1, i < j
       PROVE  inflight[i].at < inflight[j].at
  <2>1. i \in 1 .. len
    <3>1. i \in Int /\ j \in Int /\ i < j /\ 1 <= i /\ j <= len + 1
      BY <1>2, <1>12
    <3> QED BY <1>2, <3>1
  <2>2. CASE j = len + 1
    BY <1>3, <1>4, <1>10, <2>1, <2>2
  <2>3. CASE j \in 1 .. len
    BY <1>4, <1>12, <2>1, <2>3 DEF Connector
  <2> QED BY <1>6, <2>2, <2>3
<1>13. ASSUME NEW q \in obj.source, obj.committed < q, q <= p
       PROVE  \E i \in 1 .. len + 1 : inflight[i].at = q
  <2>1. q \in Nat /\ ~ (q > obj.latest_read /\ q < p)
    BY <1>1, <1>2
  <2>2. q = p \/ q <= obj.latest_read
    BY <1>2, <1>13, <2>1
  <2>3. CASE q = p
    <3>1. len + 1 \in 1 .. len + 1
      BY <1>2
    <3> QED BY <1>3, <1>4, <2>3, <3>1
  <2>4. CASE q <= obj.latest_read
    <3>1. PICK i \in 1 .. len : obj.inflight[i].at = q
      BY <1>13, <2>4 DEF Connector
    <3> QED BY <1>4, <1>7, <3>1
  <2> QED BY <2>2, <2>3, <2>4
<1>14. \A q \in obj.source : q <= obj.committed => q \in obj.target
  BY DEF Connector
<1>15. Len(inflight) = len + 1
  BY <1>4
<1> HIDE DEF len
<1> QED BY <1>5, <1>8, <1>11, <1>12, <1>13, <1>14, <1>15 DEF Connector

\* The other system takes a record.
LEMMA ConnectorDelivers ==
  ASSUME Connector, NEW i, Pipe!Deliver(i)
  PROVE  Connector'
<1> DEFINE target == obj.target \cup {obj.inflight[i].at}
<1>0. obj \in ConnectorRecord
  BY ConnectorFields
<1>1. i \in DOMAIN obj.inflight /\ obj' = [obj EXCEPT !.target = target]
  BY DEF Pipe!Deliver
<1>2. target \in SUBSET Nat /\ obj.target \subseteq target
  <2>1. i \in 1 .. Len(obj.inflight)
    BY <1>1, ConnectorFields
  <2>2. obj.inflight[i].at \in Nat /\ obj.target \in SUBSET Nat
    BY <2>1, ConnectorFields
  <2> QED BY <2>2
<1> HIDE DEF target
<1>3. /\ obj' \in ConnectorRecord /\ obj'.source = obj.source /\ obj'.inflight = obj.inflight
      /\ obj'.committed = obj.committed /\ obj'.latest_read = obj.latest_read
      /\ obj'.target = target
  BY <1>0, <1>1, <1>2 DEF ConnectorRecord
<1> QED BY <1>2, <1>3 DEF Connector

\* An acknowledgement.
LEMMA ConnectorAcknowledges ==
  ASSUME Connector, NEW i, Pipe!AcknowledgeAt(i)
  PROVE  Connector'
<1> DEFINE new == [obj.inflight[i] EXCEPT !.acked = TRUE]
           inflight == [obj.inflight EXCEPT ![i] = new]
           len == Len(obj.inflight)
<1>0. obj \in ConnectorRecord
  BY ConnectorFields
<1>1. /\ i \in DOMAIN obj.inflight /\ obj.inflight[i].at \in obj.target
      /\ obj' = [obj EXCEPT !.inflight[i].acked = TRUE]
  BY DEF Pipe!AcknowledgeAt
<1>2. i \in 1 .. len /\ obj.inflight \in Seq(Flight) /\ obj.inflight[i] \in Flight
  BY <1>1, ConnectorFields
<1>3. obj' = [obj EXCEPT !.inflight = inflight]
  BY <1>1
<1>4. new \in Flight /\ new.at = obj.inflight[i].at
  BY <1>2 DEF Flight
<1> HIDE DEF new
<1>5. /\ inflight \in Seq(Flight) /\ Len(inflight) = len
      /\ \A j \in 1 .. len : inflight[j] = IF j = i THEN new ELSE obj.inflight[j]
  BY <1>2, <1>4, ExceptSeq
<1> HIDE DEF inflight
<1>6. /\ obj' \in ConnectorRecord /\ obj'.source = obj.source /\ obj'.inflight = inflight
      /\ obj'.committed = obj.committed /\ obj'.latest_read = obj.latest_read
      /\ obj'.target = obj.target
  BY <1>0, <1>3, <1>5 DEF ConnectorRecord
<1>7. \A j \in 1 .. len : inflight[j].at = obj.inflight[j].at
  BY <1>4, <1>5
<1>8. \A j \in 1 .. len : inflight[j].acked => obj.inflight[j].at \in obj.target
  <2> SUFFICES ASSUME NEW j \in 1 .. len, inflight[j].acked
               PROVE  obj.inflight[j].at \in obj.target
    OBVIOUS
  <2>1. CASE j = i
    BY <1>1, <2>1
  <2>2. CASE j # i
    <3>1. obj.inflight[j].acked
      BY <1>5, <2>2
    <3> QED BY <3>1 DEF Connector
  <2> QED BY <2>1, <2>2
<1>9. Len(inflight) = len
  BY <1>5
<1>10. /\ obj.committed <= obj.latest_read
       /\ \A j \in 1 .. len :
            obj.inflight[j].at > obj.committed /\ obj.inflight[j].at <= obj.latest_read
       /\ \A j, k \in 1 .. len : j < k => obj.inflight[j].at < obj.inflight[k].at
       /\ \A p \in obj.source : obj.committed < p /\ p <= obj.latest_read =>
            \E k \in 1 .. len : obj.inflight[k].at = p
       /\ \A p \in obj.source : p <= obj.committed => p \in obj.target
  BY DEF Connector
<1> HIDE DEF len
<1> QED BY <1>6, <1>7, <1>8, <1>9, <1>10, SMTT(30) DEF Connector

\* Nothing in flight after a restart.
LEMMA ConnectorResumes ==
  ASSUME Connector, Pipe!ResumeFrom
  PROVE  Connector'
<1> DEFINE inflight == <<>>
<1>0. obj \in ConnectorRecord /\ obj.committed \in Int /\ obj.source \in SUBSET Nat
  BY ConnectorFields
<1>1. obj' = [obj EXCEPT !.inflight = inflight, !.latest_read = obj.committed]
  BY DEF Pipe!ResumeFrom
<1>2. inflight \in Seq(Flight) /\ Len(inflight) = 0
  BY EmptySeq
<1> HIDE DEF inflight
<1>3. /\ obj' \in ConnectorRecord /\ obj'.source = obj.source /\ obj'.inflight = inflight
      /\ obj'.committed = obj.committed /\ obj'.latest_read = obj.committed
      /\ obj'.target = obj.target
  BY <1>0, <1>1, <1>2 DEF ConnectorRecord
<1>4. obj.committed <= obj.committed /\ \A i \in 1 .. 0 : FALSE
  BY <1>0
<1>5. \A p \in obj.source : ~ (obj.committed < p /\ p <= obj.committed)
  BY <1>0
<1>6. \A p \in obj.source : p <= obj.committed => p \in obj.target
  BY DEF Connector
<1> QED BY <1>2, <1>3, <1>4, <1>5, <1>6 DEF Connector

\* The acknowledged prefix committed: what it covers has arrived.
LEMMA ConnectorCommits ==
  ASSUME Connector, Pipe!CommitPrefix
  PROVE  Connector'
<1> DEFINE len == Len(obj.inflight)
           S == {n \in 0 .. len : \A i \in 1 .. n : obj.inflight[i].acked}
           n == Pipe!AckedPrefix(obj.inflight)
           inflight == SubSeq(obj.inflight, n + 1, len)
           newCommitted == obj.inflight[n].at
<1>0. obj \in ConnectorRecord
  BY ConnectorFields
<1>1. n > 0 /\ obj' = [obj EXCEPT !.committed = newCommitted, !.inflight = inflight]
  BY DEF Pipe!CommitPrefix
<1>2. /\ obj.inflight \in Seq(Flight) /\ len \in Nat /\ obj.source \in SUBSET Nat
      /\ obj.committed \in Int /\ obj.latest_read \in Int /\ obj.committed <= obj.latest_read
  BY ConnectorFields
<1>3. n \in S
  <2>1. n = Max(S)
    BY DEF Pipe!AckedPrefix, Max, Pipe!Max
  <2>2. S \in SUBSET Nat /\ 0 \in S /\ \A y \in S : y <= len
    BY <1>2
  <2> HIDE DEF S, n
  <2> QED BY <1>2, <2>1, <2>2, MaxOfNaturals
<1> HIDE DEF n
<1>4. n \in 1 .. len /\ n \in Nat /\ \A i \in 1 .. n : obj.inflight[i].acked
  BY <1>1, <1>2, <1>3
<1> HIDE DEF S
<1>5. /\ \A i \in 1 .. len : /\ obj.inflight[i] \in Flight /\ obj.inflight[i].at \in Nat
                             /\ obj.inflight[i].at > obj.committed
                             /\ obj.inflight[i].at <= obj.latest_read
                             /\ obj.inflight[i].acked => obj.inflight[i].at \in obj.target
      /\ \A i, j \in 1 .. len : i < j => obj.inflight[i].at < obj.inflight[j].at
  BY ConnectorFields DEF Connector
<1>6. newCommitted \in Nat /\ newCommitted \in Int /\ newCommitted <= obj.latest_read
      /\ obj.committed < newCommitted
  BY <1>4, <1>5
<1>7. /\ inflight \in Seq(Flight) /\ Len(inflight) = len - n
      /\ \A i \in 1 .. len - n : n + i \in 1 .. len /\ inflight[i] = obj.inflight[n + i]
  <2>1. n + 1 \in Int /\ len \in Int /\ n + 1 .. len \subseteq 1 .. len
    BY <1>2, <1>4
  <2>2. \A i \in n + 1 .. len : obj.inflight[i] \in Flight
    BY <1>5, <2>1
  <2>3. /\ inflight \in Seq(Flight)
        /\ Len(inflight) = IF n + 1 <= len THEN len - (n + 1) + 1 ELSE 0
        /\ \A i \in 1 .. len - (n + 1) + 1 : inflight[i] = obj.inflight[n + 1 + i - 1]
    BY <2>1, <2>2, SubSeqProperties
  <2>4. len - (n + 1) + 1 = len - n /\ (~ (n + 1 <= len) => len - n = 0)
    BY <1>2, <1>4
  <2>5. \A i \in 1 .. len - n : n + 1 + i - 1 = n + i /\ n + i \in 1 .. len
    BY <1>2, <1>4
  <2> HIDE DEF inflight
  <2> QED BY <2>3, <2>4, <2>5
<1> HIDE DEF inflight
<1>8. /\ obj' \in ConnectorRecord /\ obj'.source = obj.source /\ obj'.inflight = inflight
      /\ obj'.committed = newCommitted /\ obj'.latest_read = obj.latest_read
      /\ obj'.target = obj.target
  <2> HIDE DEF newCommitted
  <2> QED BY <1>0, <1>1, <1>6, <1>7 DEF ConnectorRecord
<1>9. \A i \in 1 .. len - n : n < n + i
  BY <1>2, <1>4
<1>10. ASSUME NEW i \in 1 .. len - n
       PROVE  /\ inflight[i].at > newCommitted /\ inflight[i].at <= obj.latest_read
              /\ inflight[i].acked => inflight[i].at \in obj.target
  <2>1. n + i \in 1 .. len /\ inflight[i] = obj.inflight[n + i] /\ n < n + i
    BY <1>7, <1>9
  <2>2. obj.inflight[n].at < obj.inflight[n + i].at
    BY <1>4, <1>5, <2>1
  <2>3. obj.inflight[n + i].at \in Nat /\ obj.inflight[n].at \in Nat
    BY <1>4, <1>5, <2>1
  <2>4. obj.inflight[n + i].at > obj.inflight[n].at
    BY <2>2, <2>3
  <2> QED BY <1>5, <2>1, <2>4
<1>11. ASSUME NEW i \in 1 .. len - n, NEW j \in 1 .. len - n, i < j
       PROVE  inflight[i].at < inflight[j].at
  <2>1. /\ n + i \in 1 .. len /\ inflight[i] = obj.inflight[n + i]
        /\ n + j \in 1 .. len /\ inflight[j] = obj.inflight[n + j]
    BY <1>7
  <2>2. n + i < n + j
    BY <1>2, <1>4, <1>11
  <2> QED BY <1>5, <2>1, <2>2
<1>12. ASSUME NEW p \in obj.source, obj.committed < p, p <= obj.latest_read
       PROVE  \E i \in 1 .. len : obj.inflight[i].at = p
  BY <1>12 DEF Connector
<1>13. ASSUME NEW p \in obj.source, newCommitted < p, p <= obj.latest_read
       PROVE  \E i \in 1 .. len - n : inflight[i].at = p
  <2>1. p \in Nat /\ obj.committed < p
    BY <1>2, <1>6, <1>13
  <2>2. PICK i \in 1 .. len : obj.inflight[i].at = p
    BY <1>12, <1>13, <2>1
  <2>3. i > n
    <3>1. ~ (i = n)
      BY <1>6, <1>13, <2>1, <2>2
    <3>2. ~ (i < n)
      <4> SUFFICES ASSUME i < n PROVE FALSE
        OBVIOUS
      <4>1. obj.inflight[i].at < obj.inflight[n].at
        BY <1>4, <1>5
      <4> QED BY <1>6, <1>13, <2>1, <2>2, <4>1
    <3> QED BY <1>4, <3>1, <3>2
  <2>4. i - n \in 1 .. len - n /\ n + (i - n) = i
    BY <1>2, <1>4, <2>3
  <2>5. inflight[i - n] = obj.inflight[i]
    BY <1>7, <2>4
  <2> QED BY <2>2, <2>4, <2>5
<1>14. ASSUME NEW p \in obj.source, p <= newCommitted
       PROVE  p \in obj.target
  <2>1. p \in Nat
    BY <1>2
  <2>2. CASE p <= obj.committed
    BY <2>2 DEF Connector
  <2>3. CASE ~ (p <= obj.committed)
    <3>1. obj.committed < p /\ p <= obj.latest_read
      BY <1>2, <1>6, <1>14, <2>1, <2>3
    <3>2. PICK i \in 1 .. len : obj.inflight[i].at = p
      BY <1>12, <3>1
    <3>3. ~ (n < i)
      <4> SUFFICES ASSUME n < i PROVE FALSE
        OBVIOUS
      <4>1. obj.inflight[n].at < obj.inflight[i].at
        BY <1>4, <1>5
      <4> QED BY <1>6, <1>14, <2>1, <3>2, <4>1
    <3>4. i \in 1 .. n
      BY <1>4, <3>3
    <3> QED BY <1>4, <1>5, <3>2, <3>4
  <2> QED BY <2>2, <2>3
<1>15. Len(inflight) = len - n
  BY <1>7
<1> HIDE DEF len, newCommitted
<1> QED BY <1>6, <1>8, <1>10, <1>11, <1>13, <1>14, <1>15 DEF Connector

\* Every step of a connector keeps its invariant.
LEMMA ConnectorStep ==
  ASSUME PipeConstants, Connector, Pipe!ConnectorNext
  PROVE  Connector'
<1>1. 0 .. MaxItems \subseteq Nat
  BY DEF PipeConstants
<1> QED BY <1>1, ConnectorReads, ConnectorDelivers, ConnectorAcknowledges, ConnectorResumes,
           ConnectorCommits, Zenon DEF Pipe!ConnectorNext

----------------------------------------------------------------------------
\* What the consumer did.
Act == [row : Nat, at : Nat]

\* The fields of an outbox with its consumer.
OutboxRecord ==
  [class : {"outbox"}, rows : Nat, published : SUBSET Nat, topic : Seq(Nat), position : Nat,
   seen : [1 .. MaxItems -> Int], acted : Seq(Act), now : Nat]

\* Row r was acted upon.
WasActed(r, acted) == \E a \in 1 .. Len(acted) : acted[a].row = r

\* The relay: a marked row is in the topic, and a row follows all earlier rows there.
Relayed ==
  /\ obj.rows <= MaxItems
  /\ \A r \in obj.published : Occurs(r, obj.topic)
  /\ \A i \in 1 .. Len(obj.topic) : obj.topic[i] \in 1 .. obj.rows
  /\ \A i \in 1 .. Len(obj.topic) : \A r \in 1 .. obj.topic[i] :
       \E j \in 1 .. i : obj.topic[j] = r

\* The memory of the consumer: a row it remembers was acted upon and is remembered since
\* then; a row it forgot was last acted upon a whole window ago.
Memory(seen, acted) ==
  /\ \A r \in 1 .. MaxItems : seen[r] # -1 => WasActed(r, acted)
  /\ \A i \in 1 .. Len(acted) :
       /\ acted[i].row \in 1 .. MaxItems /\ acted[i].at <= obj.now
       /\ seen[acted[i].row] = -1 => obj.now - acted[i].at >= DedupWindow
       /\ seen[acted[i].row] # -1 => acted[i].at <= seen[acted[i].row]

\* What the consumer did: each row after all earlier ones, and again only after a window.
InTurn(acted) ==
  /\ \A i \in 1 .. Len(acted) : \A r \in 1 .. acted[i].row : \E j \in 1 .. i : acted[j].row = r
  /\ \A i, j \in 1 .. Len(acted) :
       i < j /\ acted[i].row = acted[j].row => acted[j].at - acted[i].at >= DedupWindow

\* The outbox and its consumer.
Outbox ==
  /\ obj \in OutboxRecord
  /\ Relayed
  /\ obj.position <= Len(obj.topic)
  /\ \A k \in 1 .. obj.position : WasActed(obj.topic[k], obj.acted)
  /\ Memory(obj.seen, obj.acted)
  /\ InTurn(obj.acted)

\* The fields of an outbox and their types.
LEMMA OutboxFields ==
  ASSUME PipeConstants, Outbox
  PROVE  /\ obj \in OutboxRecord /\ obj.rows \in Nat /\ obj.published \in SUBSET Nat
         /\ obj.topic \in Seq(Nat) /\ Len(obj.topic) \in Nat
         /\ DOMAIN obj.topic = 1 .. Len(obj.topic)
         /\ obj.position \in Nat /\ obj.position <= Len(obj.topic)
         /\ obj.seen \in [1 .. MaxItems -> Int] /\ obj.now \in Nat
         /\ obj.acted \in Seq(Act) /\ Len(obj.acted) \in Nat
         /\ DOMAIN obj.acted = 1 .. Len(obj.acted)
         /\ MaxItems \in Nat /\ DedupWindow \in Nat /\ DedupWindow > 0
         /\ \A i \in 1 .. Len(obj.topic) : obj.topic[i] \in Nat
         /\ \A i \in 1 .. Len(obj.acted) :
              obj.acted[i] \in Act /\ obj.acted[i].row \in Nat /\ obj.acted[i].at \in Nat
<1>1. /\ obj \in OutboxRecord /\ obj.rows \in Nat /\ obj.published \in SUBSET Nat
      /\ obj.topic \in Seq(Nat) /\ obj.position \in Nat /\ obj.position <= Len(obj.topic)
      /\ obj.seen \in [1 .. MaxItems -> Int] /\ obj.now \in Nat /\ obj.acted \in Seq(Act)
  BY DEF Outbox, OutboxRecord
<1>2. /\ Len(obj.topic) \in Nat /\ DOMAIN obj.topic = 1 .. Len(obj.topic)
      /\ Len(obj.acted) \in Nat /\ DOMAIN obj.acted = 1 .. Len(obj.acted)
  BY <1>1, LenProperties
<1>3. /\ \A i \in 1 .. Len(obj.topic) : obj.topic[i] \in Nat
      /\ \A i \in 1 .. Len(obj.acted) : obj.acted[i] \in Act
  BY <1>1, ElementOfSeq
<1>4. \A a \in Act : a.row \in Nat /\ a.at \in Nat
  BY DEF Act
<1>5. MaxItems \in Nat /\ DedupWindow \in Nat /\ DedupWindow > 0
  BY DEF PipeConstants
<1> QED BY <1>1, <1>2, <1>3, <1>4, <1>5

\* A row enqueued, and a publish that never arrived.
LEMMA OutboxEnqueues ==
  ASSUME PipeConstants, Outbox, Pipe!EnqueueRow \/ Pipe!PublishLost
  PROVE  Outbox'
<1>0. obj \in OutboxRecord
  BY OutboxFields
<1>1. CASE Pipe!EnqueueRow
  <2> DEFINE next == obj.rows + 1
  <2>1. obj' = [obj EXCEPT !.rows = next] /\ obj.rows < MaxItems
    BY <1>1 DEF Pipe!EnqueueRow
  <2>2. next \in Nat /\ next <= MaxItems /\ 1 .. obj.rows \subseteq 1 .. next
    <3>1. obj.rows \in Nat /\ MaxItems \in Nat
      BY OutboxFields
    <3> QED BY <2>1, <3>1
  <2> HIDE DEF next
  <2>3. /\ obj' \in OutboxRecord /\ obj'.rows = next /\ obj'.published = obj.published
        /\ obj'.topic = obj.topic /\ obj'.position = obj.position /\ obj'.seen = obj.seen
        /\ obj'.acted = obj.acted /\ obj'.now = obj.now
    BY <1>0, <2>1, <2>2 DEF OutboxRecord
  <2>4. Relayed'
    BY <2>2, <2>3 DEF Outbox, Relayed
  <2>5. Memory(obj.seen, obj.acted)'
    BY <2>3, Zenon DEF Outbox, Memory
  <2>6. InTurn(obj.acted)'
    BY <2>3 DEF Outbox
  <2> QED BY <2>3, <2>4, <2>5, <2>6 DEF Outbox
<1>2. CASE Pipe!PublishLost
  <2>1. obj' = obj
    BY <1>2 DEF Pipe!PublishLost
  <2> QED BY <2>1 DEF Outbox, Relayed, Memory, InTurn
<1> QED BY <1>1, <1>2

\* The oldest unpublished row published.
LEMMA OutboxPublishes ==
  ASSUME PipeConstants, Outbox, NEW acked \in BOOLEAN, Pipe!PublishNext(acked)
  PROVE  Outbox'
<1> DEFINE rest == Pipe!Unpublished(obj)
           row == Pipe!Min(rest)
           len == Len(obj.topic)
           topic == Append(obj.topic, row)
           published == IF acked THEN obj.published \cup {row} ELSE obj.published
<1>0. obj \in OutboxRecord
  BY OutboxFields
<1>1. rest # {} /\ obj' = [obj EXCEPT !.topic = topic, !.published = published]
  BY DEF Pipe!PublishNext
<1>2. /\ obj.rows \in Nat /\ obj.topic \in Seq(Nat) /\ len \in Nat /\ obj.published \in SUBSET Nat
      /\ obj.position \in Nat /\ obj.position <= len
  BY OutboxFields
<1>3. rest = (1 .. obj.rows) \ obj.published
  BY DEF Pipe!Unpublished
<1>4. row \in rest /\ \A y \in rest : row <= y
  <2>1. rest \in SUBSET Nat
    BY <1>2, <1>3
  <2>2. row = Min(rest)
    BY DEF Min, Pipe!Min
  <2> HIDE DEF rest, row
  <2> QED BY <1>1, <2>1, <2>2, MinOfNaturals
<1> HIDE DEF row
<1>5. row \in Nat /\ row \in 1 .. obj.rows
  BY <1>2, <1>3, <1>4
<1>6. \A r \in 1 .. row : r = row \/ r \in obj.published
  <2> SUFFICES ASSUME NEW r \in 1 .. row, r # row PROVE r \in obj.published
    OBVIOUS
  <2>1. r \in 1 .. obj.rows /\ ~ (row <= r)
    BY <1>2, <1>5
  <2> QED BY <1>3, <1>4, <2>1
<1> HIDE DEF rest
<1>7. /\ topic \in Seq(Nat) /\ Len(topic) = len + 1 /\ topic[len + 1] = row
      /\ \A i \in 1 .. len : topic[i] = obj.topic[i]
  BY <1>2, <1>5, AppendProperties
<1>8. \A x : x = row \/ Occurs(x, obj.topic) => Occurs(x, topic)
  BY <1>2, <1>5, OccursInAppend
<1> HIDE DEF topic
<1>9. published \in SUBSET Nat /\ \A r \in published : r = row \/ r \in obj.published
  BY <1>2, <1>5
<1> HIDE DEF published
<1>10. /\ obj' \in OutboxRecord /\ obj'.rows = obj.rows /\ obj'.published = published
       /\ obj'.topic = topic /\ obj'.position = obj.position /\ obj'.seen = obj.seen
       /\ obj'.acted = obj.acted /\ obj'.now = obj.now
  BY <1>0, <1>1, <1>7, <1>9 DEF OutboxRecord
<1>11. \A i \in 1 .. len + 1 : i \in 1 .. len \/ i = len + 1
  BY <1>2
<1>12. \A r \in published : Occurs(r, topic)
  BY <1>8, <1>9 DEF Outbox, Relayed
<1>13. \A i \in 1 .. len + 1 : topic[i] \in 1 .. obj.rows
  BY <1>5, <1>7, <1>11 DEF Outbox, Relayed
<1>14. ASSUME NEW i \in 1 .. len + 1, NEW r \in 1 .. topic[i]
       PROVE  \E j \in 1 .. i : topic[j] = r
  <2>1. CASE i \in 1 .. len
    <3>1. topic[i] = obj.topic[i]
      BY <1>7, <2>1
    <3>2. PICK j \in 1 .. i : obj.topic[j] = r
      BY <2>1, <3>1 DEF Outbox, Relayed
    <3>3. j \in 1 .. len
      BY <1>2, <2>1
    <3> QED BY <1>7, <3>2, <3>3
  <2>2. CASE i = len + 1
    <3>1. r \in 1 .. row
      BY <1>7, <2>2
    <3>2. CASE r = row
      <4>1. len + 1 \in 1 .. i
        BY <1>2, <2>2
      <4> QED BY <1>7, <3>2, <4>1
    <3>3. CASE r \in obj.published
      <4>1. PICK j \in 1 .. len : obj.topic[j] = r
        BY <3>3 DEF Outbox, Relayed, Occurs
      <4>2. j \in 1 .. i
        BY <1>2, <2>2
      <4> QED BY <1>7, <4>1, <4>2
    <3> QED BY <1>6, <3>1, <3>2, <3>3
  <2> QED BY <1>11, <2>1, <2>2
<1>15. \A k \in 1 .. obj.position : topic[k] = obj.topic[k]
  <2>1. \A k \in 1 .. obj.position : k \in 1 .. len
    BY <1>2
  <2> QED BY <1>7, <2>1
<1>16. Len(topic) = len + 1 /\ obj.position <= len + 1
  BY <1>2, <1>7
<1> HIDE DEF len
<1>17. obj.rows <= MaxItems
  BY DEF Outbox, Relayed
<1>18. Relayed'
  BY <1>10, <1>12, <1>13, <1>14, <1>16, <1>17 DEF Relayed
<1>19. Memory(obj.seen, obj.acted)' /\ InTurn(obj.acted)'
  BY <1>10 DEF Outbox, Memory, InTurn
<1>20. \A k \in 1 .. obj.position : WasActed(topic[k], obj.acted)
  BY <1>15 DEF Outbox
<1> QED BY <1>10, <1>16, <1>18, <1>19, <1>20 DEF Outbox

\* The consumer goes back, and time passes.
LEMMA OutboxWaits ==
  ASSUME PipeConstants, Outbox,
         Pipe!OutboxTick \/ \E to \in 0 .. MaxOutput : Pipe!Rewind(to)
  PROVE  Outbox'
<1>0. /\ obj \in OutboxRecord /\ obj.position \in Nat /\ obj.position <= Len(obj.topic)
      /\ Len(obj.topic) \in Nat /\ obj.now \in Nat
      /\ MaxItems \in Nat /\ DedupWindow \in Nat
      /\ \A i \in 1 .. Len(obj.acted) : obj.acted[i].at \in Nat
  BY OutboxFields
<1>1. ASSUME NEW to \in 0 .. MaxOutput, Pipe!Rewind(to) PROVE Outbox'
  <2>1. obj' = [obj EXCEPT !.position = to] /\ to < obj.position
    BY <1>1 DEF Pipe!Rewind
  <2>2. to \in Nat /\ to <= Len(obj.topic) /\ 1 .. to \subseteq 1 .. obj.position
    <3>1. to \in Nat
      BY DEF PipeConstants
    <3> QED BY <1>0, <2>1, <3>1
  <2>3. /\ obj' \in OutboxRecord /\ obj'.rows = obj.rows /\ obj'.published = obj.published
        /\ obj'.topic = obj.topic /\ obj'.position = to /\ obj'.seen = obj.seen
        /\ obj'.acted = obj.acted /\ obj'.now = obj.now
    BY <1>0, <2>1, <2>2 DEF OutboxRecord
  <2>4. Relayed' /\ Memory(obj.seen, obj.acted)' /\ InTurn(obj.acted)'
    BY <2>3 DEF Outbox, Relayed, Memory, InTurn
  <2> QED BY <2>2, <2>3, <2>4 DEF Outbox
<1>2. CASE Pipe!OutboxTick
  <2> DEFINE next == obj.now + 1
  <2>1. obj' = [obj EXCEPT !.now = next]
    BY <1>2 DEF Pipe!OutboxTick
  <2>2. next \in Nat /\ obj.now <= next
    BY <1>0
  <2> HIDE DEF next
  <2>3. /\ obj' \in OutboxRecord /\ obj'.rows = obj.rows /\ obj'.published = obj.published
        /\ obj'.topic = obj.topic /\ obj'.position = obj.position /\ obj'.seen = obj.seen
        /\ obj'.acted = obj.acted /\ obj'.now = next
    BY <1>0, <2>1, <2>2 DEF OutboxRecord
  <2>4. Relayed' /\ InTurn(obj.acted)'
    BY <2>3, SMTT(30) DEF Outbox, Relayed, InTurn
  <2>5. \A a \in Nat : (a <= obj.now => a <= next)
                       /\ (obj.now - a >= DedupWindow => next - a >= DedupWindow)
    BY <1>0, <2>2
  <2>6. Memory(obj.seen, obj.acted)'
    BY <1>0, <2>3, <2>5 DEF Outbox, Memory
  <2> QED BY <2>3, <2>4, <2>6 DEF Outbox
<1> QED BY <1>1, <1>2

\* What happened earlier happened longer ago.
LEMMA EarlierIsLongerAgo ==
  ASSUME NEW a \in Nat, NEW s \in Int, NEW now \in Nat, NEW w \in Nat, a <= s, now - s >= w
  PROVE  now - a >= w
OBVIOUS

\* What expired is forgotten, and nothing else.
LEMMA MemoryExpires ==
  ASSUME PipeConstants, Outbox
  PROVE  /\ Pipe!Remembered(obj) \in [1 .. MaxItems -> Int]
         /\ Memory(Pipe!Remembered(obj), obj.acted)
<1> DEFINE kept == Pipe!Remembered(obj)
<1>1. /\ obj.seen \in [1 .. MaxItems -> Int] /\ obj.now \in Nat /\ DedupWindow \in Nat
      /\ \A i \in 1 .. Len(obj.acted) : obj.acted[i].at \in Nat
  BY OutboxFields
<1>2. kept = [r \in 1 .. MaxItems |-> IF obj.seen[r] # -1 /\ obj.now - obj.seen[r] < DedupWindow
                                     THEN obj.seen[r] ELSE -1]
  BY DEF Pipe!Remembered
<1>3. \A r \in 1 .. MaxItems : obj.seen[r] \in Int
  BY <1>1
<1> HIDE DEF kept
<1>4. kept \in [1 .. MaxItems -> Int]
  BY <1>2, <1>3
<1>5. \A r \in 1 .. MaxItems :
        \/ kept[r] = obj.seen[r]
        \/ kept[r] = -1 /\ obj.seen[r] # -1 /\ obj.now - obj.seen[r] >= DedupWindow
  <2> SUFFICES ASSUME NEW r \in 1 .. MaxItems
               PROVE  \/ kept[r] = obj.seen[r]
                      \/ kept[r] = -1 /\ obj.seen[r] # -1 /\ obj.now - obj.seen[r] >= DedupWindow
    OBVIOUS
  <2>1. kept[r] = IF obj.seen[r] # -1 /\ obj.now - obj.seen[r] < DedupWindow
                  THEN obj.seen[r] ELSE -1
    BY <1>2
  <2>2. obj.seen[r] \in Int
    BY <1>3
  <2> QED BY <1>1, <2>1, <2>2
<1>6. Memory(obj.seen, obj.acted)
  BY DEF Outbox
<1>7. ASSUME NEW r \in 1 .. MaxItems, kept[r] # -1
      PROVE  WasActed(r, obj.acted)
  BY <1>5, <1>6, <1>7 DEF Memory
<1>8. ASSUME NEW i \in 1 .. Len(obj.acted)
      PROVE  /\ kept[obj.acted[i].row] = -1 => obj.now - obj.acted[i].at >= DedupWindow
             /\ kept[obj.acted[i].row] # -1 => obj.acted[i].at <= kept[obj.acted[i].row]
  <2> DEFINE r == obj.acted[i].row
             at == obj.acted[i].at
  <2>1. /\ r \in 1 .. MaxItems /\ at \in Nat
        /\ obj.seen[r] = -1 => obj.now - at >= DedupWindow
        /\ obj.seen[r] # -1 => at <= obj.seen[r]
    BY <1>1, <1>6 DEF Memory
  <2> HIDE DEF r, at
  <2>2. obj.seen[r] \in Int
    BY <1>3, <2>1
  <2>3. CASE kept[r] = obj.seen[r]
    BY <2>1, <2>3 DEF r, at
  <2>4. CASE kept[r] = -1 /\ obj.seen[r] # -1 /\ obj.now - obj.seen[r] >= DedupWindow
    <3>1. at <= obj.seen[r] /\ obj.now \in Nat /\ DedupWindow \in Nat /\ at \in Nat
      BY <1>1, <2>1, <2>4
    <3>2. obj.now - at >= DedupWindow
      BY <2>2, <2>4, <3>1, EarlierIsLongerAgo
    <3> QED BY <2>4, <3>2 DEF r, at
  <2> QED BY <1>5, <2>1, <2>3, <2>4
<1>9. \A i \in 1 .. Len(obj.acted) :
        obj.acted[i].row \in 1 .. MaxItems /\ obj.acted[i].at <= obj.now
  BY <1>6 DEF Memory
<1>10. Memory(kept, obj.acted)
  BY <1>7, <1>8, <1>9 DEF Memory
<1> QED BY <1>4, <1>10 DEF kept

\* What an act adds to the consumer's history: the row had been forgotten.
LEMMA ActsInTurn ==
  ASSUME PipeConstants, Outbox, NEW kept \in [1 .. MaxItems -> Int], Memory(kept, obj.acted),
         NEW row \in 1 .. MaxItems, kept[row] = -1,
         \A r \in 1 .. row : r = row \/ WasActed(r, obj.acted)
  PROVE  LET new   == [row |-> row, at |-> obj.now]
             acted == Append(obj.acted, new)
             seen  == [kept EXCEPT ![row] = obj.now]
         IN  /\ acted \in Seq(Act) /\ seen \in [1 .. MaxItems -> Int]
             /\ Memory(seen, acted) /\ InTurn(acted)
             /\ WasActed(row, acted)
             /\ \A r : WasActed(r, obj.acted) => WasActed(r, acted)
<1> DEFINE new   == [row |-> row, at |-> obj.now]
           acted == Append(obj.acted, new)
           seen  == [kept EXCEPT ![row] = obj.now]
           len   == Len(obj.acted)
<1>1. /\ obj.acted \in Seq(Act) /\ len \in Nat /\ obj.now \in Nat /\ DedupWindow \in Nat
      /\ MaxItems \in Nat
      /\ \A i \in 1 .. len : obj.acted[i].at \in Nat /\ obj.acted[i].row \in Nat
  BY OutboxFields
<1>2. row \in Nat
  BY <1>1
<1>3. new \in Act /\ new.row = row /\ new.at = obj.now
  BY <1>1, <1>2 DEF Act
<1> HIDE DEF new
<1>4. /\ acted \in Seq(Act) /\ Len(acted) = len + 1 /\ acted[len + 1] = new
      /\ \A i \in 1 .. len : acted[i] = obj.acted[i]
  BY <1>1, <1>3, AppendProperties
<1> HIDE DEF acted
<1>5. /\ seen \in [1 .. MaxItems -> Int] /\ seen[row] = obj.now /\ seen[row] # -1
      /\ \A r \in 1 .. MaxItems : r # row => seen[r] = kept[r]
  BY <1>1
<1> HIDE DEF seen
<1>6. /\ \A i \in 1 .. len + 1 : i \in 1 .. len \/ i = len + 1
      /\ \A i \in 1 .. len : i \in 1 .. len + 1
      /\ len + 1 \in 1 .. len + 1
  <2>1. len \in Nat
    BY <1>1
  <2> HIDE DEF len
  <2> QED BY <2>1
<1>7. WasActed(row, acted)
  BY <1>3, <1>4, <1>6 DEF WasActed
<1>8. \A r : WasActed(r, obj.acted) => WasActed(r, acted)
  BY <1>4, <1>6 DEF WasActed
<1>9. /\ \A r \in 1 .. MaxItems : kept[r] # -1 => WasActed(r, obj.acted)
      /\ \A i \in 1 .. len :
           /\ obj.acted[i].row \in 1 .. MaxItems /\ obj.acted[i].at <= obj.now
           /\ kept[obj.acted[i].row] = -1 => obj.now - obj.acted[i].at >= DedupWindow
           /\ kept[obj.acted[i].row] # -1 => obj.acted[i].at <= kept[obj.acted[i].row]
  BY DEF Memory
<1>10. ASSUME NEW r \in 1 .. MaxItems, seen[r] # -1
       PROVE  WasActed(r, acted)
  BY <1>5, <1>7, <1>8, <1>9, <1>10
<1>11. ASSUME NEW i \in 1 .. len + 1
       PROVE  /\ acted[i].row \in 1 .. MaxItems /\ acted[i].at <= obj.now
              /\ seen[acted[i].row] = -1 => obj.now - acted[i].at >= DedupWindow
              /\ seen[acted[i].row] # -1 => acted[i].at <= seen[acted[i].row]
  <2>1. CASE i = len + 1
    <3>1. acted[i].row = row /\ acted[i].at = obj.now
      BY <1>3, <1>4, <2>1
    <3>2. obj.now <= obj.now
      BY <1>1
    <3> QED BY <1>5, <3>1, <3>2
  <2>2. CASE i \in 1 .. len /\ acted[i].row = row
    <3>1. acted[i] = obj.acted[i] /\ obj.acted[i].at <= obj.now
      BY <1>4, <1>9, <2>2
    <3> QED BY <1>5, <2>2, <3>1
  <2>3. CASE i \in 1 .. len /\ acted[i].row # row
    <3>1. acted[i] = obj.acted[i]
      BY <1>4, <2>3
    <3>2. obj.acted[i].row \in 1 .. MaxItems /\ obj.acted[i].row # row
      BY <1>9, <2>3, <3>1
    <3>3. seen[obj.acted[i].row] = kept[obj.acted[i].row]
      BY <1>5, <3>2
    <3> QED BY <1>9, <2>3, <3>1, <3>3
  <2> QED BY <1>6, <2>1, <2>2, <2>3
<1>12. Memory(seen, acted)
  <2>1. Len(acted) = len + 1
    BY <1>4
  <2> HIDE DEF len
  <2> QED BY <1>10, <1>11, <2>1 DEF Memory
<1>13. ASSUME NEW i \in 1 .. len + 1, NEW r \in 1 .. acted[i].row
       PROVE  \E j \in 1 .. i : acted[j].row = r
  <2>1. CASE i \in 1 .. len
    <3>1. acted[i] = obj.acted[i]
      BY <1>4, <2>1
    <3>2. PICK j \in 1 .. i : obj.acted[j].row = r
      BY <2>1, <3>1 DEF Outbox, InTurn
    <3>3. j \in 1 .. len
      BY <1>1, <2>1
    <3> QED BY <1>4, <3>2, <3>3
  <2>2. CASE i = len + 1
    <3>1. r \in 1 .. row
      BY <1>3, <1>4, <2>2
    <3>2. CASE r = row
      <4>1. len + 1 \in 1 .. i
        BY <1>1, <2>2
      <4> QED BY <1>3, <1>4, <3>2, <4>1
    <3>3. CASE WasActed(r, obj.acted)
      <4>1. PICK j \in 1 .. len : obj.acted[j].row = r
        BY <3>3 DEF WasActed
      <4>2. j \in 1 .. i
        BY <1>1, <2>2
      <4> QED BY <1>4, <4>1, <4>2
    <3> QED BY <3>1, <3>2, <3>3
  <2> QED BY <1>6, <2>1, <2>2
<1>14. ASSUME NEW i \in 1 .. len + 1, NEW j \in 1 .. len + 1, i < j,
              acted[i].row = acted[j].row
       PROVE  acted[j].at - acted[i].at >= DedupWindow
  <2>1. i \in 1 .. len
    <3>1. i \in Int /\ j \in Int /\ i < j /\ 1 <= i /\ j <= len + 1
      BY <1>1, <1>14
    <3> QED BY <1>1, <3>1
  <2>2. acted[i] = obj.acted[i]
    BY <1>4, <2>1
  <2>3. CASE j = len + 1
    <3>1. acted[j].at = obj.now /\ obj.acted[i].row = row
      BY <1>3, <1>4, <1>14, <2>2, <2>3
    <3>2. obj.now - obj.acted[i].at >= DedupWindow
      BY <1>9, <2>1, <3>1
    <3> QED BY <2>2, <3>1, <3>2
  <2>4. CASE j \in 1 .. len
    <3>1. acted[j] = obj.acted[j]
      BY <1>4, <2>4
    <3> QED BY <1>14, <2>1, <2>2, <2>4, <3>1 DEF Outbox, InTurn
  <2> QED BY <1>6, <2>3, <2>4
<1>15. InTurn(acted)
  <2>1. Len(acted) = len + 1
    BY <1>4
  <2> HIDE DEF len
  <2> QED BY <1>13, <1>14, <2>1 DEF InTurn
<1> QED BY <1>4, <1>5, <1>7, <1>8, <1>12, <1>15 DEF new, acted, seen

\* The consumer takes the next record of the topic.
LEMMA OutboxProcesses ==
  ASSUME PipeConstants, Outbox, Pipe!ProcessRow
  PROVE  Outbox'
<1> DEFINE row  == obj.topic[obj.position + 1]
           kept == Pipe!Remembered(obj)
           next == obj.position + 1
           seen == IF kept[row] = -1 THEN [kept EXCEPT ![row] = obj.now] ELSE kept
           acted == IF kept[row] = -1 THEN Append(obj.acted, [row |-> row, at |-> obj.now])
                    ELSE obj.acted
<1>0. obj \in OutboxRecord
  BY OutboxFields
<1>1. /\ obj.position < Len(obj.topic)
      /\ obj' = [obj EXCEPT !.position = next, !.seen = seen, !.acted = acted]
  BY DEF Pipe!ProcessRow
<1>2. /\ Len(obj.topic) \in Nat /\ obj.position \in Nat /\ obj.rows \in Nat /\ MaxItems \in Nat
      /\ obj.acted \in Seq(Act) /\ \A i \in 1 .. Len(obj.topic) : obj.topic[i] \in Nat
  BY OutboxFields
<1>3. /\ next \in Nat /\ next \in 1 .. Len(obj.topic) /\ next <= Len(obj.topic)
      /\ \A k \in 1 .. next : k \in 1 .. obj.position \/ k = next
  BY <1>1, <1>2
<1> HIDE DEF next
<1>4. row = obj.topic[next]
  BY DEF next
<1>5. row \in 1 .. MaxItems
  <2>1. row \in 1 .. obj.rows /\ obj.rows <= MaxItems
    BY <1>3, <1>4 DEF Outbox, Relayed
  <2> HIDE DEF row
  <2> QED BY <1>2, <2>1
<1>6. \A r \in 1 .. row : r = row \/ WasActed(r, obj.acted)
  <2> SUFFICES ASSUME NEW r \in 1 .. row, r # row PROVE WasActed(r, obj.acted)
    OBVIOUS
  <2>1. PICK j \in 1 .. next : obj.topic[j] = r
    BY <1>3, <1>4 DEF Outbox, Relayed
  <2>2. j \in 1 .. obj.position
    BY <1>3, <1>4, <2>1
  <2> QED BY <2>1, <2>2 DEF Outbox
<1>7. kept \in [1 .. MaxItems -> Int] /\ Memory(kept, obj.acted)
  BY MemoryExpires
<1> HIDE DEF row, kept
<1>8. /\ acted \in Seq(Act) /\ seen \in [1 .. MaxItems -> Int]
      /\ Memory(seen, acted) /\ InTurn(acted) /\ WasActed(row, acted)
      /\ \A r : WasActed(r, obj.acted) => WasActed(r, acted)
  <2>1. CASE kept[row] = -1
    BY <1>5, <1>6, <1>7, <2>1, ActsInTurn
  <2>2. CASE kept[row] # -1
    <3>1. InTurn(obj.acted)
      BY DEF Outbox
    <3>2. WasActed(row, obj.acted)
      BY <1>5, <1>7, <2>2 DEF Memory
    <3>3. acted = obj.acted /\ seen = kept
      BY <2>2
    <3> HIDE DEF acted, seen
    <3> QED BY <1>2, <1>7, <3>1, <3>2, <3>3
  <2> QED BY <2>1, <2>2
<1> HIDE DEF seen, acted
<1>9. /\ obj' \in OutboxRecord /\ obj'.rows = obj.rows /\ obj'.published = obj.published
      /\ obj'.topic = obj.topic /\ obj'.position = next /\ obj'.seen = seen
      /\ obj'.acted = acted /\ obj'.now = obj.now
  BY <1>0, <1>1, <1>3, <1>8 DEF OutboxRecord
<1>10. Relayed'
  BY <1>9 DEF Outbox, Relayed
<1>11. Memory(obj.seen, obj.acted)' /\ InTurn(obj.acted)'
  BY <1>8, <1>9 DEF Memory, InTurn
<1>12. \A k \in 1 .. next : WasActed(obj.topic[k], acted)
  BY <1>3, <1>4, <1>8 DEF Outbox
<1> QED BY <1>3, <1>9, <1>10, <1>11, <1>12 DEF Outbox

\* Every step of the outbox and its consumer keeps their invariant.
LEMMA OutboxStep ==
  ASSUME PipeConstants, Outbox, Pipe!OutboxNext
  PROVE  Outbox'
BY OutboxEnqueues, OutboxPublishes, OutboxWaits, OutboxProcesses, Zenon DEF Pipe!OutboxNext

----------------------------------------------------------------------------
\* The pipelines' invariant: that of the object's class.
PipeInv == Ctp \/ AutoCommit \/ Outbox \/ Saga \/ Connector \/ Mirror

\* The pipelines start within it.
LEMMA PipeStarts ==
  ASSUME PipeConstants, Pipe!Init
  PROVE  PipeInv
<1> DEFINE none == <<>>
<1>0. /\ none \in Seq(Nat) /\ none \in Seq(Act) /\ none \in Seq(Flight) /\ none \in Seq(Nat \X Nat)
      /\ Len(none) = 0 /\ 1 .. 0 = {}
  BY EmptySeq
<1>1. CASE Pipe!CtpInit
  <2>1. PICK eos \in BOOLEAN :
          obj = [class |-> "ctp", exactly_once |-> eos, open |-> FALSE, produced |-> none,
                 offset_commit |-> -1, position |-> 0, committed |-> 0, out |-> none,
                 early |-> FALSE, bare |-> FALSE]
    BY <1>1 DEF Pipe!CtpInit
  <2> HIDE DEF none
  <2>2. obj \in CtpRecord
    BY <1>0, <2>1 DEF CtpRecord
  <2>3. /\ obj.open = FALSE /\ obj.position = 0 /\ obj.committed = 0 /\ obj.out = none
    BY <2>1
  <2>4. Ctp
    BY <1>0, <2>2, <2>3 DEF Ctp
  <2> QED BY <2>4 DEF PipeInv
<1>2. CASE Pipe!AutoInit
  <2>1. PICK on_poll \in BOOLEAN :
          obj = [class |-> "auto", on_poll |-> on_poll, fetched |-> 0, processed |-> 0,
                 committed |-> 0, since |-> 0, busy |-> FALSE, replayed |-> 0, done |-> {}]
    BY <1>2 DEF Pipe!AutoInit
  <2>2. obj \in AutoRecord
    BY <2>1 DEF AutoRecord
  <2>3. /\ obj.processed = 0 /\ obj.fetched = 0 /\ obj.committed = 0 /\ obj.since = 0
        /\ obj.busy = FALSE /\ obj.replayed = 0 /\ 0 .. 0 - 1 = {}
    BY <2>1
  <2>4. CommitInterval \in Nat /\ 0 < CommitInterval /\ 0 <= CommitInterval
    BY DEF PipeConstants
  <2>5. AutoCommit
    BY <2>2, <2>3, <2>4 DEF AutoCommit
  <2> QED BY <2>5 DEF PipeInv
<1>3. CASE Pipe!OutboxInit
  <2> DEFINE seen == [r \in 1 .. MaxItems |-> -1]
  <2>1. obj = [class |-> "outbox", rows |-> 0, published |-> {}, topic |-> none, position |-> 0,
               seen |-> seen, acted |-> none, now |-> 0]
    BY <1>3 DEF Pipe!OutboxInit
  <2>2. seen \in [1 .. MaxItems -> Int] /\ \A r \in 1 .. MaxItems : seen[r] = -1
    OBVIOUS
  <2> HIDE DEF none, seen
  <2>3. obj \in OutboxRecord
    BY <1>0, <2>1, <2>2 DEF OutboxRecord
  <2>4. /\ obj.rows = 0 /\ obj.published = {} /\ obj.topic = none /\ obj.position = 0
        /\ obj.seen = seen /\ obj.acted = none
    BY <2>1
  <2>5. 0 <= MaxItems
    BY DEF PipeConstants
  <2>6. Relayed
    BY <1>0, <2>4, <2>5 DEF Relayed
  <2>7. Memory(obj.seen, obj.acted) /\ InTurn(obj.acted)
    BY <1>0, <2>2, <2>4 DEF Memory, InTurn
  <2>8. Outbox
    BY <1>0, <2>3, <2>4, <2>6, <2>7 DEF Outbox
  <2> QED BY <2>8 DEF PipeInv
<1>4. CASE Pipe!SagaInit
  <2>1. obj = [class |-> "saga", completed |-> none, state |-> "running", order |-> none,
               undone |-> 0, effects |-> {}, unknown |-> {}, orderly |-> TRUE]
    BY <1>4 DEF Pipe!SagaInit
  <2> HIDE DEF none
  <2>2. obj \in SagaRecord
    BY <1>0, <2>1 DEF SagaRecord
  <2>3. /\ obj.completed = none /\ obj.state = "running" /\ obj.undone = 0
        /\ obj.unknown = {} /\ obj.effects = {}
    BY <2>1
  <2>4. Saga
    BY <1>0, <2>2, <2>3 DEF Saga, SagaInOrder
  <2> QED BY <2>4 DEF PipeInv
<1>5. CASE Pipe!ConnectorInit
  <2>1. PICK source \in SUBSET (0 .. MaxItems) :
          obj = [class |-> "connector", source |-> source, inflight |-> none, committed |-> -1,
                 latest_read |-> -1, target |-> {}]
    BY <1>5 DEF Pipe!ConnectorInit
  <2>2. source \in SUBSET Nat
    BY DEF PipeConstants
  <2> HIDE DEF none
  <2>3. obj \in ConnectorRecord
    BY <1>0, <2>1, <2>2 DEF ConnectorRecord
  <2> DEFINE low == -1
  <2>4. /\ obj.source = source /\ obj.inflight = none /\ obj.committed = low
        /\ obj.latest_read = low
    BY <2>1
  <2>5. low <= low /\ \A p \in source : ~ (p <= low)
    BY <2>2
  <2> HIDE DEF low
  <2>6. Connector
    BY <1>0, <2>3, <2>4, <2>5 DEF Connector
  <2> QED BY <2>6 DEF PipeInv
<1>6. CASE Pipe!MirrorInit
  <2>1. PICK first \in 0 .. 1 :
          obj = [class |-> "mirror", source_end |-> 0, translation |-> none, dest_next |-> first,
                 checkpoints |-> none, position |-> 0, landed |-> -1]
    BY <1>6 DEF Pipe!MirrorInit
  <2>2. first \in Nat
    OBVIOUS
  <2> HIDE DEF none
  <2>3. obj \in MirrorRecord
    BY <1>0, <2>1, <2>2 DEF MirrorRecord
  <2>4. obj.translation = none /\ obj.checkpoints = none /\ obj.landed = -1
    BY <2>1
  <2>5. Mirror
    BY <1>0, <2>3, <2>4 DEF Mirror
  <2> QED BY <2>5 DEF PipeInv
<1> QED BY <1>1, <1>2, <1>3, <1>4, <1>5, <1>6 DEF Pipe!Init

\* The action of a class is taken by an object of that class.
LEMMA PipeClasses ==
  /\ Pipe!CtpNext => obj.class = "ctp"
  /\ Pipe!AutoNext => obj.class = "auto"
  /\ Pipe!OutboxNext => obj.class = "outbox"
  /\ Pipe!SagaNext => obj.class = "saga"
  /\ Pipe!ConnectorNext => obj.class = "connector"
  /\ Pipe!MirrorNext => obj.class = "mirror"
<1>1. Pipe!CtpNext => obj.class = "ctp"
  BY Zenon DEF Pipe!CtpNext, Pipe!BeginTxn, Pipe!ProduceNext, Pipe!RideOffset, Pipe!CommitBoth,
               Pipe!AbortBoth, Pipe!BareCommit, Pipe!CtpCrash
<1>2. Pipe!AutoNext => obj.class = "auto"
  BY Zenon DEF Pipe!AutoNext, Pipe!PollOne, Pipe!ProcessOne, Pipe!AutoTick, Pipe!AutoCrash
<1>3. Pipe!OutboxNext => obj.class = "outbox"
  <2>1. ASSUME NEW acked, Pipe!PublishNext(acked) PROVE obj.class = "outbox"
    BY <2>1, Zenon DEF Pipe!PublishNext
  <2>2. ASSUME NEW to, Pipe!Rewind(to) PROVE obj.class = "outbox"
    BY <2>2, Zenon DEF Pipe!Rewind
  <2>3. Pipe!EnqueueRow \/ Pipe!PublishLost \/ Pipe!OutboxTick => obj.class = "outbox"
    BY Zenon DEF Pipe!EnqueueRow, Pipe!PublishLost, Pipe!OutboxTick
  <2>4. Pipe!ProcessRow => obj.class = "outbox"
    BY Zenon DEF Pipe!ProcessRow
  <2> QED BY <2>1, <2>2, <2>3, <2>4, Zenon DEF Pipe!OutboxNext
<1>4. Pipe!SagaNext => obj.class = "saga"
  <2>1. ASSUME NEW step, Pipe!CompleteStep(step) \/ Pipe!StepFails(step) \/ Pipe!CompensateStep(step)
        PROVE  obj.class = "saga"
    BY <2>1, Zenon DEF Pipe!CompleteStep, Pipe!StepFails, Pipe!CompensateStep
  <2>2. Pipe!FailSaga => obj.class = "saga"
    BY Zenon DEF Pipe!FailSaga
  <2> QED BY <2>1, <2>2, Zenon DEF Pipe!SagaNext
<1>5. Pipe!ConnectorNext => obj.class = "connector"
  <2>1. ASSUME NEW n, Pipe!ReadPosition(n) \/ Pipe!Deliver(n) \/ Pipe!AcknowledgeAt(n)
        PROVE  obj.class = "connector"
    BY <2>1, Zenon DEF Pipe!ReadPosition, Pipe!Deliver, Pipe!AcknowledgeAt
  <2>2. Pipe!CommitPrefix \/ Pipe!ResumeFrom => obj.class = "connector"
    BY Zenon DEF Pipe!CommitPrefix, Pipe!ResumeFrom
  <2> QED BY <2>1, <2>2, Zenon DEF Pipe!ConnectorNext
<1>6. Pipe!MirrorNext => obj.class = "mirror"
  <2>1. ASSUME NEW n, Pipe!CopyRecord(n) \/ Pipe!AddCheckpoint(n) PROVE obj.class = "mirror"
    BY <2>1, Zenon DEF Pipe!CopyRecord, Pipe!AddCheckpoint
  <2>2. Pipe!SourceAppend \/ Pipe!ConsumeSource \/ Pipe!FailOver => obj.class = "mirror"
    BY Zenon DEF Pipe!SourceAppend, Pipe!ConsumeSource, Pipe!FailOver
  <2> QED BY <2>1, <2>2, Zenon DEF Pipe!MirrorNext
<1> QED BY <1>1, <1>2, <1>3, <1>4, <1>5, <1>6

\* The class of an object that satisfies the invariant.
LEMMA PipeKinds ==
  /\ Ctp => obj.class = "ctp"
  /\ AutoCommit => obj.class = "auto"
  /\ Outbox => obj.class = "outbox"
  /\ Saga => obj.class = "saga"
  /\ Connector => obj.class = "connector"
  /\ Mirror => obj.class = "mirror"
<1>1. Ctp => obj.class = "ctp"
  BY DEF Ctp, CtpRecord
<1>2. AutoCommit => obj.class = "auto"
  BY DEF AutoCommit, AutoRecord
<1>3. Outbox => obj.class = "outbox"
  BY DEF Outbox, OutboxRecord
<1>4. Saga => obj.class = "saga"
  BY DEF Saga, SagaRecord
<1>5. Connector => obj.class = "connector"
  BY DEF Connector, ConnectorRecord
<1>6. Mirror => obj.class = "mirror"
  BY DEF Mirror, MirrorRecord
<1> QED BY <1>1, <1>2, <1>3, <1>4, <1>5, <1>6

\* A step is one of the object's own.
LEMMA PipeSteps ==
  ASSUME PipeConstants, PipeInv, [Pipe!Next]_obj
  PROVE  PipeInv'
<1>1. CASE UNCHANGED obj
  <2>1. Ctp => Ctp'
    BY <1>1 DEF Ctp
  <2>2. AutoCommit => AutoCommit'
    BY <1>1 DEF AutoCommit
  <2>3. Outbox => Outbox'
    BY <1>1 DEF Outbox, Relayed, Memory, InTurn
  <2>4. Saga => Saga'
    BY <1>1 DEF Saga, SagaInOrder
  <2>5. Connector => Connector'
    BY <1>1 DEF Connector
  <2>6. Mirror => Mirror'
    BY <1>1 DEF Mirror
  <2> QED BY <2>1, <2>2, <2>3, <2>4, <2>5, <2>6 DEF PipeInv
<1>2. /\ Ctp /\ Pipe!CtpNext => Ctp'
      /\ AutoCommit /\ Pipe!AutoNext => AutoCommit'
      /\ Outbox /\ Pipe!OutboxNext => Outbox'
      /\ Saga /\ Pipe!SagaNext => Saga'
      /\ Connector /\ Pipe!ConnectorNext => Connector'
      /\ Mirror /\ Pipe!MirrorNext => Mirror'
  BY CtpStep, AutoStep, OutboxStep, SagaStep, ConnectorStep, MirrorStep
<1>3. CASE Pipe!Next
  <2>1. \/ Ctp /\ Pipe!CtpNext
        \/ AutoCommit /\ Pipe!AutoNext
        \/ Outbox /\ Pipe!OutboxNext
        \/ Saga /\ Pipe!SagaNext
        \/ Connector /\ Pipe!ConnectorNext
        \/ Mirror /\ Pipe!MirrorNext
    BY <1>3, PipeClasses, PipeKinds DEF Pipe!Next, PipeInv
  <2> QED BY <1>2, <2>1 DEF PipeInv
<1> QED BY <1>1, <1>3

\* The elements of a sequence, as the pipelines' module writes them.
LEMMA RangeIs ==
  ASSUME NEW S, NEW s \in Seq(S)
  PROVE  Pipe!Range(s) = {s[i] : i \in 1 .. Len(s)}
<1>1. DOMAIN s = 1 .. Len(s)
  BY LenProperties
<1> QED BY <1>1, Zenon DEF Pipe!Range

\* Consume, transform, produce: what the invariant says of the outputs.
LEMMA CtpPromise ==
  ASSUME Ctp
  PROVE  Pipe!EveryInputOnce
<1>1. obj.out \in Seq(Nat) /\ Len(obj.out) \in Nat /\ obj.committed \in Nat
  BY CtpFields
<1>2. Pipe!Range(obj.out) = {obj.out[i] : i \in 1 .. Len(obj.out)}
  BY <1>1, RangeIs
<1>3. ASSUME ~ obj.bare, NEW n \in 0 .. (obj.committed - 1) PROVE n \in Pipe!Range(obj.out)
  <2>1. n \in Nat /\ n < obj.committed
    BY <1>1
  <2>2. Occurs(n, obj.out)
    BY <1>3, <2>1 DEF Ctp
  <2> QED BY <1>2, <2>2 DEF Occurs
<1>4. ASSUME obj.exactly_once, ~ obj.early PROVE obj.out = [i \in 1 .. obj.committed |-> i - 1]
  <2>1. Len(obj.out) = obj.committed /\ \A i \in 1 .. Len(obj.out) : obj.out[i] = i - 1
    BY <1>4 DEF Ctp
  <2>2. obj.out \in [1 .. Len(obj.out) -> Nat]
    BY <1>1, LenProperties
  <2>3. obj.out = [i \in 1 .. Len(obj.out) |-> obj.out[i]]
    BY <2>2
  <2> QED BY <2>1, <2>3
<1> QED BY <1>3, <1>4 DEF Pipe!EveryInputOnce

\* Auto-commit: the window is what one record a tick makes of the interval.
LEMMA AutoPromise ==
  ASSUME PipeConstants, AutoCommit
  PROVE  Pipe!ReplayIsPriced
<1>1. /\ obj.replayed \in Nat /\ obj.committed \in Nat /\ obj.processed \in Nat
      /\ CommitInterval \in Nat /\ obj.replayed <= CommitInterval
      /\ ~ obj.on_poll => /\ obj.committed <= obj.processed
                          /\ 0 .. obj.processed - 1 \subseteq obj.done
  BY DEF AutoCommit, AutoRecord, PipeConstants
<1>2. obj.replayed <= Pipe!ReplayWindow
  BY <1>1 DEF Pipe!ReplayWindow
<1>3. ASSUME ~ obj.on_poll, NEW n \in 0 .. (obj.committed - 1) PROVE n \in obj.done
  <2>1. n \in 0 .. obj.processed - 1
    BY <1>1, <1>3
  <2> QED BY <1>1, <1>3, <2>1
<1> QED BY <1>2, <1>3 DEF Pipe!ReplayIsPriced

\* The outbox: what the invariant says of the topic and of the consumer's acts.
LEMMA OutboxPromise ==
  ASSUME PipeConstants, Outbox
  PROVE  Pipe!OutboxDelivers
<1>1. /\ obj.topic \in Seq(Nat) /\ Len(obj.topic) \in Nat
      /\ DOMAIN obj.topic = 1 .. Len(obj.topic)
      /\ DOMAIN obj.acted = 1 .. Len(obj.acted)
      /\ \A i \in 1 .. Len(obj.topic) : obj.topic[i] \in Nat
  BY OutboxFields
<1>2. obj.published \subseteq Pipe!Range(obj.topic)
  <2>1. Pipe!Range(obj.topic) = {obj.topic[i] : i \in 1 .. Len(obj.topic)}
    BY <1>1, RangeIs
  <2> QED BY <2>1 DEF Outbox, Relayed, Occurs
<1>3. ASSUME NEW i \in DOMAIN obj.topic, NEW r \in 1 .. obj.topic[i]
      PROVE  r \in Pipe!Range(SubSeq(obj.topic, 1, i))
  <2> DEFINE s == SubSeq(obj.topic, 1, i)
  <2>1. i \in 1 .. Len(obj.topic) /\ i \in Int /\ 1 <= i
    BY <1>1
  <2>2. PICK j \in 1 .. i : obj.topic[j] = r
    BY <2>1 DEF Outbox, Relayed
  <2>3. \A k \in 1 .. i : obj.topic[k] \in Nat
    <3>1. \A k \in 1 .. i : k \in 1 .. Len(obj.topic)
      BY <1>1, <2>1
    <3> QED BY <1>1, <3>1
  <2>4. /\ s \in Seq(Nat) /\ Len(s) = IF 1 <= i THEN i - 1 + 1 ELSE 0
        /\ \A k \in 1 .. i - 1 + 1 : s[k] = obj.topic[1 + k - 1]
    BY <2>1, <2>3, SubSeqProperties
  <2>5. i - 1 + 1 = i /\ 1 + j - 1 = j
    BY <2>1
  <2>6. s[j] = r /\ j \in 1 .. Len(s)
    BY <2>1, <2>2, <2>4, <2>5
  <2>7. Pipe!Range(s) = {s[k] : k \in 1 .. Len(s)}
    BY <2>4, RangeIs
  <2> HIDE DEF s
  <2>8. r \in Pipe!Range(s)
    BY <2>6, <2>7
  <2> QED BY <2>8 DEF s
<1>4. ASSUME NEW i \in DOMAIN obj.acted, NEW r \in 1 .. obj.acted[i].row
      PROVE  r \in {obj.acted[j].row : j \in 1 .. i}
  BY <1>1 DEF Outbox, InTurn
<1>5. \A i, j \in DOMAIN obj.acted :
        i < j /\ obj.acted[i].row = obj.acted[j].row
          => obj.acted[j].at - obj.acted[i].at >= DedupWindow
  BY <1>1 DEF Outbox, InTurn
<1> QED BY <1>2, <1>3, <1>4, <1>5 DEF Pipe!OutboxDelivers

\* A saga: what the invariant says of the effects.
LEMMA SagaPromise ==
  ASSUME PipeConstants, Saga
  PROVE  Pipe!SagaUnwinds
<1> SUFFICES ASSUME obj.orderly
             PROVE  /\ obj.state = "committed" => obj.effects = 1 .. MaxItems
                    /\ obj.effects \ obj.unknown = 1 .. (Len(obj.completed) - obj.undone)
                    /\ Pipe!Cardinality(obj.unknown) <= 1
  BY DEF Pipe!SagaUnwinds
<1> USE DEF SagaInOrder
<1> DEFINE done == Len(obj.completed)
<1>1. /\ done \in Nat /\ obj.undone \in Nat
      /\ obj.state \in {"running", "committed", "compensated"}
  BY DEF Saga, SagaRecord
<1>2. obj.state = "committed" => obj.effects = 1 .. MaxItems
  BY DEF Saga
<1>3. obj.effects \ obj.unknown = 1 .. (done - obj.undone) /\ obj.unknown \subseteq {done + 1}
  <2>1. CASE obj.state = "compensated"
    BY <2>1 DEF Saga
  <2>2. CASE obj.state # "compensated"
    <3>1. obj.undone = 0 /\ obj.unknown = {} /\ obj.effects = 1 .. done
      BY <2>2 DEF Saga
    <3>2. done - 0 = done
      BY <1>1
    <3> QED BY <3>1, <3>2
  <2> QED BY <2>1, <2>2
<1>4. Pipe!Cardinality(obj.unknown) <= 1
  <2>1. obj.unknown = {} \/ obj.unknown = {done + 1}
    BY <1>3
  <2>2. Cardinality({}) = 0 /\ Cardinality({done + 1}) = 1
    BY FS_EmptySet, FS_Singleton
  <2>3. Pipe!Cardinality(obj.unknown) = Cardinality(obj.unknown)
    BY Zenon DEF Pipe!Cardinality, Cardinality
  <2>4. Cardinality(obj.unknown) = 0 \/ Cardinality(obj.unknown) = 1
    BY <2>1, <2>2, Zenon
  <2>5. Pipe!Cardinality(obj.unknown) = 0 \/ Pipe!Cardinality(obj.unknown) = 1
    BY <2>3, <2>4, Zenon
  <2> DEFINE size == Pipe!Cardinality(obj.unknown)
  <2> HIDE DEF size
  <2>6. size <= 1
    <3>1. size = 0 \/ size = 1
      BY <2>5, Zenon DEF size
    <3> QED BY <3>1
  <2> QED BY <2>6 DEF size
<1> QED BY <1>2, <1>3, <1>4

\* A connector: what the invariant says of the target.
LEMMA ConnectorPromise ==
  ASSUME Connector
  PROVE  Pipe!ConnectorsLoseNothing
<1>1. DOMAIN obj.inflight = 1 .. Len(obj.inflight)
  BY ConnectorFields
<1> QED BY <1>1 DEF Connector, Pipe!ConnectorsLoseNothing

\* A mirror: the checkpoint a group lands on is not after what it has not read.
LEMMA MirrorPromise ==
  ASSUME Mirror
  PROVE  Pipe!FailoverSkipsNothing
<1> SUFFICES ASSUME obj.landed # -1
             PROVE  /\ \A o \in obj.position .. (Len(obj.translation) - 1) :
                         obj.translation[o + 1] >= obj.landed
                    /\ \E i \in DOMAIN obj.checkpoints : obj.checkpoints[i][2] = obj.landed
  BY DEF Pipe!FailoverSkipsNothing
<1>1. PICK k \in 1 .. Len(obj.checkpoints) :
        obj.checkpoints[k][2] = obj.landed /\ obj.checkpoints[k][1] <= obj.position
  BY DEF Mirror
<1>2. DOMAIN obj.checkpoints = 1 .. Len(obj.checkpoints)
  <2>1. obj.checkpoints \in Seq(Nat \X Nat)
    BY MirrorFields
  <2> QED BY <2>1, LenProperties
<1> DEFINE c == obj.checkpoints[k][1]
<1>3. /\ c \in Nat /\ c < Len(obj.translation) /\ obj.landed = obj.translation[c + 1]
      /\ c <= obj.position
  BY <1>1, MirrorFields DEF Mirror
<1>4. /\ Len(obj.translation) \in Nat /\ obj.position \in Nat /\ obj.translation \in Seq(Nat)
  BY MirrorFields
<1> HIDE DEF c
<1>5. ASSUME NEW o \in obj.position .. (Len(obj.translation) - 1)
      PROVE  obj.translation[o + 1] >= obj.landed
  <2>1. o \in Nat /\ c <= o /\ o + 1 \in 1 .. Len(obj.translation)
        /\ c + 1 \in 1 .. Len(obj.translation)
    <3> DEFINE len == Len(obj.translation)
    <3>1. /\ len \in Nat /\ obj.position \in Nat /\ c \in Nat /\ c < len /\ c <= obj.position
          /\ o \in obj.position .. (len - 1)
      BY <1>3, <1>4
    <3> HIDE DEF len
    <3>2. o \in Int /\ obj.position <= o /\ o <= len - 1
      BY <3>1
    <3>3. o \in Nat /\ c <= o /\ o + 1 \in 1 .. len /\ c + 1 \in 1 .. len
      BY <3>1, <3>2
    <3> QED BY <3>3 DEF len
  <2>2. obj.translation[o + 1] \in Nat /\ obj.translation[c + 1] \in Nat
    BY <1>4, <2>1, ElementOfSeq
  <2>3. CASE c = o
    BY <1>3, <2>2, <2>3
  <2>4. CASE c # o
    <3>1. c + 1 < o + 1
      BY <1>3, <2>1, <2>4
    <3>2. obj.translation[c + 1] < obj.translation[o + 1]
      BY <2>1, <3>1 DEF Mirror
    <3>3. obj.translation[o + 1] >= obj.translation[c + 1]
      <4> DEFINE a == obj.translation[c + 1]
                 b == obj.translation[o + 1]
      <4>1. a \in Nat /\ b \in Nat /\ a < b
        BY <2>2, <3>2
      <4> HIDE DEF a, b
      <4>2. b >= a
        BY <4>1
      <4> QED BY <4>2 DEF a, b
    <3> QED BY <1>3, <3>3
  <2> QED BY <2>3, <2>4
<1> QED BY <1>1, <1>2, <1>5

\* The invariant says what the pipelines promise.
LEMMA PipePromises ==
  ASSUME PipeConstants, PipeInv
  PROVE  Pipe!PipelinesKeepPromises
<1>1. CASE Ctp
  BY <1>1, CtpPromise, PipeKinds DEF Pipe!PipelinesKeepPromises, Pipe!ReplayIsPriced,
     Pipe!OutboxDelivers, Pipe!SagaUnwinds, Pipe!ConnectorsLoseNothing, Pipe!FailoverSkipsNothing
<1>2. CASE AutoCommit
  BY <1>2, AutoPromise, PipeKinds DEF Pipe!PipelinesKeepPromises, Pipe!EveryInputOnce,
     Pipe!OutboxDelivers, Pipe!SagaUnwinds, Pipe!ConnectorsLoseNothing, Pipe!FailoverSkipsNothing
<1>3. CASE Outbox
  BY <1>3, OutboxPromise, PipeKinds DEF Pipe!PipelinesKeepPromises, Pipe!EveryInputOnce,
     Pipe!ReplayIsPriced, Pipe!SagaUnwinds, Pipe!ConnectorsLoseNothing, Pipe!FailoverSkipsNothing
<1>4. CASE Saga
  BY <1>4, SagaPromise, PipeKinds DEF Pipe!PipelinesKeepPromises, Pipe!EveryInputOnce,
     Pipe!ReplayIsPriced, Pipe!OutboxDelivers, Pipe!ConnectorsLoseNothing, Pipe!FailoverSkipsNothing
<1>5. CASE Connector
  BY <1>5, ConnectorPromise, PipeKinds DEF Pipe!PipelinesKeepPromises, Pipe!EveryInputOnce,
     Pipe!ReplayIsPriced, Pipe!OutboxDelivers, Pipe!SagaUnwinds, Pipe!FailoverSkipsNothing
<1>6. CASE Mirror
  BY <1>6, MirrorPromise, PipeKinds DEF Pipe!PipelinesKeepPromises, Pipe!EveryInputOnce,
     Pipe!ReplayIsPriced, Pipe!OutboxDelivers, Pipe!SagaUnwinds, Pipe!ConnectorsLoseNothing
<1> QED BY <1>1, <1>2, <1>3, <1>4, <1>5, <1>6 DEF PipeInv

(***************************************************************************)
(* For any window, interval and number of records, and wherever workers    *)
(* crash or answers are lost: the transactional pipeline puts out every    *)
(* input once, auto-commit repeats no more than its window, outbox rows    *)
(* are acted upon in order and again only a window later, a saga leaves    *)
(* the effects of all its steps or of none, a connector's committed        *)
(* position covers only what arrived, and a group that fails over to a     *)
(* mirror skips nothing.                                                   *)
(***************************************************************************)
THEOREM PipelinesAreSafe ==
  ASSUME PipeConstants
  PROVE  Pipe!Init /\ [][Pipe!Next]_obj => []PipelinesKeepPromises
<1>1. Pipe!Init => PipeInv
  BY PipeStarts
<1>2. PipeInv /\ [Pipe!Next]_obj => PipeInv'
  BY PipeSteps
<1>3. PipeInv => PipelinesKeepPromises
  BY PipePromises DEF PipelinesKeepPromises
<1> QED BY <1>1, <1>2, <1>3, PTL

----------------------------------------------------------------------------
(***************************************************************************)
(* The distributed protocols, for any quorums, windows and durations.      *)
(***************************************************************************)
ProtocolConstants ==
  /\ ReadQuorum \in 1 .. 3 /\ WriteQuorum \in 1 .. 3 /\ HintWindow \in Nat /\ LeaseDuration \in Nat
  /\ MaxVersions \in Nat /\ MaxWrites \in Nat /\ MaxAge \in Nat

\* The participants, replicas and links of a chain, as the protocols number them.
Node == 1 .. 3

\* The fields of a two-phase commit.
CommitRecord ==
  [class : {"commit"}, votes : [Node -> {"none", "yes", "no"}], decision : {"none", "commit", "abort"},
   applied : [Node -> {"none", "commit", "abort"}], down : BOOLEAN]

\* A decision has all votes behind it, and nobody acts against it.
TwoPhase ==
  /\ obj \in CommitRecord
  /\ obj.decision = "commit" => \A p \in Node : obj.votes[p] = "yes"
  /\ obj.decision = "abort" => \E p \in Node : obj.votes[p] = "no"
  /\ obj.decision # "none" => \A p \in Node : obj.votes[p] # "none"
  /\ \A p \in Node : obj.applied[p] = "commit" => obj.decision = "commit"
  /\ \A p \in Node : obj.applied[p] = "abort" => obj.votes[p] = "no" \/ obj.decision = "abort"

\* A participant votes, and after a no it may abort at once.
LEMMA VoteStep ==
  ASSUME TwoPhase, NEW p \in Node, NEW vote \in {"yes", "no"}, Protocol!Vote(p, vote)
  PROVE  TwoPhase'
<1> DEFINE votes == [obj.votes EXCEPT ![p] = vote]
           act == IF vote = "no" THEN "abort" ELSE "none"
           applied == [obj.applied EXCEPT ![p] = act]
<1>0. obj \in CommitRecord /\ obj.votes[p] = "none"
  BY DEF TwoPhase, Protocol!Vote
<1>1. obj' = [obj EXCEPT !.votes = votes, !.applied = applied]
  BY DEF Protocol!Vote
<1>2. /\ votes \in [Node -> {"none", "yes", "no"}] /\ applied \in [Node -> {"none", "commit", "abort"}]
      /\ votes[p] = vote /\ applied[p] = act
      /\ \A q \in Node : q # p => votes[q] = obj.votes[q] /\ applied[q] = obj.applied[q]
  BY <1>0 DEF CommitRecord
<1> HIDE DEF votes, applied
<1>3. /\ obj' \in CommitRecord /\ obj'.votes = votes /\ obj'.applied = applied
      /\ obj'.decision = obj.decision
  BY <1>0, <1>1, <1>2 DEF CommitRecord
<1>4. obj.decision = "none"
  BY <1>0 DEF TwoPhase
<1>5. \A q \in Node : applied[q] # "commit" /\ (applied[q] = "abort" => votes[q] = "no")
  <2> SUFFICES ASSUME NEW q \in Node
               PROVE  applied[q] # "commit" /\ (applied[q] = "abort" => votes[q] = "no")
    OBVIOUS
  <2>1. CASE q = p
    BY <1>2, <2>1
  <2>2. CASE q # p
    BY <1>2, <1>4, <2>2 DEF TwoPhase
  <2> QED BY <2>1, <2>2
<1> QED BY <1>3, <1>4, <1>5 DEF TwoPhase

\* The coordinator decides, with every vote in.
LEMMA DecideStep ==
  ASSUME TwoPhase, Protocol!Decide
  PROVE  TwoPhase'
<1> DEFINE decision == IF \A p \in Node : obj.votes[p] \in {"yes", "none"} THEN "commit" ELSE "abort"
<1>0. obj \in CommitRecord /\ \A p \in Node : obj.votes[p] # "none" /\ obj.votes[p] \in {"none", "yes", "no"}
  BY DEF TwoPhase, Protocol!Decide, Protocol!MayDecide, Protocol!NODES, Node, CommitRecord
<1>1. obj' = [obj EXCEPT !.decision = decision]
  BY DEF Protocol!Decide, Protocol!NODES, Node
<1>2. /\ decision = "commit" => \A p \in Node : obj.votes[p] = "yes"
      /\ decision = "abort" => \E p \in Node : obj.votes[p] = "no"
      /\ decision \in {"commit", "abort"}
  BY <1>0
<1> HIDE DEF decision
<1>3. /\ obj' \in CommitRecord /\ obj'.votes = obj.votes /\ obj'.applied = obj.applied
      /\ obj'.decision = decision
  BY <1>0, <1>1, <1>2 DEF CommitRecord
<1>4. obj.decision # "none" => decision = obj.decision
  BY <1>0, <1>2 DEF TwoPhase, CommitRecord
<1>5. /\ \A p \in Node : obj.applied[p] = "commit" => decision = "commit"
      /\ \A p \in Node : obj.applied[p] = "abort" => obj.votes[p] = "no" \/ decision = "abort"
  BY <1>4 DEF TwoPhase
<1> QED BY <1>0, <1>2, <1>3, <1>5 DEF TwoPhase

\* A participant in doubt hears the decision.
LEMMA HearDecisionStep ==
  ASSUME TwoPhase, NEW p \in Node, Protocol!HearDecision(p)
  PROVE  TwoPhase'
<1> DEFINE applied == [obj.applied EXCEPT ![p] = obj.decision]
<1>0. obj \in CommitRecord
  BY DEF TwoPhase
<1>1. obj' = [obj EXCEPT !.applied = applied]
  BY DEF Protocol!HearDecision
<1>2. /\ applied \in [Node -> {"none", "commit", "abort"}] /\ applied[p] = obj.decision
      /\ \A q \in Node : q # p => applied[q] = obj.applied[q]
  BY <1>0 DEF CommitRecord
<1> HIDE DEF applied
<1>3. /\ obj' \in CommitRecord /\ obj'.votes = obj.votes /\ obj'.applied = applied
      /\ obj'.decision = obj.decision
  BY <1>0, <1>1, <1>2 DEF CommitRecord
<1>4. /\ \A q \in Node : applied[q] = "commit" => obj.decision = "commit"
      /\ \A q \in Node : applied[q] = "abort" => obj.votes[q] = "no" \/ obj.decision = "abort"
  BY <1>2 DEF TwoPhase
<1> QED BY <1>3, <1>4 DEF TwoPhase

\* The coordinator goes down and comes back.
LEMMA CoordinatorStep ==
  ASSUME TwoPhase, Protocol!Coordinator
  PROVE  TwoPhase'
<1> DEFINE down == ~ obj.down
<1>0. obj \in CommitRecord /\ down \in BOOLEAN
  BY DEF TwoPhase
<1>1. obj' = [obj EXCEPT !.down = down]
  BY DEF Protocol!Coordinator
<1> HIDE DEF down
<1>2. /\ obj' \in CommitRecord /\ obj'.votes = obj.votes /\ obj'.applied = obj.applied
      /\ obj'.decision = obj.decision
  BY <1>0, <1>1 DEF CommitRecord
<1> QED BY <1>2 DEF TwoPhase

\* The commit starts without a vote.
LEMMA CommitStart ==
  ASSUME Protocol!CommitInit
  PROVE  TwoPhase
<1> DEFINE none == [p \in Node |-> "none"]
<1>1. obj = [class |-> "commit", votes |-> none, decision |-> "none", applied |-> none, down |-> FALSE]
  BY DEF Protocol!CommitInit, Protocol!NODES, Node
<1>2. /\ none \in [Node -> {"none", "yes", "no"}] /\ none \in [Node -> {"none", "commit", "abort"}]
      /\ \A p \in Node : none[p] = "none"
  OBVIOUS
<1> HIDE DEF none
<1>3. obj \in CommitRecord /\ obj.votes = none /\ obj.applied = none /\ obj.decision = "none"
  BY <1>1, <1>2 DEF CommitRecord
<1> QED BY <1>2, <1>3 DEF TwoPhase

\* Nobody commits what another aborts.
LEMMA CommitPromise ==
  ASSUME TwoPhase
  PROVE  Protocol!CommitIsUnanimous
<1>1. ASSUME NEW p \in Node, NEW q \in Node, obj.applied[p] = "commit", obj.applied[q] = "abort"
      PROVE  FALSE
  <2>1. obj.decision = "commit" /\ obj.votes[q] = "yes"
    BY <1>1 DEF TwoPhase
  <2> QED BY <1>1, <2>1 DEF TwoPhase
<1>2. obj.decision = "commit" => \A p \in Node : obj.votes[p] = "yes"
  BY DEF TwoPhase
<1> QED BY <1>1, <1>2 DEF Protocol!CommitIsUnanimous, Protocol!NODES, Node

----------------------------------------------------------------------------
\* The fields of a lease with its clients and the resource it guards.
LeaseRecord ==
  [class : {"lease"}, now : Nat, holder : 0 .. 2, expires_at : Int, token : Nat,
   held : [1 .. 2 -> Nat], owner : Seq(1 .. 2), ops : SUBSET Nat, done : Seq(Nat)]

\* No token is about that was not granted, the last one is the holder's, and
\* the resource has let tokens in as they rise.
Lease ==
  /\ obj \in LeaseRecord
  /\ Len(obj.owner) = obj.token
  /\ obj.token > 0 => obj.owner[obj.token] = obj.holder
  /\ \A c \in 1 .. 2 : obj.held[c] <= obj.token
  /\ \A t \in obj.ops : t <= obj.token
  /\ \A i \in 1 .. Len(obj.done) : obj.done[i] <= obj.token
  /\ \A i, j \in 1 .. Len(obj.done) : i < j => obj.done[i] <= obj.done[j]

\* The fields, one by one.
LEMMA LeaseFields ==
  ASSUME obj \in LeaseRecord
  PROVE  /\ obj.class = "lease" /\ obj.now \in Nat /\ obj.holder \in 0 .. 2 /\ obj.expires_at \in Int
         /\ obj.token \in Nat /\ obj.held \in [1 .. 2 -> Nat] /\ obj.owner \in Seq(1 .. 2)
         /\ obj.ops \in SUBSET Nat /\ obj.done \in Seq(Nat) /\ Len(obj.done) \in Nat
         /\ \A i \in 1 .. Len(obj.done) : obj.done[i] \in Nat
BY DEF LeaseRecord

\* A grant: a new token for the client.
LEMMA AcquireStep ==
  ASSUME ProtocolConstants, Lease, NEW c \in 1 .. 2, Protocol!Acquire(c)
  PROVE  Lease'
<1> DEFINE t == obj.token + 1
           until == obj.now + LeaseDuration
           held == [obj.held EXCEPT ![c] = t]
           owner == Append(obj.owner, c)
<1>0. obj \in LeaseRecord
  BY DEF Lease
<1>1. obj' = [obj EXCEPT !.holder = c, !.expires_at = until, !.token = t, !.held = held, !.owner = owner]
  BY DEF Protocol!Acquire
<1>2. /\ t \in Nat /\ t > obj.token /\ until \in Int /\ c \in 0 .. 2
      /\ held \in [1 .. 2 -> Nat] /\ \A d \in 1 .. 2 : held[d] = IF d = c THEN t ELSE obj.held[d]
  <2>1. obj.token \in Nat /\ obj.now \in Nat /\ LeaseDuration \in Nat /\ obj.held \in [1 .. 2 -> Nat]
    BY <1>0, LeaseFields DEF ProtocolConstants
  <2>2. t \in Nat /\ t > obj.token /\ until \in Int /\ c \in 0 .. 2
    BY <2>1
  <2> HIDE DEF t, until
  <2> QED BY <2>1, <2>2
<1>3. owner \in Seq(1 .. 2) /\ Len(owner) = t /\ owner[t] = c
  <2>1. obj.owner \in Seq(1 .. 2) /\ Len(obj.owner) = obj.token
    BY <1>0, LeaseFields DEF Lease
  <2> QED BY <2>1, AppendProperties
<1> HIDE DEF t, until, held, owner
<1>4. /\ obj' \in LeaseRecord /\ obj'.holder = c /\ obj'.token = t /\ obj'.held = held
      /\ obj'.owner = owner /\ obj'.ops = obj.ops /\ obj'.done = obj.done
  BY <1>0, <1>1, <1>2, <1>3 DEF LeaseRecord
<1>5. \A x \in Nat : x <= obj.token => x <= t
  BY <1>0, <1>2, LeaseFields
<1>6. \A d \in 1 .. 2 : held[d] <= t
  <2>1. \A d \in 1 .. 2 : obj.held[d] \in Nat /\ obj.held[d] <= obj.token
    BY <1>0, LeaseFields DEF Lease
  <2> QED BY <1>2, <1>5, <2>1
<1>7. /\ \A x \in obj.ops : x <= t
      /\ \A i \in 1 .. Len(obj.done) : obj.done[i] <= t
  BY <1>0, <1>5, LeaseFields DEF Lease
<1> QED BY <1>3, <1>4, <1>6, <1>7 DEF Lease

\* A renewal and a tick change what the promise is not about.
LEMMA RenewStep ==
  ASSUME ProtocolConstants, Lease, Protocol!LeaseTick \/ \E c \in 1 .. 2 : Protocol!Renew(c)
  PROVE  Lease'
<1> DEFINE until == obj.now + LeaseDuration
           later == obj.now + 1
<1>0. obj \in LeaseRecord
  BY DEF Lease
<1>1. obj' = [obj EXCEPT !.expires_at = until] \/ obj' = [obj EXCEPT !.now = later]
  BY DEF Protocol!Renew, Protocol!LeaseTick
<1>2. until \in Int /\ later \in Nat
  BY <1>0, LeaseFields DEF ProtocolConstants
<1> HIDE DEF until, later
<1>3. /\ obj' \in LeaseRecord /\ obj'.holder = obj.holder /\ obj'.token = obj.token
      /\ obj'.held = obj.held /\ obj'.owner = obj.owner /\ obj'.ops = obj.ops /\ obj'.done = obj.done
  BY <1>0, <1>1, <1>2 DEF LeaseRecord
<1> QED BY <1>3 DEF Lease

\* A client sends what it believes it may.
LEMMA ActStep ==
  ASSUME Lease, NEW c \in 1 .. 2, Protocol!Act(c)
  PROVE  Lease'
<1> DEFINE ops == obj.ops \cup {obj.held[c]}
<1>0. obj \in LeaseRecord
  BY DEF Lease
<1>1. obj' = [obj EXCEPT !.ops = ops]
  BY DEF Protocol!Act
<1>2. ops \in SUBSET Nat /\ \A t \in ops : t <= obj.token
  BY <1>0, LeaseFields DEF Lease
<1> HIDE DEF ops
<1>3. /\ obj' \in LeaseRecord /\ obj'.holder = obj.holder /\ obj'.token = obj.token
      /\ obj'.held = obj.held /\ obj'.owner = obj.owner /\ obj'.ops = ops /\ obj'.done = obj.done
  BY <1>0, <1>1, <1>2 DEF LeaseRecord
<1> QED BY <1>2, <1>3 DEF Lease

\* The resource lets in the latest token and turns older ones away.
LEMMA GuardedStep ==
  ASSUME Lease, NEW t \in Nat, Protocol!Guarded(t)
  PROVE  Lease'
<1> DEFINE ops == obj.ops \ {t}
           more == Append(obj.done, t)
           done == IF t >= obj.token THEN more ELSE obj.done
           n == Len(obj.done)
<1>0. /\ obj \in LeaseRecord /\ obj.token \in Nat /\ obj.done \in Seq(Nat) /\ n \in Nat
      /\ \A i \in 1 .. n : obj.done[i] \in Nat
  BY LeaseFields DEF Lease
<1>1. obj' = [obj EXCEPT !.ops = ops, !.done = done] /\ t \in obj.ops
  BY DEF Protocol!Guarded
<1>2. ops \in SUBSET Nat /\ (\A s \in ops : s <= obj.token) /\ t <= obj.token
  BY <1>0, <1>1, LeaseFields DEF Lease
<1>3. /\ more \in Seq(Nat) /\ Len(more) = n + 1 /\ more[n + 1] = t
      /\ \A i \in 1 .. n : more[i] = obj.done[i]
  BY <1>0, AppendProperties
<1> HIDE DEF more, n
<1>4. /\ done \in Seq(Nat)
      /\ \A i \in 1 .. Len(done) : done[i] <= obj.token
      /\ \A i, j \in 1 .. Len(done) : i < j => done[i] <= done[j]
  <2>1. /\ \A i \in 1 .. n : obj.done[i] <= obj.token
        /\ \A i, j \in 1 .. n : i < j => obj.done[i] <= obj.done[j]
    BY DEF Lease, n
  <2>2. CASE t >= obj.token
    <3>1. done = more /\ t = obj.token
      BY <1>0, <1>2, <2>2
    <3>2. \A i \in 1 .. n + 1 : more[i] <= obj.token
      BY <1>0, <1>3, <2>1, <3>1
    <3>3. \A i, j \in 1 .. n + 1 : i < j => more[i] <= more[j]
      <4> SUFFICES ASSUME NEW i \in 1 .. n + 1, NEW j \in 1 .. n + 1, i < j PROVE more[i] <= more[j]
        OBVIOUS
      <4>1. i \in 1 .. n /\ (j = n + 1 \/ j \in 1 .. n)
        BY <1>0
      <4> QED BY <1>3, <2>1, <3>1, <4>1
    <3> QED BY <1>3, <3>1, <3>2, <3>3
  <2>3. CASE ~ (t >= obj.token)
    BY <1>0, <2>1, <2>3 DEF n
  <2> QED BY <2>2, <2>3
<1> HIDE DEF ops, done
<1>5. /\ obj' \in LeaseRecord /\ obj'.holder = obj.holder /\ obj'.token = obj.token
      /\ obj'.held = obj.held /\ obj'.owner = obj.owner /\ obj'.ops = ops /\ obj'.done = done
  BY <1>0, <1>1, <1>2, <1>4 DEF LeaseRecord
<1> QED BY <1>2, <1>4, <1>5 DEF Lease

\* The lease starts free.
LEMMA LeaseStart ==
  ASSUME Protocol!LeaseInit
  PROVE  Lease
<1> DEFINE held == [c \in 1 .. 2 |-> 0]
<1>1. obj = [class |-> "lease", now |-> 0, holder |-> 0, expires_at |-> -1, token |-> 0,
             held |-> held, owner |-> <<>>, ops |-> {}, done |-> <<>>]
  BY DEF Protocol!LeaseInit
<1>2. held \in [1 .. 2 -> Nat] /\ \A c \in 1 .. 2 : held[c] = 0
  OBVIOUS
<1> HIDE DEF held
<1>3. /\ obj \in LeaseRecord /\ obj.token = 0 /\ obj.held = held /\ obj.owner = <<>> /\ obj.ops = {}
      /\ obj.done = <<>>
  BY <1>1, <1>2 DEF LeaseRecord
<1> QED BY <1>2, <1>3 DEF Lease

\* The resource sees the holders in turn.
LEMMA LeasePromise ==
  ASSUME Lease
  PROVE  Protocol!FencedInTurn
<1>1. DOMAIN obj.done = 1 .. Len(obj.done)
  BY LeaseFields, LenProperties DEF Lease
<1> QED BY <1>1 DEF Lease, Protocol!FencedInTurn

----------------------------------------------------------------------------
\* The keys, a transaction under way, a committed one, and the fields of the store.
Keys == {"x", "y"}

\* What a transaction began with.
Open == [start : Int, saw : [Keys -> Nat]]

\* A committed transaction.
Done == [start : Int, keys : SUBSET Keys]

\* The store with its two clients.
OccRecord ==
  [class : {"occ"}, version : Nat, committed_at : [Keys -> Int], value : [Keys -> Nat],
   updates : [Keys -> Nat], txn : [1 .. 2 -> Open], log : Seq(Done)]

\* A key's commit is the last that wrote it; what a transaction saw of a key
\* that nobody committed since is still its value.
Occ ==
  /\ obj \in OccRecord
  /\ obj.value = obj.updates /\ obj.version = Len(obj.log)
  /\ \A i \in 1 .. Len(obj.log) : \A k \in obj.log[i].keys : i <= obj.committed_at[k]
  /\ \A t \in 1 .. 2 : \A k \in Keys :
       obj.txn[t].start # -1 /\ obj.committed_at[k] <= obj.txn[t].start
       => obj.txn[t].saw[k] = obj.value[k]
  /\ \A t \in 1 .. 2 : obj.txn[t].start <= obj.version
  /\ \A i, j \in 1 .. Len(obj.log) :
       i < j /\ obj.log[j].start < i => obj.log[i].keys \cap obj.log[j].keys = {}

\* The fields, one by one.
LEMMA OccFields ==
  ASSUME obj \in OccRecord
  PROVE  /\ obj.class = "occ" /\ obj.version \in Nat /\ obj.committed_at \in [Keys -> Int]
         /\ obj.value \in [Keys -> Nat] /\ obj.updates \in [Keys -> Nat] /\ obj.txn \in [1 .. 2 -> Open]
         /\ obj.log \in Seq(Done) /\ Len(obj.log) \in Nat
         /\ \A i \in 1 .. Len(obj.log) :
              obj.log[i] \in Done /\ obj.log[i].start \in Int /\ obj.log[i].keys \in SUBSET Keys
         /\ \A t \in 1 .. 2 :
              /\ obj.txn[t] \in Open /\ obj.txn[t].start \in Int /\ obj.txn[t].saw \in [Keys -> Nat]
<1>1. /\ obj.class = "occ" /\ obj.version \in Nat /\ obj.committed_at \in [Keys -> Int]
      /\ obj.value \in [Keys -> Nat] /\ obj.updates \in [Keys -> Nat] /\ obj.txn \in [1 .. 2 -> Open]
      /\ obj.log \in Seq(Done)
  BY DEF OccRecord
<1>2. Len(obj.log) \in Nat /\ \A i \in 1 .. Len(obj.log) : obj.log[i] \in Done
  BY <1>1, LenProperties, ElementOfSeq
<1>3. \A t \in 1 .. 2 : obj.txn[t] \in Open
  BY <1>1
<1> QED BY <1>1, <1>2, <1>3 DEF Done, Open

\* A transaction begins on the present state.
LEMMA BeginTxnStep ==
  ASSUME Occ, NEW t \in 1 .. 2, Protocol!BeginTxn(t)
  PROVE  Occ'
<1> DEFINE o == [start |-> obj.version, saw |-> obj.value]
           txn == [obj.txn EXCEPT ![t] = o]
<1>0. obj \in OccRecord
  BY DEF Occ
<1>1. obj' = [obj EXCEPT !.txn = txn]
  BY DEF Protocol!BeginTxn
<1>2. o \in Open /\ o.start = obj.version /\ o.saw = obj.value
  BY <1>0, OccFields DEF Open
<1> HIDE DEF o
<1>3. txn \in [1 .. 2 -> Open] /\ \A s \in 1 .. 2 : txn[s] = IF s = t THEN o ELSE obj.txn[s]
  BY <1>0, <1>2, OccFields
<1> HIDE DEF txn
<1>4. /\ obj' \in OccRecord /\ obj'.version = obj.version /\ obj'.committed_at = obj.committed_at
      /\ obj'.value = obj.value /\ obj'.updates = obj.updates /\ obj'.txn = txn /\ obj'.log = obj.log
  BY <1>0, <1>1, <1>3 DEF OccRecord
<1>5. \A s \in 1 .. 2 : \A k \in Keys :
        txn[s].start # -1 /\ obj.committed_at[k] <= txn[s].start => txn[s].saw[k] = obj.value[k]
  BY <1>2, <1>3 DEF Occ
<1>6. \A s \in 1 .. 2 : txn[s].start <= obj.version
  BY <1>0, <1>2, <1>3, OccFields DEF Occ
<1> QED BY <1>4, <1>5, <1>6 DEF Occ

\* A transaction that conflicts ends without effect.
LEMMA ConflictStep ==
  ASSUME Occ, NEW t \in 1 .. 2, obj' = [obj EXCEPT !.txn[t].start = -1]
  PROVE  Occ'
<1> DEFINE o == [obj.txn[t] EXCEPT !.start = -1]
           txn == [obj.txn EXCEPT ![t] = o]
<1>0. obj \in OccRecord
  BY DEF Occ
<1>1. obj' = [obj EXCEPT !.txn = txn]
  OBVIOUS
<1>2. o \in Open /\ o.start = -1
  BY <1>0, OccFields DEF Open
<1> HIDE DEF o
<1>3. txn \in [1 .. 2 -> Open] /\ \A s \in 1 .. 2 : txn[s] = IF s = t THEN o ELSE obj.txn[s]
  BY <1>0, <1>2, OccFields
<1> HIDE DEF txn
<1>4. /\ obj' \in OccRecord /\ obj'.version = obj.version /\ obj'.committed_at = obj.committed_at
      /\ obj'.value = obj.value /\ obj'.updates = obj.updates /\ obj'.txn = txn /\ obj'.log = obj.log
  BY <1>0, <1>1, <1>3 DEF OccRecord
<1>5. \A s \in 1 .. 2 : \A k \in Keys :
        txn[s].start # -1 /\ obj.committed_at[k] <= txn[s].start => txn[s].saw[k] = obj.value[k]
  BY <1>2, <1>3 DEF Occ
<1>6. \A s \in 1 .. 2 : txn[s].start <= obj.version
  BY <1>0, <1>2, <1>3, OccFields DEF Occ
<1> QED BY <1>4, <1>5, <1>6 DEF Occ

\* A transaction that does not takes its keys one version on.
LEMMA CommitTxnStep ==
  ASSUME Occ, NEW t \in 1 .. 2, NEW keys \in SUBSET Keys, Protocol!CommitTxn(t, keys)
  PROVE  Occ'
<1> DEFINE n == obj.version + 1
           o == [obj.txn[t] EXCEPT !.start = -1]
           txn == [obj.txn EXCEPT ![t] = o]
           at == [k \in Keys |-> IF k \in keys THEN n ELSE obj.committed_at[k]]
           value == [k \in Keys |-> IF k \in keys THEN obj.txn[t].saw[k] + 1 ELSE obj.value[k]]
           updates == [k \in Keys |-> IF k \in keys THEN obj.updates[k] + 1 ELSE obj.updates[k]]
           d == [start |-> obj.txn[t].start, keys |-> keys]
           newLog == Append(obj.log, d)
<1>0. obj \in OccRecord
  BY DEF Occ
<1>1. \/ obj' = [obj EXCEPT !.txn[t].start = -1]
      \/ /\ obj' = [obj EXCEPT !.version = n, !.txn = txn, !.committed_at = at, !.value = value,
                               !.updates = updates, !.log = newLog]
         /\ Protocol!Conflicts(obj, t, keys) = {} /\ obj.txn[t].start # -1
  BY DEF Protocol!CommitTxn, Protocol!KEYS, Keys
<1>2. CASE obj' = [obj EXCEPT !.txn[t].start = -1]
  BY <1>2, ConflictStep
<1>3. CASE /\ obj' = [obj EXCEPT !.version = n, !.txn = txn, !.committed_at = at, !.value = value,
                                 !.updates = updates, !.log = newLog]
           /\ Protocol!Conflicts(obj, t, keys) = {} /\ obj.txn[t].start # -1
  <2> DEFINE start == obj.txn[t].start
             m == Len(obj.log)
  <2>0. /\ obj.version \in Nat /\ obj.committed_at \in [Keys -> Int] /\ obj.value \in [Keys -> Nat]
        /\ obj.updates \in [Keys -> Nat] /\ obj.txn \in [1 .. 2 -> Open] /\ obj.log \in Seq(Done)
        /\ start \in Int /\ obj.txn[t].saw \in [Keys -> Nat] /\ m \in Nat /\ obj.version = m
        /\ start <= m /\ obj.value = obj.updates /\ obj.txn[t] \in Open
    BY <1>0, OccFields DEF Occ
  <2>1. \A k \in keys : obj.committed_at[k] <= start /\ obj.committed_at[k] \in Int
    <3>1. \A k \in keys : ~ (obj.committed_at[k] > start) /\ obj.committed_at[k] \in Int
      BY <1>3, <2>0 DEF Protocol!Conflicts
    <3> HIDE DEF start
    <3> QED BY <2>0, <3>1
  <2>2. \A k \in keys : obj.txn[t].saw[k] = obj.value[k]
    BY <1>3, <2>1 DEF Occ
  <2>3. o \in Open /\ o.start = -1 /\ d \in Done /\ d.start = start /\ d.keys = keys
    <3>1. o \in Open /\ o.start = -1
      <4> DEFINE w == obj.txn[t]
      <4>1. w \in Open
        BY <2>0
      <4> HIDE DEF w
      <4>2. [w EXCEPT !.start = -1] \in Open /\ [w EXCEPT !.start = -1].start = -1
        BY <4>1 DEF Open
      <4> QED BY <4>2 DEF w
    <3>2. d = [start |-> start, keys |-> keys]
      OBVIOUS
    <3> HIDE DEF o, d, start
    <3> QED BY <2>0, <3>1, <3>2 DEF Done
  <2>4. n \in Nat /\ n = m + 1 /\ n > m
    BY <2>0
  <2>5. value = updates /\ value \in [Keys -> Nat]
    <3>1. \A k \in Keys : value[k] = updates[k] /\ value[k] \in Nat
      BY <2>0, <2>2
    <3>2. value = [k \in Keys |-> value[k]] /\ updates = [k \in Keys |-> updates[k]]
      OBVIOUS
    <3> HIDE DEF value, updates
    <3> QED BY <3>1, <3>2
  <2>6. /\ at \in [Keys -> Int] /\ (\A k \in keys : at[k] = n)
        /\ \A k \in Keys \ keys : at[k] = obj.committed_at[k] /\ value[k] = obj.value[k]
    <3> HIDE DEF n
    <3> QED BY <2>0, <2>4
  <2> HIDE DEF o, d, n
  <2>7. txn \in [1 .. 2 -> Open] /\ \A s \in 1 .. 2 : txn[s] = IF s = t THEN o ELSE obj.txn[s]
    BY <2>0, <2>3
  <2>8. /\ newLog \in Seq(Done) /\ Len(newLog) = n /\ newLog[n] = d
        /\ \A i \in 1 .. m : newLog[i] = obj.log[i]
    BY <2>0, <2>3, <2>4, AppendProperties
  <2> HIDE DEF at, value, updates, txn, newLog, start, m
  <2>9. /\ obj' \in OccRecord /\ obj'.version = n /\ obj'.committed_at = at
        /\ obj'.value = value /\ obj'.updates = updates /\ obj'.txn = txn /\ obj'.log = newLog
    BY <1>0, <1>3, <2>4, <2>5, <2>6, <2>7, <2>8 DEF OccRecord
  <2>10. \A i \in 1 .. m : \A k \in obj.log[i].keys : k \in Keys /\ i <= obj.committed_at[k]
    BY <1>0, OccFields DEF Occ, m
  <2>11. \A i \in 1 .. n : \A k \in newLog[i].keys : i <= at[k]
    <3> SUFFICES ASSUME NEW i \in 1 .. n, NEW k \in newLog[i].keys PROVE i <= at[k]
      OBVIOUS
    <3>1. CASE i = n
      BY <2>3, <2>4, <2>6, <2>8, <3>1
    <3>2. CASE i # n
      <4>1. i \in 1 .. m /\ i <= n
        BY <2>0, <2>4, <3>2
      <4>2. k \in Keys /\ i <= obj.committed_at[k]
        BY <2>8, <2>10, <4>1
      <4> QED BY <2>6, <4>1, <4>2
    <3> QED BY <3>1, <3>2
  <2>12. \A s \in 1 .. 2 : txn[s].start <= n /\ txn[s].start \in Int
    <3>1. \A s \in 1 .. 2 : obj.txn[s].start <= m /\ obj.txn[s].start \in Int
      BY <1>0, <2>0, OccFields DEF Occ
    <3> QED BY <2>0, <2>3, <2>4, <2>7, <3>1
  <2>13. ASSUME NEW s \in 1 .. 2, NEW k \in Keys, txn[s].start # -1, at[k] <= txn[s].start
         PROVE  txn[s].saw[k] = value[k]
    <3>1. s # t /\ txn[s] = obj.txn[s]
      BY <2>3, <2>7, <2>13
    <3>2. obj.txn[s].start <= m /\ obj.txn[s].start \in Int
      BY <1>0, <2>0, OccFields DEF Occ
    <3>3. k \notin keys
      BY <2>0, <2>4, <2>6, <2>13, <3>1, <3>2
    <3>4. at[k] = obj.committed_at[k] /\ value[k] = obj.value[k]
      BY <2>6, <3>3
    <3> QED BY <2>13, <3>1, <3>4 DEF Occ
  <2>14. ASSUME NEW i \in 1 .. n, NEW j \in 1 .. n, i < j, newLog[j].start < i
         PROVE  newLog[i].keys \cap newLog[j].keys = {}
    <3>1. i \in 1 .. m /\ newLog[i] = obj.log[i]
      BY <2>0, <2>4, <2>8, <2>14
    <3>2. CASE j = n
      <4> SUFFICES ASSUME NEW k \in newLog[i].keys, k \in newLog[j].keys PROVE FALSE
        OBVIOUS
      <4>1. k \in keys /\ start < i
        BY <2>3, <2>8, <2>14, <3>2
      <4>2. i <= obj.committed_at[k] /\ obj.committed_at[k] <= start /\ obj.committed_at[k] \in Int
        BY <2>1, <2>10, <3>1, <4>1
      <4>3. i \in Int /\ start \in Int
        BY <2>0
      <4> QED BY <4>1, <4>2, <4>3
    <3>3. CASE j # n
      <4>1. j \in 1 .. m /\ newLog[j] = obj.log[j]
        BY <2>0, <2>4, <2>8, <3>3
      <4> QED BY <2>14, <3>1, <4>1 DEF Occ, m
    <3> QED BY <3>2, <3>3
  <2> QED BY <2>5, <2>8, <2>9, <2>11, <2>12, <2>13, <2>14 DEF Occ
<1> QED BY <1>1, <1>2, <1>3

\* The store starts empty.
LEMMA OccStart ==
  ASSUME Protocol!OccInit
  PROVE  Occ
<1> DEFINE zero == [k \in Keys |-> 0]
           never == [k \in Keys |-> -1]
           idle == [start |-> -1, saw |-> zero]
           txn == [t \in 1 .. 2 |-> idle]
<1>1. obj = [class |-> "occ", version |-> 0, committed_at |-> never, value |-> zero,
             updates |-> zero, txn |-> txn, log |-> <<>>]
  BY DEF Protocol!OccInit, Protocol!KEYS, Keys
<1>2. zero \in [Keys -> Nat] /\ never \in [Keys -> Int]
  OBVIOUS
<1> HIDE DEF zero, never
<1>3. idle \in Open /\ idle.start = -1
  BY <1>2 DEF Open
<1> HIDE DEF idle
<1>4. txn \in [1 .. 2 -> Open] /\ \A t \in 1 .. 2 : txn[t].start = -1
  BY <1>3
<1> HIDE DEF txn
<1>5. /\ obj \in OccRecord /\ obj.version = 0 /\ obj.value = zero /\ obj.updates = zero
      /\ obj.txn = txn /\ obj.log = <<>>
  BY <1>1, <1>2, <1>4 DEF OccRecord
<1> QED BY <1>4, <1>5 DEF Occ

\* No update is lost.
LEMMA OccPromise ==
  ASSUME Occ
  PROVE  Protocol!NoUpdateIsLost
<1>1. DOMAIN obj.log = 1 .. Len(obj.log)
  BY OccFields, LenProperties DEF Occ
<1> QED BY <1>1 DEF Occ, Protocol!NoUpdateIsLost

----------------------------------------------------------------------------
\* The greater of two, as the protocols write it.
LEMMA ProtocolGreater ==
  ASSUME NEW a \in Nat, NEW b \in Nat
  PROVE  Protocol!Max({a, b}) = IF a <= b THEN b ELSE a
<1>1. Max({a, b}) \in {a, b} /\ \A y \in {a, b} : y <= Max({a, b})
  <2>1. {a, b} \in SUBSET Nat /\ a + b \in Nat /\ \A y \in {a, b} : y <= a + b
    OBVIOUS
  <2> QED BY <2>1, MaxOfNaturals
<1>2. Protocol!Max({a, b}) = Max({a, b})
  BY Zenon DEF Max, Protocol!Max
<1> QED BY <1>1, <1>2

\* The first n elements of a sequence.
LEMMA FirstElements ==
  ASSUME NEW S, NEW s \in Seq(S), NEW n \in Nat, n <= Len(s)
  PROVE  /\ SubSeq(s, 1, n) \in Seq(S) /\ Len(SubSeq(s, 1, n)) = n
         /\ \A i \in 1 .. n : SubSeq(s, 1, n)[i] = s[i]
<1>1. \A i \in 1 .. n : s[i] \in S
  BY ElementOfSeq, LenProperties
<1>2. \A i \in 1 .. n : SubSeq(s, 1, n)[i] = s[1 + i - 1] /\ 1 + i - 1 = i
  BY <1>1, SubSeqProperties
<1> QED BY <1>1, <1>2, SubSeqProperties

\* A sequence that is as long as the first n and has the same elements is the first n.
LEMMA AreFirstElements ==
  ASSUME NEW S, NEW s \in Seq(S), NEW t \in Seq(S), NEW n \in Nat, n <= Len(s),
         Len(t) = n, \A i \in 1 .. n : t[i] = s[i]
  PROVE  t = SubSeq(s, 1, n)
<1> DEFINE u == SubSeq(s, 1, n)
<1>1. u \in Seq(S) /\ Len(u) = n /\ \A i \in 1 .. n : u[i] = s[i]
  BY FirstElements
<1> HIDE DEF u
<1>2. t = u
  BY <1>1, SeqEqual
<1> QED BY <1>2 DEF u

\* The fields of a write-ahead log.
WalRecord ==
  [class : {"wal"}, entries : Seq(Nat), durable_to : Nat, applied_to : Nat, checkpoint : Nat,
   state : Seq(Nat), saved : Seq(Nat), next : Nat, promised : SUBSET Nat]

\* State and checkpoint are what their prefixes of the log say, and what was
\* promised is in the durable one.
Wal ==
  /\ obj \in WalRecord
  /\ obj.checkpoint <= obj.applied_to /\ obj.applied_to <= obj.durable_to
  /\ obj.durable_to <= Len(obj.entries)
  /\ obj.state = SubSeq(obj.entries, 1, obj.applied_to)
  /\ obj.saved = SubSeq(obj.entries, 1, obj.checkpoint)
  /\ \A x \in obj.promised : \E i \in 1 .. obj.durable_to : obj.entries[i] = x

\* The fields, one by one.
LEMMA WalFields ==
  ASSUME obj \in WalRecord
  PROVE  /\ obj.class = "wal" /\ obj.entries \in Seq(Nat) /\ obj.durable_to \in Nat
         /\ obj.applied_to \in Nat /\ obj.checkpoint \in Nat /\ obj.state \in Seq(Nat)
         /\ obj.saved \in Seq(Nat) /\ obj.next \in Nat /\ obj.promised \in SUBSET Nat
         /\ Len(obj.entries) \in Nat /\ DOMAIN obj.entries = 1 .. Len(obj.entries)
         /\ \A i \in 1 .. Len(obj.entries) : obj.entries[i] \in Nat
BY DEF WalRecord

\* A longer log with the same beginning says the same of its prefixes.
LEMMA SameBeginning ==
  ASSUME NEW s \in Seq(Nat), NEW t \in Seq(Nat), NEW n \in Nat, n <= Len(s), n <= Len(t),
         \A i \in 1 .. n : t[i] = s[i]
  PROVE  SubSeq(t, 1, n) = SubSeq(s, 1, n)
<1> DEFINE u == SubSeq(t, 1, n)
<1>1. u \in Seq(Nat) /\ Len(u) = n /\ \A i \in 1 .. n : u[i] = t[i]
  BY FirstElements
<1> HIDE DEF u
<1>2. u = SubSeq(s, 1, n)
  BY <1>1, AreFirstElements
<1> QED BY <1>2 DEF u

\* An entry is appended, and not durable yet.
LEMMA WalAppendStep ==
  ASSUME Wal, Protocol!WalAppend
  PROVE  Wal'
<1> DEFINE entries == Append(obj.entries, obj.next)
           next == obj.next + 1
           n == Len(obj.entries)
<1>0. obj \in WalRecord
  BY DEF Wal
<1>1. obj' = [obj EXCEPT !.entries = entries, !.next = next]
  BY DEF Protocol!WalAppend
<1>2. /\ entries \in Seq(Nat) /\ Len(entries) = n + 1 /\ next \in Nat /\ n \in Nat
      /\ \A i \in 1 .. n : entries[i] = obj.entries[i]
  BY <1>0, WalFields, AppendProperties
<1> HIDE DEF entries, next
<1>3. /\ obj' \in WalRecord /\ obj'.entries = entries /\ obj'.durable_to = obj.durable_to
      /\ obj'.applied_to = obj.applied_to /\ obj'.checkpoint = obj.checkpoint /\ obj'.state = obj.state
      /\ obj'.saved = obj.saved /\ obj'.promised = obj.promised
  BY <1>0, <1>1, <1>2 DEF WalRecord
<1>4. /\ obj.applied_to \in Nat /\ obj.checkpoint \in Nat /\ obj.durable_to \in Nat
      /\ obj.applied_to <= n /\ obj.checkpoint <= n /\ obj.durable_to <= n
  BY <1>0, WalFields DEF Wal
<1>5. \A m \in Nat : m <= n => SubSeq(entries, 1, m) = SubSeq(obj.entries, 1, m)
  <2> SUFFICES ASSUME NEW m \in Nat, m <= n
               PROVE  SubSeq(entries, 1, m) = SubSeq(obj.entries, 1, m)
    OBVIOUS
  <2>0. obj.entries \in Seq(Nat) /\ m <= Len(obj.entries)
    BY <1>0, WalFields
  <2> HIDE DEF n
  <2>1. m <= Len(entries) /\ \A i \in 1 .. m : i \in 1 .. n /\ entries[i] = obj.entries[i]
    BY <1>2
  <2> QED BY <1>2, <2>0, <2>1, SameBeginning
<1>6. \A x \in obj.promised : \E i \in 1 .. obj.durable_to : entries[i] = x
  <2> SUFFICES ASSUME NEW x \in obj.promised PROVE \E i \in 1 .. obj.durable_to : entries[i] = x
    OBVIOUS
  <2>1. PICK i \in 1 .. obj.durable_to : obj.entries[i] = x
    BY DEF Wal
  <2>2. i \in 1 .. n
    <3> HIDE DEF n
    <3> QED BY <1>2, <1>4
  <2>3. entries[i] = x
    BY <1>2, <2>1, <2>2
  <2> QED BY <2>3
<1>7. obj.durable_to <= Len(entries)
  BY <1>2, <1>4
<1> QED BY <1>3, <1>4, <1>5, <1>6, <1>7 DEF Wal

\* Entries become durable.
LEMMA MarkDurableStep ==
  ASSUME Wal, NEW offset \in Nat, Protocol!MarkDurable(offset)
  PROVE  Wal'
<1> DEFINE d == Protocol!Max({obj.durable_to, offset + 1})
           first == SubSeq(obj.entries, 1, offset + 1)
           promised == obj.promised \cup Protocol!Range(first)
<1>0. obj \in WalRecord /\ offset < Len(obj.entries)
  BY DEF Wal, Protocol!MarkDurable
<1>1. obj' = [obj EXCEPT !.durable_to = d, !.promised = promised]
  BY DEF Protocol!MarkDurable
<1>2. /\ obj.durable_to \in Nat /\ Len(obj.entries) \in Nat /\ offset + 1 \in Nat /\ obj.applied_to \in Nat
      /\ offset + 1 <= Len(obj.entries) /\ obj.entries \in Seq(Nat) /\ obj.promised \in SUBSET Nat
      /\ \A i \in 1 .. Len(obj.entries) : obj.entries[i] \in Nat
  BY <1>0, WalFields
<1>3. /\ d \in Nat /\ obj.durable_to <= d /\ offset + 1 <= d /\ d <= Len(obj.entries)
  <2>1. d = IF obj.durable_to <= offset + 1 THEN offset + 1 ELSE obj.durable_to
    BY <1>2, ProtocolGreater
  <2> HIDE DEF d
  <2> QED BY <1>2, <2>1 DEF Wal
<1>4. first \in Seq(Nat) /\ Len(first) = offset + 1 /\ \A i \in 1 .. offset + 1 : first[i] = obj.entries[i]
  BY <1>2, FirstElements
<1>5. \A x \in Protocol!Range(first) : \E i \in 1 .. offset + 1 : obj.entries[i] = x
  BY <1>4, LenProperties DEF Protocol!Range
<1>6. promised \in SUBSET Nat /\ \A x \in promised : \E i \in 1 .. d : obj.entries[i] = x
  <2>1. \A x \in obj.promised : \E i \in 1 .. obj.durable_to : obj.entries[i] = x
    BY DEF Wal
  <2>2. \A i \in 1 .. offset + 1 : i \in 1 .. d /\ obj.entries[i] \in Nat
    BY <1>2, <1>3
  <2>3. \A i \in 1 .. obj.durable_to : i \in 1 .. d
    BY <1>2, <1>3
  <2> HIDE DEF first, d
  <2> QED BY <1>2, <1>5, <2>1, <2>2, <2>3
<1> HIDE DEF d, promised
<1>7. /\ obj' \in WalRecord /\ obj'.entries = obj.entries /\ obj'.durable_to = d
      /\ obj'.applied_to = obj.applied_to /\ obj'.checkpoint = obj.checkpoint /\ obj'.state = obj.state
      /\ obj'.saved = obj.saved /\ obj'.promised = promised
  BY <1>0, <1>1, <1>3, <1>6 DEF WalRecord
<1>8. obj.applied_to <= d
  BY <1>2, <1>3 DEF Wal
<1> QED BY <1>3, <1>6, <1>7, <1>8 DEF Wal

\* A durable entry is applied, in its turn.
LEMMA ApplyStep ==
  ASSUME Wal, NEW offset \in Nat, Protocol!Apply(offset)
  PROVE  Wal'
<1> DEFINE m == offset + 1
           state == Append(obj.state, obj.entries[m])
<1>0. obj \in WalRecord /\ offset < obj.durable_to /\ offset = obj.applied_to
  BY DEF Wal, Protocol!Apply
<1>1. obj' = [obj EXCEPT !.applied_to = m, !.state = state]
  BY DEF Protocol!Apply
<1>2. /\ obj.durable_to \in Nat /\ Len(obj.entries) \in Nat /\ m \in Nat /\ obj.checkpoint \in Nat
      /\ m <= obj.durable_to /\ m <= Len(obj.entries) /\ offset <= Len(obj.entries)
      /\ obj.entries \in Seq(Nat) /\ obj.checkpoint <= m
      /\ \A i \in 1 .. Len(obj.entries) : obj.entries[i] \in Nat
  BY <1>0, WalFields, SMTT(30) DEF Wal
<1>3. /\ obj.state \in Seq(Nat) /\ Len(obj.state) = offset
      /\ \A i \in 1 .. offset : obj.state[i] = obj.entries[i]
  BY <1>0, <1>2, FirstElements DEF Wal
<1>4. /\ state \in Seq(Nat) /\ Len(state) = m /\ state[m] = obj.entries[m]
      /\ \A i \in 1 .. offset : state[i] = obj.state[i]
  <2>1. obj.entries[m] \in Nat
    BY <1>2
  <2> QED BY <1>3, <2>1, AppendProperties
<1> HIDE DEF state
<1>5. \A i \in 1 .. m : state[i] = obj.entries[i]
  <2>1. \A i \in 1 .. m : i = m \/ i \in 1 .. offset
    OBVIOUS
  <2> QED BY <1>3, <1>4, <2>1
<1>6. state = SubSeq(obj.entries, 1, m)
  BY <1>2, <1>4, <1>5, AreFirstElements
<1> HIDE DEF m
<1>7. /\ obj' \in WalRecord /\ obj'.entries = obj.entries /\ obj'.durable_to = obj.durable_to
      /\ obj'.applied_to = m /\ obj'.checkpoint = obj.checkpoint /\ obj'.state = state
      /\ obj'.saved = obj.saved /\ obj'.promised = obj.promised
  BY <1>0, <1>1, <1>2, <1>4 DEF WalRecord
<1> QED BY <1>2, <1>6, <1>7 DEF Wal

\* The applied state is made durable.
LEMMA TakeCheckpointStep ==
  ASSUME Wal, Protocol!TakeCheckpoint
  PROVE  Wal'
<1>0. obj \in WalRecord
  BY DEF Wal
<1>1. obj' = [obj EXCEPT !.checkpoint = obj.applied_to, !.saved = obj.state]
  BY DEF Protocol!TakeCheckpoint
<1>2. /\ obj' \in WalRecord /\ obj'.entries = obj.entries /\ obj'.durable_to = obj.durable_to
      /\ obj'.applied_to = obj.applied_to /\ obj'.checkpoint = obj.applied_to /\ obj'.state = obj.state
      /\ obj'.saved = obj.state /\ obj'.promised = obj.promised
  BY <1>0, <1>1 DEF WalRecord
<1>3. obj.applied_to <= obj.applied_to
  BY <1>0, WalFields
<1> QED BY <1>2, <1>3 DEF Wal

\* A crash: what is durable is left.
LEMMA WalCrashStep ==
  ASSUME Wal, Protocol!WalCrash
  PROVE  Wal'
<1> DEFINE n == obj.durable_to
           entries == SubSeq(obj.entries, 1, n)
<1>0. obj \in WalRecord
  BY DEF Wal
<1>1. obj' = [obj EXCEPT !.entries = entries, !.state = obj.saved, !.applied_to = obj.checkpoint]
  BY DEF Protocol!WalCrash
<1>2. /\ n \in Nat /\ n <= Len(obj.entries) /\ obj.entries \in Seq(Nat) /\ obj.checkpoint \in Nat
      /\ obj.checkpoint <= n /\ Len(obj.entries) \in Nat /\ obj.checkpoint <= Len(obj.entries)
      /\ obj.saved \in Seq(Nat)
  BY <1>0, WalFields DEF Wal
<1>3. entries \in Seq(Nat) /\ Len(entries) = n /\ \A i \in 1 .. n : entries[i] = obj.entries[i]
  BY <1>2, FirstElements
<1> HIDE DEF entries
<1>4. SubSeq(entries, 1, obj.checkpoint) = SubSeq(obj.entries, 1, obj.checkpoint)
  <2>1. \A i \in 1 .. obj.checkpoint : entries[i] = obj.entries[i]
    BY <1>2, <1>3
  <2> QED BY <1>2, <1>3, <2>1, SameBeginning
<1>5. /\ obj' \in WalRecord /\ obj'.entries = entries /\ obj'.durable_to = n
      /\ obj'.applied_to = obj.checkpoint /\ obj'.checkpoint = obj.checkpoint /\ obj'.state = obj.saved
      /\ obj'.saved = obj.saved /\ obj'.promised = obj.promised
  BY <1>0, <1>1, <1>3 DEF WalRecord
<1>6. \A x \in obj.promised : \E i \in 1 .. n : entries[i] = x
  BY <1>3 DEF Wal
<1>7. obj.checkpoint <= obj.checkpoint /\ n <= Len(entries)
  BY <1>2, <1>3
<1> QED BY <1>2, <1>4, <1>5, <1>6, <1>7 DEF Wal

\* The log starts empty.
LEMMA WalStart ==
  ASSUME Protocol!WalInit
  PROVE  Wal
<1>1. /\ obj \in WalRecord /\ obj.entries = <<>> /\ obj.durable_to = 0 /\ obj.applied_to = 0
      /\ obj.checkpoint = 0 /\ obj.state = <<>> /\ obj.saved = <<>> /\ obj.promised = {}
  BY DEF Protocol!WalInit, WalRecord
<1>2. SubSeq(<<>>, 1, 0) = <<>>
  OBVIOUS
<1> QED BY <1>1, <1>2 DEF Wal

\* Replay gives what the log says.
LEMMA WalPromise ==
  ASSUME Wal
  PROVE  Protocol!WalReplaysExactly
<1>0. obj \in WalRecord /\ DOMAIN obj.entries = 1 .. Len(obj.entries)
  BY WalFields DEF Wal
<1>1. obj.promised \subseteq Protocol!Range(obj.entries)
  <2> SUFFICES ASSUME NEW x \in obj.promised PROVE x \in Protocol!Range(obj.entries)
    OBVIOUS
  <2>1. PICK i \in 1 .. obj.durable_to : obj.entries[i] = x
    BY DEF Wal
  <2>2. i \in 1 .. Len(obj.entries)
    BY <1>0, WalFields DEF Wal
  <2> QED BY <1>0, <2>1, <2>2 DEF Protocol!Range
<1> QED BY <1>1 DEF Wal, Protocol!WalReplaysExactly

----------------------------------------------------------------------------
\* The fields of a chain.
ChainRecord ==
  [class : {"chain"}, chain : Seq(Node), held : [Node -> Nat], acked : Nat, seen : Nat]

\* Down the chain nodes hold less and less, and all of them what the tail has
\* acknowledged or shown.
Ordered(chain, held, acked, seen) ==
  /\ \A i \in 1 .. Len(chain) : held[chain[i]] >= acked /\ held[chain[i]] >= seen
  /\ \A i, j \in 1 .. Len(chain) : i < j => chain[i] # chain[j] /\ held[chain[j]] <= held[chain[i]]

\* A chain is never empty.
Chain ==
  /\ obj \in ChainRecord
  /\ Len(obj.chain) >= 1
  /\ Ordered(obj.chain, obj.held, obj.acked, obj.seen)

\* The fields, one by one.
LEMMA ChainFields ==
  ASSUME Chain
  PROVE  /\ obj \in ChainRecord /\ obj.class = "chain" /\ obj.chain \in Seq(Node)
         /\ obj.held \in [Node -> Nat] /\ obj.acked \in Nat /\ obj.seen \in Nat
         /\ Len(obj.chain) \in Nat /\ 1 \in 1 .. Len(obj.chain) /\ Len(obj.chain) \in 1 .. Len(obj.chain)
         /\ DOMAIN obj.chain = 1 .. Len(obj.chain)
         /\ \A i \in 1 .. Len(obj.chain) : obj.chain[i] \in Node /\ obj.held[obj.chain[i]] \in Nat
<1>1. /\ obj \in ChainRecord /\ obj.class = "chain" /\ obj.chain \in Seq(Node)
      /\ obj.held \in [Node -> Nat] /\ obj.acked \in Nat /\ obj.seen \in Nat /\ Len(obj.chain) >= 1
  BY DEF Chain, ChainRecord
<1>2. Len(obj.chain) \in Nat /\ DOMAIN obj.chain = 1 .. Len(obj.chain)
  BY <1>1, LenProperties
<1>3. \A i \in 1 .. Len(obj.chain) : obj.chain[i] \in Node
  BY <1>1, ElementOfSeq
<1>4. 1 \in 1 .. Len(obj.chain) /\ Len(obj.chain) \in 1 .. Len(obj.chain)
  BY <1>1, <1>2
<1> QED BY <1>1, <1>2, <1>3, <1>4

\* One more write at position k, which the position before it has.
LEMMA OneMoreHeld ==
  ASSUME Chain, NEW k \in 1 .. Len(obj.chain),
         k > 1 => obj.held[obj.chain[k]] < obj.held[obj.chain[k - 1]],
         obj' = [obj EXCEPT !.held[obj.chain[k]] = @ + 1]
  PROVE  Chain'
<1> DEFINE x == obj.chain[k]
           more == obj.held[x] + 1
           held == [obj.held EXCEPT ![x] = more]
           n == Len(obj.chain)
           h(i) == obj.held[obj.chain[i]]
           g(i) == held[obj.chain[i]]
<1>0. /\ obj \in ChainRecord /\ x \in Node /\ obj.held \in [Node -> Nat] /\ n \in Nat
      /\ obj.acked \in Nat /\ obj.seen \in Nat
      /\ \A i \in 1 .. n : obj.chain[i] \in Node /\ h(i) \in Nat
  BY ChainFields
<1>1. obj' = [obj EXCEPT !.held = held]
  OBVIOUS
<1>9. more \in Nat /\ more = obj.held[x] + 1
  BY <1>0
<1> HIDE DEF more
<1>2. held \in [Node -> Nat] /\ \A y \in Node : held[y] = IF y = x THEN more ELSE obj.held[y]
  <2> HIDE DEF x, n, h
  <2> QED BY <1>0, <1>9
<1>3. /\ \A i \in 1 .. n : h(i) >= obj.acked /\ h(i) >= obj.seen
      /\ \A i, j \in 1 .. n : i < j => obj.chain[i] # obj.chain[j] /\ h(j) <= h(i)
  BY DEF Chain, Ordered
<1>4. \A i \in 1 .. n : g(i) = IF i = k THEN h(k) + 1 ELSE h(i)
  <2> SUFFICES ASSUME NEW i \in 1 .. n PROVE g(i) = IF i = k THEN h(k) + 1 ELSE h(i)
    OBVIOUS
  <2>1. i # k => obj.chain[i] # x
    <3>1. i < k \/ i > k \/ i = k
      BY <1>0
    <3> QED BY <1>3, <3>1
  <2> QED BY <1>0, <1>2, <1>9, <2>1
<1>5. k > 1 => h(k) < h(k - 1)
  OBVIOUS
<1>10. n >= 1
  BY DEF Chain
<1>13. k \in 1 .. n /\ n \in Nat
  BY ChainFields
<1> HIDE DEF held, h, g, n
<1>6. /\ obj' \in ChainRecord /\ obj'.chain = obj.chain /\ obj'.held = held /\ obj'.acked = obj.acked
      /\ obj'.seen = obj.seen
  BY <1>0, <1>1, <1>2 DEF ChainRecord
<1>7. \A i \in 1 .. n : g(i) >= obj.acked /\ g(i) >= obj.seen
  BY <1>0, <1>3, <1>4
<1>8. \A i, j \in 1 .. n : i < j => g(j) <= g(i)
  <2> SUFFICES ASSUME NEW i \in 1 .. n, NEW j \in 1 .. n, i < j PROVE g(j) <= g(i)
    OBVIOUS
  <2>0. k \in 1 .. n /\ k \in Nat /\ n \in Nat /\ i \in Nat /\ j \in Nat /\ 1 <= i /\ j <= n
    BY <1>13
  <2>1. h(j) <= h(i) /\ h(i) \in Nat /\ h(j) \in Nat
    BY <1>0, <1>3
  <2>2. CASE j = k
    <3>1. k > 1 /\ k - 1 \in 1 .. n /\ (i = k - 1 \/ i < k - 1)
      BY <2>0, <2>2
    <3>2. h(k - 1) <= h(i) /\ h(k - 1) \in Nat /\ h(k) \in Nat
      BY <1>0, <1>3, <2>0, <2>1, <3>1
    <3>3. h(k) + 1 <= h(i)
      BY <1>5, <2>1, <3>1, <3>2
    <3>4. g(j) = h(k) + 1 /\ g(i) = h(i)
      BY <1>4, <2>0, <2>2
    <3> QED BY <3>3, <3>4
  <2>3. CASE j # k
    BY <1>4, <2>1, <2>3
  <2> QED BY <2>2, <2>3
<1>11. Ordered(obj.chain, held, obj.acked, obj.seen)
  <2>1. \A i, j \in 1 .. Len(obj.chain) : i < j => obj.chain[i] # obj.chain[j]
    BY <1>3 DEF n
  <2> QED BY <1>7, <1>8, <2>1 DEF Ordered, g, n
<1>12. Len(obj.chain) >= 1
  BY <1>10 DEF n
<1> QED BY <1>6, <1>11, <1>12 DEF Chain

\* A write enters at the head.
LEMMA ChainWriteStep ==
  ASSUME Chain, Protocol!ChainWrite
  PROVE  Chain'
<1>1. Head(obj.chain) = obj.chain[1]
  BY ChainFields, HeadTailProperties
<1>2. obj' = [obj EXCEPT !.held[obj.chain[1]] = @ + 1]
  BY <1>1 DEF Protocol!ChainWrite
<1> QED BY <1>2, ChainFields, OneMoreHeld

\* A write flows one link down.
LEMMA ForwardStep ==
  ASSUME Chain, NEW i \in 1 .. 2, Protocol!Forward(i)
  PROVE  Chain'
<1> DEFINE k == i + 1
<1>1. /\ k \in 1 .. Len(obj.chain) /\ obj.held[obj.chain[k]] < obj.held[obj.chain[i]] /\ k - 1 = i
      /\ obj' = [obj EXCEPT !.held[obj.chain[k]] = @ + 1]
  <2>1. /\ DOMAIN obj.chain = 1 .. Len(obj.chain)
        /\ k \in DOMAIN obj.chain /\ obj.held[obj.chain[k]] < obj.held[obj.chain[i]]
        /\ obj' = [obj EXCEPT !.held[obj.chain[k]] = @ + 1]
    BY ChainFields, Zenon DEF Protocol!Forward
  <2>2. k - 1 = i
    OBVIOUS
  <2> QED BY <2>1, <2>2
<1> HIDE DEF k
<1> QED BY <1>1, OneMoreHeld

\* The tail acknowledges, or shows, what it holds.
LEMMA TailStep ==
  ASSUME Chain, Protocol!Acknowledge \/ \E n \in Node : Protocol!ChainRead(n)
  PROVE  Chain'
<1> DEFINE n == Len(obj.chain)
           tail == obj.held[obj.chain[n]]
           top == Protocol!Max({obj.seen, tail})
<1>0. /\ obj \in ChainRecord /\ n \in Nat /\ n \in 1 .. n /\ tail \in Nat /\ obj.seen \in Nat
      /\ obj.acked \in Nat /\ \A i \in 1 .. n : obj.held[obj.chain[i]] \in Nat
  BY ChainFields
<1>1. obj' = [obj EXCEPT !.acked = tail] \/ obj' = [obj EXCEPT !.seen = top]
  BY Zenon DEF Protocol!Acknowledge, Protocol!ChainRead, Protocol!Readable, Protocol!Last
<1>2. top = IF obj.seen <= tail THEN tail ELSE obj.seen
  BY <1>0, ProtocolGreater
<1>3. /\ \A i \in 1 .. n : obj.held[obj.chain[i]] >= obj.acked /\ obj.held[obj.chain[i]] >= obj.seen
      /\ \A i, j \in 1 .. n :
           i < j => obj.chain[i] # obj.chain[j] /\ obj.held[obj.chain[j]] <= obj.held[obj.chain[i]]
  BY DEF Chain, Ordered
<1>4. \A i \in 1 .. n : obj.held[obj.chain[i]] >= tail
  <2> SUFFICES ASSUME NEW i \in 1 .. n PROVE obj.held[obj.chain[i]] >= tail
    OBVIOUS
  <2>1. i = n \/ i < n
    BY <1>0
  <2> QED BY <1>0, <1>3, <2>1
<1> HIDE DEF tail, top, n
<1>5. top \in Nat /\ \A i \in 1 .. n : obj.held[obj.chain[i]] >= top
  BY <1>0, <1>2, <1>3, <1>4
<1>6. /\ obj' \in ChainRecord /\ obj'.chain = obj.chain /\ obj'.held = obj.held
      /\ obj'.acked \in {obj.acked, tail} /\ obj'.seen \in {obj.seen, top}
  BY <1>0, <1>1, <1>5 DEF ChainRecord
<1>7. \A i \in 1 .. n : obj'.held[obj'.chain[i]] >= obj'.acked /\ obj'.held[obj'.chain[i]] >= obj'.seen
  BY <1>3, <1>4, <1>5, <1>6
<1> QED BY <1>3, <1>6, <1>7 DEF Chain, Ordered, n

\* A node fails, and the chain closes over the gap.
LEMMA FailNodeStep ==
  ASSUME Chain, NEW x \in Node, Protocol!FailNode(x)
  PROVE  Chain'
<1> DEFINE n == Len(obj.chain)
<1>0. /\ obj \in ChainRecord /\ obj.chain \in Seq(Node) /\ n \in Nat /\ n > 1
      /\ DOMAIN obj.chain = 1 .. n
  BY ChainFields DEF Protocol!FailNode
<1>1. PICK k \in 1 .. n : obj' = [obj EXCEPT !.chain = Protocol!RemoveAt(obj.chain, k)]
  BY <1>0 DEF Protocol!FailNode
<1> DEFINE a == SubSeq(obj.chain, 1, k - 1)
           b == SubSeq(obj.chain, k + 1, n)
           chain == a \o b
           at(i) == IF i < k THEN i ELSE i + 1
<1>2. a \in Seq(Node) /\ Len(a) = k - 1 /\ \A i \in 1 .. k - 1 : a[i] = obj.chain[i]
  BY <1>0, FirstElements
<1>3. b \in Seq(Node) /\ Len(b) = n - k /\ \A i \in 1 .. n - k : b[i] = obj.chain[k + i]
  <2>1. \A i \in k + 1 .. n : obj.chain[i] \in Node
    BY <1>0, ElementOfSeq
  <2>2. /\ b \in Seq(Node) /\ Len(b) = IF k + 1 <= n THEN n - (k + 1) + 1 ELSE 0
        /\ \A i \in 1 .. n - (k + 1) + 1 : b[i] = obj.chain[k + 1 + i - 1]
    BY <1>0, <2>1, SubSeqProperties
  <2> HIDE DEF b, n
  <2>3. n - (k + 1) + 1 = n - k /\ (~ (k + 1 <= n) => n - k = 0) /\ \A i \in Nat : k + 1 + i - 1 = k + i
    BY <1>0
  <2>4. \A i \in 1 .. n - k : b[i] = obj.chain[k + i]
    BY <2>2, <2>3
  <2> QED BY <2>2, <2>3, <2>4
<1>4. obj' = [obj EXCEPT !.chain = chain]
  BY <1>1 DEF Protocol!RemoveAt
<1> HIDE DEF a, b, n
<1>5. /\ chain \in Seq(Node) /\ Len(chain) = n - 1
      /\ \A i \in 1 .. n - 1 : chain[i] = obj.chain[at(i)] /\ at(i) \in 1 .. n
  <2>1. /\ chain \in Seq(Node) /\ Len(chain) = Len(a) + Len(b)
        /\ \A i \in 1 .. Len(a) + Len(b) : chain[i] = IF i <= Len(a) THEN a[i] ELSE b[i - Len(a)]
    BY <1>2, <1>3, ConcatProperties
  <2>2. Len(a) + Len(b) = n - 1
    BY <1>0, <1>2, <1>3
  <2> HIDE DEF chain
  <2> SUFFICES ASSUME NEW i \in 1 .. n - 1 PROVE chain[i] = obj.chain[at(i)] /\ at(i) \in 1 .. n
    BY <2>1, <2>2
  <2>3. CASE i < k
    <3>1. i \in 1 .. k - 1 /\ i <= Len(a) /\ i \in 1 .. n
      BY <1>0, <1>2, <2>3
    <3> QED BY <1>2, <2>1, <2>2, <2>3, <3>1
  <2>4. CASE ~ (i < k)
    <3>1. /\ ~ (i <= Len(a)) /\ i - Len(a) = i - k + 1 /\ i - k + 1 \in 1 .. n - k
          /\ k + (i - k + 1) = i + 1 /\ i + 1 \in 1 .. n
      BY SMTT(30), <1>0, <1>2, <2>4
    <3>2. chain[i] = b[i - k + 1] /\ b[i - k + 1] = obj.chain[i + 1]
      BY <1>3, <2>1, <2>2, <3>1
    <3> QED BY <2>4, <3>1, <3>2
  <2> QED BY <2>3, <2>4
<1>6. \A i, j \in 1 .. n - 1 : i < j => at(i) < at(j)
  BY <1>0
<1> HIDE DEF chain, at
<1>7. /\ obj' \in ChainRecord /\ obj'.chain = chain /\ obj'.held = obj.held
      /\ obj'.acked = obj.acked /\ obj'.seen = obj.seen
  BY <1>0, <1>4, <1>5 DEF ChainRecord
<1>8. Ordered(chain, obj.held, obj.acked, obj.seen)
  <2>1. /\ \A i \in 1 .. n : obj.held[obj.chain[i]] >= obj.acked /\ obj.held[obj.chain[i]] >= obj.seen
        /\ \A i, j \in 1 .. n :
             i < j => obj.chain[i] # obj.chain[j] /\ obj.held[obj.chain[j]] <= obj.held[obj.chain[i]]
    BY DEF Chain, Ordered, n
  <2> QED BY <1>5, <1>6, <2>1, SMTT(30) DEF Ordered
<1>9. Len(chain) >= 1
  BY <1>0, <1>5
<1> QED BY <1>7, <1>8, <1>9 DEF Chain

\* The chain starts whole.
LEMMA ChainStart ==
  ASSUME Protocol!ChainInit
  PROVE  Chain
<1> DEFINE held == [x \in Node |-> 0]
           chain == <<1, 2, 3>>
<1>1. obj = [class |-> "chain", chain |-> chain, held |-> held, acked |-> 0, seen |-> 0]
  BY DEF Protocol!ChainInit, Protocol!NODES, Node
<1>2. held \in [Node -> Nat] /\ \A x \in Node : held[x] = 0
  OBVIOUS
<1>3. chain \in Seq(Node) /\ Len(chain) = 3 /\ \A i \in 1 .. 3 : chain[i] = i /\ i \in Node
  BY DEF Node
<1> HIDE DEF held, chain
<1>4. obj \in ChainRecord /\ obj.chain = chain /\ obj.held = held /\ obj.acked = 0 /\ obj.seen = 0
  BY <1>1, <1>2, <1>3 DEF ChainRecord
<1>5. Ordered(chain, held, 0, 0)
  BY <1>2, <1>3 DEF Ordered
<1>6. Len(chain) >= 1
  BY <1>3
<1> QED BY <1>4, <1>5, <1>6 DEF Chain

\* What was acknowledged or read is on every node left.
LEMMA ChainPromise ==
  ASSUME Chain
  PROVE  Protocol!ChainKeepsAcked
<1> DEFINE n == Len(obj.chain)
           top == Protocol!Max({obj.acked, obj.seen})
<1>0. /\ n \in Nat /\ obj.acked \in Nat /\ obj.seen \in Nat /\ DOMAIN obj.chain = 1 .. n
      /\ \A i \in 1 .. n : obj.held[obj.chain[i]] \in Nat
  BY ChainFields
<1>1. top = IF obj.acked <= obj.seen THEN obj.seen ELSE obj.acked
  BY <1>0, ProtocolGreater
<1>2. \A i \in 1 .. n : obj.held[obj.chain[i]] >= top
  BY <1>1 DEF Chain, Ordered
<1>3. \A i \in 1 .. n : i > 1 => obj.held[obj.chain[i]] <= obj.held[obj.chain[i - 1]]
  <2> SUFFICES ASSUME NEW i \in 1 .. n, i > 1 PROVE obj.held[obj.chain[i]] <= obj.held[obj.chain[i - 1]]
    OBVIOUS
  <2>1. i - 1 \in 1 .. n /\ i - 1 < i
    BY <1>0
  <2> QED BY <2>1 DEF Chain, Ordered
<1> QED BY <1>0, <1>2, <1>3 DEF Protocol!ChainKeepsAcked

----------------------------------------------------------------------------
\* A hint: what a substitute keeps for a replica that was down.
Hint == [replica : Node, at : Nat, version : Nat]

\* The fields of a value on replicas that come and go.
QuorumRecord ==
  [class : {"quorum"}, up : SUBSET Node, val : [Node -> Nat], version : Nat, hints : SUBSET Hint,
   now : Nat, clean : Nat, sloppy : Nat, expired : BOOLEAN, read : Nat, newest : Nat]

\* The replicas that have version v or a newer one.
Having(val, v) == {r \in Node : val[r] >= v}

\* Some replica or substitute has version v or a newer one.
Survives(val, hints, v) == (\E r \in Node : val[r] >= v) \/ (\E h \in hints : h.version >= v)

\* A write that was acknowledged cleanly is on a quorum, and one that was not on a
\* replica or in a hint.
QuorumValue ==
  /\ obj \in QuorumRecord
  /\ obj.clean <= obj.version /\ obj.sloppy <= obj.version
  /\ \A h \in obj.hints : h.version <= obj.version
  /\ \A r \in Node : obj.val[r] <= obj.version
  /\ Cardinality(Having(obj.val, obj.clean)) >= WriteQuorum
  /\ Protocol!IsConsistent => obj.read >= obj.newest
  /\ ~ obj.expired => Survives(obj.val, obj.hints, obj.sloppy)

\* The number of elements as the instance writes it.
LEMMA ProtocolCount == ASSUME NEW S PROVE Protocol!Cardinality(S) = Cardinality(S)
BY Zenon DEF Cardinality, Protocol!Cardinality

\* The greatest as the instance writes it.
LEMMA ProtocolMax == ASSUME NEW S PROVE Protocol!Max(S) = Max(S)
BY Zenon DEF Max, Protocol!Max

\* There are three replicas.
LEMMA ThreeNodes ==
  /\ IsFiniteSet(Node) /\ Cardinality(Node) = 3
  /\ \A S \in SUBSET Node : IsFiniteSet(S) /\ Cardinality(S) \in Nat
<1>1. IsFiniteSet(1 .. 3) /\ Cardinality(1 .. 3) = 3
  <2>1. 1 \in Int /\ 3 \in Int /\ 3 - 1 + 1 = 3 /\ ~ (1 > 3)
    OBVIOUS
  <2>2. IsFiniteSet(1 .. 3) /\ Cardinality(1 .. 3) = IF 1 > 3 THEN 0 ELSE 3 - 1 + 1
    BY <2>1, FS_Interval
  <2> QED BY <2>1, <2>2
<1>2. ASSUME NEW S \in SUBSET Node PROVE IsFiniteSet(S) /\ Cardinality(S) \in Nat
  <2>1. IsFiniteSet(S)
    BY <1>1, FS_Subset DEF Node
  <2> QED BY <2>1, FS_CardinalityType
<1> QED BY <1>1, <1>2 DEF Node

\* Where versions only grow, as many replicas have what was had.
LEMMA HavingGrows ==
  ASSUME NEW val \in [Node -> Nat], NEW new \in [Node -> Nat], NEW v \in Nat,
         \A r \in Node : new[r] >= val[r], Cardinality(Having(val, v)) >= WriteQuorum,
         WriteQuorum \in Nat
  PROVE  Cardinality(Having(new, v)) >= WriteQuorum
<1>1. \A r \in Node : val[r] >= v => new[r] >= v
  <2> SUFFICES ASSUME NEW r \in Node, val[r] >= v PROVE new[r] >= v
    OBVIOUS
  <2>1. val[r] \in Nat /\ new[r] \in Nat /\ new[r] >= val[r]
    OBVIOUS
  <2> QED BY <2>1
<1>2. Having(val, v) \in SUBSET Having(new, v) /\ Having(new, v) \in SUBSET Node
      /\ Having(val, v) \in SUBSET Node
  BY <1>1 DEF Having
<1>3. Cardinality(Having(val, v)) <= Cardinality(Having(new, v))
  BY <1>2, ThreeNodes, FS_Subset
<1>4. Cardinality(Having(val, v)) \in Nat /\ Cardinality(Having(new, v)) \in Nat
  BY <1>2, ThreeNodes
<1> QED BY <1>3, <1>4

\* A replica goes or comes, or time passes.
LEMMA QuorumTimeStep ==
  ASSUME QuorumValue, Protocol!QuorumTick \/ \E r \in Node : Protocol!Toggle(r)
  PROVE  QuorumValue'
<1>0. obj \in QuorumRecord
  BY DEF QuorumValue
<1>2. /\ obj' \in QuorumRecord /\ obj'.val = obj.val /\ obj'.version = obj.version
      /\ obj'.hints = obj.hints /\ obj'.clean = obj.clean /\ obj'.sloppy = obj.sloppy
      /\ obj'.expired = obj.expired /\ obj'.read = obj.read /\ obj'.newest = obj.newest
  <2>1. CASE Protocol!QuorumTick
    <3> DEFINE now == obj.now + 1
    <3>1. now \in Nat
      BY <1>0 DEF QuorumRecord
    <3>2. obj' = [obj EXCEPT !.now = now]
      BY <2>1 DEF Protocol!QuorumTick
    <3> HIDE DEF now
    <3> QED BY <1>0, <3>1, <3>2 DEF QuorumRecord
  <2>2. CASE \E r \in Node : Protocol!Toggle(r)
    <3>1. PICK r \in Node : Protocol!Toggle(r)
      BY <2>2
    <3> DEFINE up == IF r \in obj.up THEN obj.up \ {r} ELSE obj.up \cup {r}
    <3>2. up \in SUBSET Node
      BY <1>0 DEF QuorumRecord
    <3>3. obj' = [obj EXCEPT !.up = up]
      BY <3>1 DEF Protocol!Toggle
    <3> HIDE DEF up
    <3> QED BY <1>0, <3>2, <3>3 DEF QuorumRecord
  <2> QED BY <2>1, <2>2
<1> QED BY <1>2 DEF QuorumValue, Protocol!IsConsistent, Protocol!NODES

\* A write reaches every replica that is up, and leaves a hint where it must.
LEMMA QuorumWriteStep ==
  ASSUME ProtocolConstants, QuorumValue, Protocol!QuorumWrite
  PROVE  QuorumValue'
<1> DEFINE v == obj.version + 1
           out == Protocol!Outcome(obj)
           val == [r \in Node |-> IF r \in obj.up THEN v ELSE obj.val[r]]
           clean == IF out = "clean" THEN v ELSE obj.clean
           sloppy == IF out = "sloppy" THEN v ELSE obj.sloppy
<1>0. /\ obj \in QuorumRecord /\ obj.version \in Nat /\ obj.up \in SUBSET Node /\ obj.now \in Nat
      /\ obj.val \in [Node -> Nat] /\ obj.hints \in SUBSET Hint /\ obj.clean \in Nat
      /\ obj.sloppy \in Nat /\ WriteQuorum \in Nat
  BY DEF QuorumValue, QuorumRecord, ProtocolConstants
<1>1. PICK down \in Node :
        obj' = [obj EXCEPT !.version = v,
                  !.val = val,
                  !.hints = IF out = "sloppy"
                            THEN @ \cup {[replica |-> down, at |-> obj.now, version |-> v]} ELSE @,
                  !.clean = clean, !.sloppy = sloppy]
  BY Zenon DEF Protocol!QuorumWrite, Protocol!NODES, Node
<1> DEFINE hint == [replica |-> down, at |-> obj.now, version |-> v]
           hints == IF out = "sloppy" THEN obj.hints \cup {hint} ELSE obj.hints
<1>2. obj' = [obj EXCEPT !.version = v, !.val = val, !.hints = hints, !.clean = clean,
                         !.sloppy = sloppy]
  BY <1>1
<1>3. v \in Nat /\ obj.version < v
  BY <1>0
<1>4. out = "clean" => Cardinality(obj.up) >= WriteQuorum
  BY ProtocolCount DEF Protocol!Outcome
<1> HIDE DEF v, out
<1>5. /\ val \in [Node -> Nat] /\ \A r \in Node : val[r] = IF r \in obj.up THEN v ELSE obj.val[r]
  BY <1>0, <1>3
<1>6. hint \in Hint /\ hint.version = v
  BY <1>0, <1>3 DEF Hint
<1> HIDE DEF hint
<1>7. /\ hints \in SUBSET Hint /\ obj.hints \in SUBSET hints /\ clean \in Nat /\ sloppy \in Nat
      /\ clean <= v /\ sloppy <= v /\ \A h \in hints : h.version <= v
      /\ out = "sloppy" => hint \in hints
  <2>1. /\ hints \in SUBSET Hint /\ obj.hints \in SUBSET hints /\ clean \in Nat /\ sloppy \in Nat
        /\ out = "sloppy" => hint \in hints
    BY <1>0, <1>3, <1>6
  <2>2. clean <= v /\ sloppy <= v
    BY <1>0, <1>3 DEF QuorumValue
  <2>3. \A h \in obj.hints : h.version <= obj.version /\ h.version \in Nat
    BY <1>0 DEF QuorumValue, Hint
  <2>4. \A h \in hints : h.version <= v
    BY <1>0, <1>3, <1>6, <2>3
  <2> QED BY <2>1, <2>2, <2>4
<1>13. \A r \in Node : obj.val[r] \in Nat /\ obj.val[r] <= obj.version
  BY <1>0 DEF QuorumValue
<1>9. \A r \in Node : val[r] >= obj.val[r]
  <2> HIDE DEF val
  <2> QED BY <1>0, <1>3, <1>5, <1>13
<1>8. Cardinality(Having(val, clean)) >= WriteQuorum
  <2>1. CASE out = "clean"
    <3>1. obj.up \in SUBSET Having(val, clean) /\ Having(val, clean) \in SUBSET Node
      BY <1>0, <1>3, <1>5, <2>1 DEF Having
    <3>2. Cardinality(obj.up) <= Cardinality(Having(val, clean))
      BY <3>1, ThreeNodes, FS_Subset
    <3>3. Cardinality(obj.up) \in Nat /\ Cardinality(Having(val, clean)) \in Nat
      BY <1>0, <3>1, ThreeNodes
    <3> HIDE DEF clean, val
    <3> QED BY <1>0, <1>4, <2>1, <3>2, <3>3
  <2>2. CASE out # "clean"
    <3>1. clean = obj.clean
      BY <2>2
    <3>2. Cardinality(Having(obj.val, obj.clean)) >= WriteQuorum
      BY DEF QuorumValue
    <3> HIDE DEF clean, val
    <3> QED BY <1>0, <1>5, <1>9, <3>1, <3>2, HavingGrows
  <2> QED BY <2>1, <2>2
<1>10. ~ obj.expired => Survives(val, hints, sloppy)
  <2>1. CASE out = "sloppy"
    <3>1. sloppy = v /\ hint \in hints /\ hint.version >= v
      BY <1>3, <1>6, <1>7, <2>1
    <3> QED BY <3>1 DEF Survives
  <2>2. CASE out # "sloppy"
    <3>1. sloppy = obj.sloppy
      BY <2>2
    <3>2. ~ obj.expired => Survives(obj.val, obj.hints, obj.sloppy)
      BY DEF QuorumValue
    <3> HIDE DEF sloppy, hints, val
    <3>3. \A r \in Node : obj.val[r] >= obj.sloppy => val[r] >= obj.sloppy
      BY <1>0, <1>5, <1>9
    <3> QED BY <1>7, <3>1, <3>2, <3>3 DEF Survives
  <2> QED BY <2>1, <2>2
<1> HIDE DEF val, hints, clean, sloppy
<1>11. /\ obj' \in QuorumRecord /\ obj'.val = val /\ obj'.version = v
       /\ obj'.hints = hints /\ obj'.clean = clean /\ obj'.sloppy = sloppy
       /\ obj'.expired = obj.expired /\ obj'.read = obj.read /\ obj'.newest = obj.newest
  BY <1>0, <1>2, <1>3, <1>5, <1>7 DEF QuorumRecord
<1>12. \A r \in Node : val[r] <= v
  BY <1>0, <1>3, <1>5, <1>13
<1> QED BY <1>7, <1>8, <1>10, <1>11, <1>12 DEF QuorumValue, Protocol!IsConsistent, Protocol!NODES

\* The hints of a replica that is back are replayed, unless they ran out.
LEMMA HandOffStep ==
  ASSUME ProtocolConstants, QuorumValue, NEW r \in Node, Protocol!HandOff(r)
  PROVE  QuorumValue'
<1> DEFINE mine == {h \in obj.hints : h.replica = r}
           fresh == {h \in mine : Protocol!Fresh(obj, h)}
           hints == obj.hints \ mine
           some == {obj.val[r]} \cup {h.version : h \in fresh}
           top == Protocol!Max(some)
           val == [obj.val EXCEPT ![r] = top]
           expired == obj.expired \/ fresh # mine
<1>0. /\ obj \in QuorumRecord /\ obj.version \in Nat /\ obj.expired \in BOOLEAN
      /\ obj.val \in [Node -> Nat] /\ obj.hints \in SUBSET Hint /\ obj.clean \in Nat
      /\ obj.sloppy \in Nat /\ WriteQuorum \in Nat
  BY DEF QuorumValue, QuorumRecord, ProtocolConstants
<1>1. obj' = [obj EXCEPT !.hints = hints, !.val = val, !.expired = expired]
  BY DEF Protocol!HandOff
<1>2. \A h \in obj.hints : h.version <= obj.version /\ h.version \in Nat
  BY <1>0 DEF QuorumValue, Hint
<1>3. \A q \in Node : obj.val[q] \in Nat /\ obj.val[q] <= obj.version
  BY <1>0 DEF QuorumValue
<1>4. top \in some /\ top \in Nat /\ top <= obj.version /\ \A y \in some : y <= top
  <2>1. some \in SUBSET Nat /\ some # {} /\ \A y \in some : y <= obj.version
    BY <1>2, <1>3
  <2>2. Max(some) \in some /\ \A y \in some : y <= Max(some)
    <3> HIDE DEF some
    <3> QED BY <1>0, <2>1, MaxOfNaturals
  <2>3. top = Max(some)
    BY ProtocolMax
  <2> HIDE DEF some, top
  <2> QED BY <2>1, <2>2, <2>3
<1>5. top >= obj.val[r] /\ \A h \in fresh : h.version <= top
  <2>1. obj.val[r] \in some /\ \A h \in fresh : h.version \in some
    OBVIOUS
  <2> HIDE DEF some, top
  <2> QED BY <1>3, <1>4, <2>1
<1> HIDE DEF top, some
<1>6. val \in [Node -> Nat] /\ \A q \in Node : val[q] = IF q = r THEN top ELSE obj.val[q]
  BY <1>0, <1>4
<1> HIDE DEF val
<1>7. \A q \in Node : val[q] >= obj.val[q] /\ val[q] <= obj.version /\ val[q] \in Nat
  BY <1>3, <1>4, <1>5, <1>6
<1>8. Cardinality(Having(val, obj.clean)) >= WriteQuorum
  BY <1>0, <1>6, <1>7, HavingGrows DEF QuorumValue
<1>9. ~ expired => Survives(val, hints, obj.sloppy)
  <2> SUFFICES ASSUME ~ expired PROVE Survives(val, hints, obj.sloppy)
    OBVIOUS
  <2>1. ~ obj.expired /\ fresh = mine
    OBVIOUS
  <2>2. Survives(obj.val, obj.hints, obj.sloppy)
    BY <2>1 DEF QuorumValue
  <2>3. CASE \E q \in Node : obj.val[q] >= obj.sloppy
    <3>1. PICK q \in Node : obj.val[q] >= obj.sloppy
      BY <2>3
    <3>2. val[q] >= obj.sloppy
      BY <1>0, <1>3, <1>7, <3>1
    <3> QED BY <3>2 DEF Survives
  <2>4. CASE \E h \in obj.hints : h.version >= obj.sloppy
    <3>1. PICK h \in obj.hints : h.version >= obj.sloppy
      BY <2>4
    <3>2. CASE h \in mine
      <4>1. h.version <= top /\ val[r] = top /\ h.version \in Nat
        BY <1>2, <1>5, <1>6, <2>1, <3>2
      <4>2. val[r] >= obj.sloppy
        BY <1>0, <1>4, <3>1, <4>1
      <4> QED BY <4>2 DEF Survives
    <3>3. CASE h \notin mine
      <4>1. h \in hints
        BY <3>3
      <4> QED BY <3>1, <4>1 DEF Survives
    <3> QED BY <3>2, <3>3
  <2> QED BY <2>2, <2>3, <2>4 DEF Survives
<1>10. hints \in SUBSET Hint /\ hints \in SUBSET obj.hints /\ expired \in BOOLEAN
  BY <1>0
<1> HIDE DEF hints, expired, mine, fresh
<1>11. /\ obj' \in QuorumRecord /\ obj'.val = val /\ obj'.version = obj.version
       /\ obj'.hints = hints /\ obj'.clean = obj.clean /\ obj'.sloppy = obj.sloppy
       /\ obj'.expired = expired /\ obj'.read = obj.read /\ obj'.newest = obj.newest
  BY <1>0, <1>1, <1>6, <1>10 DEF QuorumRecord
<1>12. \A h \in hints : h.version <= obj.version
  BY <1>2, <1>10
<1> QED BY <1>7, <1>8, <1>9, <1>11, <1>12 DEF QuorumValue, Protocol!IsConsistent, Protocol!NODES

\* A read of a quorum shows the newest it met, and mends the rest.
LEMMA QuorumReadStep ==
  ASSUME ProtocolConstants, QuorumValue, NEW set \in SUBSET Node, Protocol!QuorumRead(set)
  PROVE  QuorumValue'
<1> DEFINE some == {obj.val[r] : r \in set}
           top == Protocol!Max(some)
           val == [r \in Node |-> IF r \in set THEN top ELSE obj.val[r]]
<1>0. /\ obj \in QuorumRecord /\ obj.version \in Nat
      /\ obj.val \in [Node -> Nat] /\ obj.clean \in Nat /\ obj.sloppy \in Nat
      /\ ReadQuorum \in Nat /\ WriteQuorum \in Nat /\ ReadQuorum >= 1
  BY DEF QuorumValue, QuorumRecord, ProtocolConstants
<1>1. obj' = [obj EXCEPT !.val = val, !.read = top, !.newest = obj.clean]
  BY DEF Protocol!QuorumRead, Protocol!NODES, Node
<1>2. Cardinality(set) = ReadQuorum
  BY ProtocolCount DEF Protocol!QuorumRead
<1>3. \A q \in Node : obj.val[q] \in Nat /\ obj.val[q] <= obj.version
  BY <1>0 DEF QuorumValue
<1>4. set # {}
  BY <1>0, <1>2, FS_EmptySet
<1>5. top \in some /\ top \in Nat /\ top <= obj.version /\ \A y \in some : y <= top
  <2>1. some \in SUBSET Nat /\ some # {} /\ \A y \in some : y <= obj.version
    BY <1>3, <1>4
  <2>2. Max(some) \in some /\ \A y \in some : y <= Max(some)
    <3> HIDE DEF some
    <3> QED BY <1>0, <2>1, MaxOfNaturals
  <2>3. top = Max(some)
    BY ProtocolMax
  <2> HIDE DEF some, top
  <2> QED BY <2>1, <2>2, <2>3
<1>6. \A r \in set : obj.val[r] <= top
  <2>1. \A r \in set : obj.val[r] \in some
    OBVIOUS
  <2> HIDE DEF some, top
  <2> QED BY <1>5, <2>1
<1> HIDE DEF top, some
<1>7. val \in [Node -> Nat] /\ \A q \in Node : val[q] = IF q \in set THEN top ELSE obj.val[q]
  BY <1>0, <1>5
<1> HIDE DEF val
<1>8. \A q \in Node : val[q] >= obj.val[q] /\ val[q] <= obj.version /\ val[q] \in Nat
  BY <1>3, <1>5, <1>6, <1>7
<1>9. Cardinality(Having(val, obj.clean)) >= WriteQuorum
  BY <1>0, <1>7, <1>8, HavingGrows DEF QuorumValue
<1>10. ~ obj.expired => Survives(val, obj.hints, obj.sloppy)
  <2>1. \A q \in Node : obj.val[q] >= obj.sloppy => val[q] >= obj.sloppy
    BY <1>0, <1>3, <1>8
  <2>2. ~ obj.expired => Survives(obj.val, obj.hints, obj.sloppy)
    BY DEF QuorumValue
  <2> QED BY <2>1, <2>2 DEF Survives
<1>11. Protocol!IsConsistent => top >= obj.clean
  <2> SUFFICES ASSUME Protocol!IsConsistent PROVE top >= obj.clean
    OBVIOUS
  <2> DEFINE had == Having(obj.val, obj.clean)
  <2>1. ReadQuorum + WriteQuorum > 3
    BY ProtocolCount, ThreeNodes DEF Protocol!IsConsistent, Protocol!NODES, Node
  <2>2. had \in SUBSET Node /\ Cardinality(had) >= WriteQuorum
    BY DEF QuorumValue, Having
  <2>3. Cardinality(had) \in Nat
    BY <2>2, ThreeNodes
  <2>4. Cardinality(set) + Cardinality(had) > Cardinality(Node)
    <3> HIDE DEF had
    <3> QED BY <1>0, <1>2, <2>1, <2>2, <2>3, ThreeNodes
  <2>5. PICK q : q \in set /\ q \in had
    <3> HIDE DEF had
    <3>1. set \cap had # {}
      BY <2>2, <2>4, ThreeNodes, LargeSetsMeet
    <3> QED BY <3>1
  <2>6. obj.val[q] >= obj.clean /\ obj.val[q] <= top /\ obj.val[q] \in Nat
    BY <1>3, <1>6, <2>5 DEF Having
  <2> QED BY <1>0, <1>5, <2>6
<1>12. /\ obj' \in QuorumRecord /\ obj'.val = val /\ obj'.version = obj.version
       /\ obj'.hints = obj.hints /\ obj'.clean = obj.clean /\ obj'.sloppy = obj.sloppy
       /\ obj'.expired = obj.expired /\ obj'.read = top /\ obj'.newest = obj.clean
  BY <1>0, <1>1, <1>5, <1>7 DEF QuorumRecord
<1> QED BY <1>8, <1>9, <1>10, <1>11, <1>12 DEF QuorumValue, Protocol!IsConsistent, Protocol!NODES

\* Nothing is written at first.
LEMMA QuorumStart ==
  ASSUME ProtocolConstants, Protocol!QuorumInit
  PROVE  QuorumValue
<1> DEFINE val == [r \in Node |-> 0]
<1>1. obj = [class |-> "quorum", up |-> Node, val |-> val, version |-> 0, hints |-> {},
             now |-> 0, clean |-> 0, sloppy |-> 0, expired |-> FALSE, read |-> 0, newest |-> 0]
  BY DEF Protocol!QuorumInit, Protocol!NODES, Node
<1>2. val \in [Node -> Nat] /\ \A x \in Node : val[x] = 0
  OBVIOUS
<1> HIDE DEF val
<1>3. /\ obj \in QuorumRecord /\ obj.val = val /\ obj.version = 0 /\ obj.hints = {} /\ obj.clean = 0
      /\ obj.sloppy = 0 /\ obj.read = 0 /\ obj.newest = 0
  BY <1>1, <1>2 DEF QuorumRecord
<1>4. Having(val, 0) = Node
  BY <1>2 DEF Having
<1>5. Cardinality(Having(val, 0)) >= WriteQuorum
  BY <1>4, ThreeNodes DEF ProtocolConstants
<1>6. Survives(val, {}, 0)
  <2>1. 1 \in Node /\ val[1] >= 0
    BY <1>2 DEF Node
  <2> QED BY <2>1 DEF Survives
<1>7. \A x \in Node : val[x] <= 0
  BY <1>2
<1> QED BY <1>3, <1>5, <1>6, <1>7 DEF QuorumValue

\* Reads meet the writes.
LEMMA QuorumPromise ==
  ASSUME QuorumValue
  PROVE  Protocol!ReadsMeetWrites
<1>1. Cardinality(Having(obj.val, obj.clean)) >= WriteQuorum
  BY DEF QuorumValue
<1>2. Protocol!Cardinality({r \in Protocol!NODES : obj.val[r] >= obj.clean}) >= WriteQuorum
  BY <1>1, ProtocolCount DEF Having, Protocol!NODES, Node
<1>3. ~ obj.expired =>
        \E v \in {obj.val[r] : r \in Protocol!NODES} \cup {h.version : h \in obj.hints} : v >= obj.sloppy
  BY DEF QuorumValue, Survives, Protocol!NODES, Node
<1> QED BY <1>2, <1>3 DEF QuorumValue, Protocol!ReadsMeetWrites

----------------------------------------------------------------------------
\* The receivers of a broadcast.
Receiver == 1 .. 2

\* A message with its place in the order.
Numbered == Nat \X Nat

\* The fields of a broadcast.
BroadcastRecord ==
  [class : {"broadcast"}, next_seq : Nat, highest : Int, sent : SUBSET Numbered, made : Nat,
   expected : [Receiver -> Nat], buffer : [Receiver -> SUBSET Numbered],
   delivered : [Receiver -> Seq(Nat)], failed_over : BOOLEAN]

\* Places and messages belong to each other, and all places are given out.
OnePlaceEach(given, highest, made) ==
  /\ \A p \in given : p[1] <= highest /\ p[2] <= made
  /\ \A p, q \in given : p[1] = q[1] => p[2] = q[2]
  /\ \A p, q \in given : p[2] = q[2] => p[1] = q[1]

\* A receiver has delivered the messages of the places below the one it expects.
InPlace(delivered, expected, given) ==
  /\ Len(delivered) = expected
  /\ \A i \in 1 .. Len(delivered) : <<i - 1, delivered[i]>> \in given

\* The broadcast: receivers hold and deliver what was sent, in its place.
Broadcast ==
  /\ obj \in BroadcastRecord
  /\ obj.highest < obj.next_seq
  /\ OnePlaceEach(obj.sent, obj.highest, obj.made)
  /\ \A n \in Receiver :
       obj.buffer[n] \subseteq obj.sent /\ InPlace(obj.delivered[n], obj.expected[n], obj.sent)

\* The sequencer gives out the next place.
LEMMA IssueStep ==
  ASSUME Broadcast, Protocol!Issue
  PROVE  Broadcast'
<1> DEFINE next == obj.next_seq + 1
           made == obj.made + 1
           new == <<obj.next_seq, made>>
           given == obj.sent \cup {new}
<1>0. /\ obj \in BroadcastRecord /\ obj.next_seq \in Nat /\ obj.made \in Nat /\ obj.highest \in Int
      /\ obj.sent \in SUBSET Numbered /\ obj.highest < obj.next_seq
  BY DEF Broadcast, BroadcastRecord
<1>1. obj' = [obj EXCEPT !.next_seq = next, !.highest = obj.next_seq, !.made = made, !.sent = given]
  BY DEF Protocol!Issue
<1>2. next \in Nat /\ made \in Nat /\ obj.next_seq < next /\ obj.made < made
  BY <1>0
<1>3. new \in Numbered /\ new[1] = obj.next_seq /\ new[2] = made
  BY <1>0, <1>2 DEF Numbered
<1> HIDE DEF next, made, new
<1>4. given \in SUBSET Numbered /\ obj.sent \in SUBSET given
  BY <1>0, <1>3
<1>5. \A p \in obj.sent : p[1] \in Nat /\ p[2] \in Nat /\ p[1] <= obj.highest /\ p[2] <= obj.made
  BY <1>0 DEF Broadcast, OnePlaceEach, Numbered
<1>6. OnePlaceEach(given, obj.next_seq, made)
  <2>1. \A p \in obj.sent : p[1] # new[1] /\ p[2] # new[2] /\ p[1] <= obj.next_seq /\ p[2] <= made
    BY <1>0, <1>2, <1>3, <1>5
  <2>2. \A p \in given : p[1] <= obj.next_seq /\ p[2] <= made
    BY <1>0, <1>2, <1>3, <2>1
  <2>3. /\ \A p, q \in obj.sent : p[1] = q[1] => p[2] = q[2]
        /\ \A p, q \in obj.sent : p[2] = q[2] => p[1] = q[1]
    BY DEF Broadcast, OnePlaceEach
  <2>4. /\ \A p, q \in given : p[1] = q[1] => p[2] = q[2]
        /\ \A p, q \in given : p[2] = q[2] => p[1] = q[1]
    BY <2>1, <2>3
  <2> QED BY <2>2, <2>4 DEF OnePlaceEach
<1> HIDE DEF given
<1>7. /\ obj' \in BroadcastRecord /\ obj'.next_seq = next /\ obj'.highest = obj.next_seq
      /\ obj'.made = made /\ obj'.sent = given /\ obj'.buffer = obj.buffer
      /\ obj'.expected = obj.expected /\ obj'.delivered = obj.delivered
  <2> DEFINE seq == obj.next_seq
  <2>1. /\ obj' = [obj EXCEPT !.next_seq = next, !.highest = seq, !.made = made, !.sent = given]
        /\ seq \in Int
    BY <1>0, <1>1
  <2>2. seq = obj.next_seq
    OBVIOUS
  <2> HIDE DEF seq
  <2>3. obj' \in BroadcastRecord /\ obj'.next_seq = next /\ obj'.highest = seq
    BY <1>0, <2>1, <1>2, <1>4 DEF BroadcastRecord
  <2>4. /\ obj'.made = made /\ obj'.sent = given /\ obj'.buffer = obj.buffer
        /\ obj'.expected = obj.expected /\ obj'.delivered = obj.delivered
    BY <1>0, <2>1 DEF BroadcastRecord
  <2> QED BY <2>2, <2>3, <2>4
<1>8. \A n \in Receiver :
        obj.buffer[n] \subseteq given /\ InPlace(obj.delivered[n], obj.expected[n], given)
  BY <1>4 DEF Broadcast, InPlace
<1> QED BY <1>2, <1>6, <1>7, <1>8 DEF Broadcast

\* A new sequencer starts above all that was given out.
LEMMA FailoverResumeStep ==
  ASSUME Broadcast, NEW floor \in Nat, Protocol!FailoverResume(floor)
  PROVE  Broadcast'
<1>0. obj \in BroadcastRecord /\ obj.highest \in Int /\ floor > obj.highest
  BY DEF Broadcast, BroadcastRecord, Protocol!FailoverResume
<1> DEFINE done == TRUE
<1>1. obj' = [obj EXCEPT !.next_seq = floor, !.failed_over = done] /\ done \in BOOLEAN
  BY DEF Protocol!FailoverResume
<1> HIDE DEF done
<1>2. /\ obj' \in BroadcastRecord /\ obj'.next_seq = floor /\ obj'.highest = obj.highest
      /\ obj'.made = obj.made /\ obj'.sent = obj.sent /\ obj'.buffer = obj.buffer
      /\ obj'.expected = obj.expected /\ obj'.delivered = obj.delivered
  BY <1>0, <1>1 DEF BroadcastRecord
<1>3. obj.highest < floor
  BY <1>0
<1> QED BY <1>2, <1>3 DEF Broadcast

\* A receiver delivers all that follows without a gap.
LEMMA ReceiveSequencedStep ==
  ASSUME Broadcast, NEW n \in Receiver, NEW m \in Numbered, Protocol!ReceiveSequenced(n, m)
  PROVE  Broadcast'
<1> DEFINE buffer == obj.buffer[n] \cup {m}
           e == obj.expected[n]
           ready == {k \in 0 .. Protocol!MESSAGES : \A s \in e .. (e + k - 1) : \E b \in buffer : b[1] = s}
           k == Protocol!Max(ready)
           at(s) == (CHOOSE b \in buffer : b[1] = s)[2]
           run == [i \in 1 .. k |-> at(e + i - 1)]
           left == {b \in buffer : b[1] >= e + k}
           d == obj.delivered[n]
           all == d \o run
           expected == [obj.expected EXCEPT ![n] = e + k]
           buffers == [obj.buffer EXCEPT ![n] = left]
           delivered == [obj.delivered EXCEPT ![n] = all]
<1>0. /\ obj \in BroadcastRecord /\ obj.expected \in [Receiver -> Nat] /\ e \in Nat
      /\ obj.buffer \in [Receiver -> SUBSET Numbered] /\ obj.delivered \in [Receiver -> Seq(Nat)]
      /\ d \in Seq(Nat) /\ obj.sent \in SUBSET Numbered
  BY DEF Broadcast, BroadcastRecord
<1>1. obj' = [obj EXCEPT !.expected = expected, !.buffer = buffers, !.delivered = delivered]
  BY DEF Protocol!ReceiveSequenced
<1>2. buffer \in SUBSET obj.sent /\ buffer \in SUBSET Numbered
  BY <1>0 DEF Broadcast, Protocol!ReceiveSequenced
<1> HIDE DEF buffer, e
<1>3. k \in Nat /\ k \in ready
  <2>1. Protocol!MESSAGES \in Nat
    BY DEF Protocol!MESSAGES
  <2>2. 0 \in ready /\ ready \in SUBSET Nat /\ \A x \in ready : x <= Protocol!MESSAGES
    <3>1. e .. (e + 0 - 1) = {}
      BY <1>0
    <3> QED BY <2>1, <3>1
  <2>3. Max(ready) \in ready
    <3> HIDE DEF ready
    <3> QED BY <2>1, <2>2, MaxOfNaturals
  <2>4. k = Max(ready)
    BY ProtocolMax
  <2> HIDE DEF ready, k
  <2> QED BY <2>2, <2>3, <2>4
<1>4. \A s \in e .. (e + k - 1) : \E b \in buffer : b[1] = s
  BY <1>3, Zenon
<1> HIDE DEF k, ready
<1>5. \A s \in e .. (e + k - 1) : at(s) \in Nat /\ <<s, at(s)>> \in obj.sent
  <2> SUFFICES ASSUME NEW s \in e .. (e + k - 1) PROVE at(s) \in Nat /\ <<s, at(s)>> \in obj.sent
    OBVIOUS
  <2> DEFINE c == CHOOSE b \in buffer : b[1] = s
  <2>1. c \in buffer /\ c[1] = s
    <3>1. \E b \in buffer : b[1] = s
      BY <1>4
    <3> QED BY <3>1, Zenon
  <2> HIDE DEF c
  <2>2. c \in obj.sent /\ c[2] \in Nat /\ c = <<c[1], c[2]>>
    BY <1>2, <2>1 DEF Numbered
  <2> QED BY <2>1, <2>2 DEF c
<1> HIDE DEF at
<1>6. /\ run \in Seq(Nat) /\ Len(run) = k /\ \A i \in 1 .. k : run[i] = at(e + i - 1)
      /\ \A i \in 1 .. k : e + i - 1 \in e .. (e + k - 1)
  <2>1. \A i \in 1 .. k : e + i - 1 \in e .. (e + k - 1)
    BY <1>0, <1>3
  <2>2. \A i \in 1 .. k : at(e + i - 1) \in Nat
    BY <1>5, <2>1
  <2> QED BY <1>3, <2>1, <2>2
<1> HIDE DEF run, d
<1>7. /\ all \in Seq(Nat) /\ Len(all) = Len(d) + k
      /\ \A i \in 1 .. Len(d) + k : all[i] = IF i <= Len(d) THEN d[i] ELSE run[i - Len(d)]
  BY <1>0, <1>6, ConcatProperties
<1>8. Len(d) = e /\ \A i \in 1 .. Len(d) : <<i - 1, d[i]>> \in obj.sent
  BY DEF Broadcast, InPlace, d, e
<1> HIDE DEF all
<1>9. InPlace(all, e + k, obj.sent)
  <2>1. Len(all) = e + k
    BY <1>7, <1>8
  <2>2. ASSUME NEW i \in 1 .. Len(all) PROVE <<i - 1, all[i]>> \in obj.sent
    <3>1. CASE i <= e
      <4>1. i \in 1 .. Len(d) /\ i \in 1 .. Len(d) + k
        BY <1>0, <1>3, <1>8, <2>1, <3>1
      <4> QED BY <1>7, <1>8, <3>1, <4>1
    <3>2. CASE ~ (i <= e)
      <4>1. i - e \in 1 .. k /\ i \in 1 .. Len(d) + k /\ e + (i - e) - 1 = i - 1
        BY <1>0, <1>3, <1>8, <2>1, <3>2
      <4>2. all[i] = run[i - e]
        BY <1>7, <1>8, <3>2, <4>1
      <4>3. run[i - e] = at(i - 1) /\ i - 1 \in e .. (e + k - 1)
        BY <1>6, <4>1
      <4> QED BY <1>5, <4>2, <4>3
    <3> QED BY <3>1, <3>2
  <2> QED BY <2>1, <2>2 DEF InPlace
<1>10. left \in SUBSET Numbered /\ left \in SUBSET obj.sent /\ e + k \in Nat
  BY <1>0, <1>2, <1>3
<1> HIDE DEF left
<1>11. /\ expected \in [Receiver -> Nat] /\ buffers \in [Receiver -> SUBSET Numbered]
       /\ delivered \in [Receiver -> Seq(Nat)]
       /\ expected[n] = e + k /\ buffers[n] = left /\ delivered[n] = all
       /\ \A r \in Receiver : r # n => /\ expected[r] = obj.expected[r] /\ buffers[r] = obj.buffer[r]
                                       /\ delivered[r] = obj.delivered[r]
  BY <1>0, <1>7, <1>10
<1> HIDE DEF expected, buffers, delivered
<1>12. /\ obj' \in BroadcastRecord /\ obj'.next_seq = obj.next_seq /\ obj'.highest = obj.highest
       /\ obj'.made = obj.made /\ obj'.sent = obj.sent /\ obj'.buffer = buffers
       /\ obj'.expected = expected /\ obj'.delivered = delivered
  BY <1>0, <1>1, <1>11 DEF BroadcastRecord
<1>13. \A r \in Receiver :
         buffers[r] \subseteq obj.sent /\ InPlace(delivered[r], expected[r], obj.sent)
  <2> SUFFICES ASSUME NEW r \in Receiver
               PROVE  buffers[r] \subseteq obj.sent /\ InPlace(delivered[r], expected[r], obj.sent)
    OBVIOUS
  <2>1. CASE r = n
    BY <1>9, <1>10, <1>11, <2>1
  <2>2. CASE r # n
    BY <1>11, <2>2 DEF Broadcast
  <2> QED BY <2>1, <2>2
<1> QED BY <1>12, <1>13 DEF Broadcast

\* Nothing is sent at first.
LEMMA BroadcastStart ==
  ASSUME Protocol!BroadcastInit
  PROVE  Broadcast
<1> DEFINE zero == [n \in Receiver |-> 0]
           none == [n \in Receiver |-> {}]
           nil == [n \in Receiver |-> <<>>]
<1>1. obj = [class |-> "broadcast", next_seq |-> 0, highest |-> -1, sent |-> {}, made |-> 0,
             expected |-> zero, buffer |-> none, delivered |-> nil, failed_over |-> FALSE]
  BY DEF Protocol!BroadcastInit, Receiver
<1>2. /\ zero \in [Receiver -> Nat] /\ none \in [Receiver -> SUBSET Numbered]
      /\ nil \in [Receiver -> Seq(Nat)]
      /\ \A n \in Receiver : zero[n] = 0 /\ none[n] = {} /\ nil[n] = <<>>
  OBVIOUS
<1> HIDE DEF zero, none, nil
<1>3. /\ obj \in BroadcastRecord /\ obj.next_seq = 0 /\ obj.highest = -1 /\ obj.sent = {}
      /\ obj.expected = zero /\ obj.buffer = none /\ obj.delivered = nil
  BY <1>1, <1>2 DEF BroadcastRecord
<1>4. OnePlaceEach({}, -1, obj.made)
  BY DEF OnePlaceEach
<1>5. InPlace(<<>>, 0, {})
  BY DEF InPlace
<1>6. -1 < 0
  OBVIOUS
<1> QED BY <1>2, <1>3, <1>4, <1>5, <1>6 DEF Broadcast

\* One receiver that is behind another has delivered the beginning of the same.
LEMMA SameDelivery ==
  ASSUME NEW given \in SUBSET Numbered, NEW highest, NEW made, OnePlaceEach(given, highest, made),
         NEW a \in Seq(Nat), NEW b \in Seq(Nat), InPlace(a, Len(a), given), InPlace(b, Len(b), given)
  PROVE  /\ Len(a) <= Len(b) => Protocol!IsPrefix(a, b)
         /\ Protocol!IsInjective(a)
<1>0. Len(a) \in Nat /\ Len(b) \in Nat /\ DOMAIN a = 1 .. Len(a)
  BY LenProperties
<1>1. ASSUME Len(a) <= Len(b) PROVE Protocol!IsPrefix(a, b)
  <2>1. \A i \in 1 .. Len(a) : a[i] = b[i]
    <3> SUFFICES ASSUME NEW i \in 1 .. Len(a) PROVE a[i] = b[i]
      OBVIOUS
    <3>1. i \in 1 .. Len(b)
      BY <1>0, <1>1
    <3>2. <<i - 1, a[i]>> \in given /\ <<i - 1, b[i]>> \in given
      BY <3>1 DEF InPlace
    <3> QED BY <3>2 DEF OnePlaceEach
  <2> QED BY <1>0, <1>1, <2>1 DEF Protocol!IsPrefix
<1>2. Protocol!IsInjective(a)
  <2>1. ASSUME NEW i \in 1 .. Len(a), NEW j \in 1 .. Len(a), a[i] = a[j] PROVE i = j
    <3>1. <<i - 1, a[i]>> \in given /\ <<j - 1, a[j]>> \in given
      BY DEF InPlace
    <3>2. i - 1 = j - 1
      BY <2>1, <3>1 DEF OnePlaceEach
    <3> QED BY <3>2
  <2> QED BY <1>0, <2>1 DEF Protocol!IsInjective
<1> QED BY <1>1, <1>2

\* All deliver the same, in the same order, once.
LEMMA BroadcastPromise ==
  ASSUME Broadcast
  PROVE  Protocol!DeliveryIsOrdered
<1>1. /\ obj.sent \in SUBSET Numbered /\ OnePlaceEach(obj.sent, obj.highest, obj.made)
      /\ \A n \in Receiver : /\ obj.delivered[n] \in Seq(Nat)
                             /\ InPlace(obj.delivered[n], Len(obj.delivered[n]), obj.sent)
  BY DEF Broadcast, BroadcastRecord, InPlace
<1>2. 1 \in Receiver /\ 2 \in Receiver
  BY DEF Receiver
<1>3. Len(obj.delivered[1]) <= Len(obj.delivered[2]) \/ Len(obj.delivered[2]) <= Len(obj.delivered[1])
  <2>1. Len(obj.delivered[1]) \in Nat /\ Len(obj.delivered[2]) \in Nat
    BY <1>1, <1>2, LenProperties
  <2> QED BY <2>1
<1>4. \A n \in Receiver : Protocol!IsInjective(obj.delivered[n])
  BY <1>1, SameDelivery
<1>5. \/ Protocol!IsPrefix(obj.delivered[1], obj.delivered[2])
      \/ Protocol!IsPrefix(obj.delivered[2], obj.delivered[1])
  BY <1>1, <1>2, <1>3, SameDelivery
<1> QED BY <1>4, <1>5 DEF Protocol!DeliveryIsOrdered, Receiver

----------------------------------------------------------------------------
\* The messages of causal delivery.
Message == 1 .. 4

\* What a message depends on, as the instance lists it.
Causes(m) == Protocol!DEPS[m]

\* The messages of a sequence.
Listed(s) == {s[i] : i \in 1 .. Len(s)}

\* Each message once, and after all that it depends on.
Founded(order) ==
  /\ order \in Seq(Message)
  /\ \A i, j \in 1 .. Len(order) : order[i] = order[j] => i = j
  /\ \A i \in 1 .. Len(order) : \A c \in Causes(order[i]) : \E j \in 1 .. (i - 1) : order[j] = c

\* The fields of causal delivery.
CausalRecord == [class : {"causal"}, arrived : Seq(Message), order : Seq(Message)]

\* What arrived is delivered as soon as its causes are.
Causal ==
  /\ obj \in CausalRecord
  /\ Founded(obj.order)
  /\ Listed(obj.order) \subseteq Listed(obj.arrived)
  /\ \A m \in Listed(obj.arrived) : Causes(m) \subseteq Listed(obj.order) => m \in Listed(obj.order)

\* A message depends on earlier ones only.
LEMMA CausesAreEarlier ==
  /\ Len(Protocol!DEPS) = 4
  /\ \A m \in Message : \A c \in Causes(m) : c \in Message /\ c < m
<1>1. /\ Protocol!DEPS[1] = {} /\ Protocol!DEPS[2] = {1} /\ Protocol!DEPS[3] = {1}
      /\ Protocol!DEPS[4] = {2, 3} /\ Len(Protocol!DEPS) = 4
  BY DEF Protocol!DEPS
<1>2. \A m \in Message : m = 1 \/ m = 2 \/ m = 3 \/ m = 4
  BY DEF Message
<1>3. 1 \in Message /\ 2 \in Message /\ 3 \in Message
  BY DEF Message
<1>4. ASSUME NEW m \in Message, NEW c \in Causes(m) PROVE c \in Message /\ c < m
  BY <1>1, <1>2, <1>3 DEF Causes
<1> QED BY <1>1, <1>4

\* The messages of a sequence, as the instance writes them.
LEMMA RangeIsListed ==
  ASSUME NEW S, NEW s \in Seq(S)
  PROVE  Protocol!Range(s) = Listed(s) /\ Listed(s) \in SUBSET S
<1>1. DOMAIN s = 1 .. Len(s) /\ \A i \in 1 .. Len(s) : s[i] \in S
  BY LenProperties, ElementOfSeq
<1> QED BY <1>1 DEF Protocol!Range, Listed

\* The messages of a sequence with one more at its end.
LEMMA ListedWithOneMore ==
  ASSUME NEW S, NEW s \in Seq(S), NEW x \in S
  PROVE  Listed(Append(s, x)) = Listed(s) \cup {x}
<1>1. Len(s) \in Nat /\ Append(s, x) \in Seq(S) /\ Len(Append(s, x)) = Len(s) + 1
      /\ (\A i \in 1 .. Len(s) : Append(s, x)[i] = s[i]) /\ Append(s, x)[Len(s) + 1] = x
  BY AppendProperties, LenProperties
<1> DEFINE t == Append(s, x)
           n == Len(s)
<1>2. Listed(t) = {t[i] : i \in 1 .. n + 1}
  BY <1>1 DEF Listed
<1>3. Listed(s) = {s[i] : i \in 1 .. n}
  BY DEF Listed
<1>4. n \in Nat /\ (\A i \in 1 .. n : t[i] = s[i]) /\ t[n + 1] = x
  BY <1>1
<1> HIDE DEF t, n
<1>5. \A i \in 1 .. n + 1 : i \in 1 .. n \/ i = n + 1
  BY <1>4
<1>6. (\A i \in 1 .. n : i \in 1 .. n + 1) /\ n + 1 \in 1 .. n + 1
  BY <1>4
<1>7. Listed(t) = Listed(s) \cup {x}
  BY <1>2, <1>3, <1>4, <1>5, <1>6
<1> QED BY <1>7 DEF t

\* What a founded order lists has its causes listed too.
LEMMA FoundedIsClosed ==
  ASSUME NEW order, Founded(order), NEW x \in Listed(order)
  PROVE  Causes(x) \subseteq Listed(order)
<1>0. Len(order) \in Nat
  BY LenProperties DEF Founded
<1>1. PICK i \in 1 .. Len(order) : order[i] = x
  BY DEF Listed
<1> SUFFICES ASSUME NEW c \in Causes(x) PROVE c \in Listed(order)
  OBVIOUS
<1>2. PICK j \in 1 .. (i - 1) : order[j] = c
  BY <1>1 DEF Founded
<1>3. j \in 1 .. Len(order)
  BY <1>0
<1> QED BY <1>2, <1>3 DEF Listed

\* A message whose causes are delivered may follow.
LEMMA FoundedWithOneMore ==
  ASSUME NEW order, Founded(order), NEW x \in Message, x \notin Listed(order),
         Causes(x) \subseteq Listed(order)
  PROVE  Founded(Append(order, x))
<1> DEFINE t == Append(order, x)
           n == Len(order)
<1>1. /\ n \in Nat /\ t \in Seq(Message) /\ Len(t) = n + 1
      /\ (\A i \in 1 .. n : t[i] = order[i]) /\ t[n + 1] = x
  BY AppendProperties, LenProperties DEF Founded
<1>2. /\ \A i, j \in 1 .. n : order[i] = order[j] => i = j
      /\ \A i \in 1 .. n : \A c \in Causes(order[i]) : \E j \in 1 .. (i - 1) : order[j] = c
  BY DEF Founded
<1>3. \A i \in 1 .. n : order[i] # x
  BY DEF Listed
<1>4. \A c \in Causes(x) : \E j \in 1 .. n : order[j] = c
  BY DEF Listed
<1> HIDE DEF t, n
<1>5. \A i \in 1 .. n + 1 : i \in 1 .. n \/ i = n + 1
  BY <1>1
<1>6. \A i, j \in 1 .. n + 1 : t[i] = t[j] => i = j
  BY <1>1, <1>2, <1>3, <1>5
<1>7. \A i \in 1 .. n + 1 : \A c \in Causes(t[i]) : \E j \in 1 .. (i - 1) : t[j] = c
  <2> SUFFICES ASSUME NEW i \in 1 .. n + 1, NEW c \in Causes(t[i])
               PROVE  \E j \in 1 .. (i - 1) : t[j] = c
    OBVIOUS
  <2>1. CASE i \in 1 .. n
    <3>1. PICK j \in 1 .. (i - 1) : order[j] = c
      BY <1>1, <1>2, <2>1
    <3>2. j \in 1 .. n
      BY <1>1, <2>1
    <3> QED BY <1>1, <3>1, <3>2
  <2>2. CASE i = n + 1
    <3>1. PICK j \in 1 .. n : order[j] = c
      BY <1>1, <1>4, <2>2
    <3>2. j \in 1 .. (i - 1)
      BY <1>1, <2>2
    <3> QED BY <1>1, <3>1, <3>2
  <2> QED BY <1>5, <2>1, <2>2
<1>8. Founded(t)
  BY <1>1, <1>6, <1>7 DEF Founded
<1> QED BY <1>8 DEF t

\* One message of the buffer is released if its causes are delivered.
LEMMA FreedIsFounded ==
  ASSUME NEW order, Founded(order), NEW x \in Message
  PROVE  LET r == Protocol!Freed(order, x)
         IN  /\ Founded(r) /\ Listed(order) \subseteq Listed(r) /\ Listed(r) \subseteq Listed(order) \cup {x}
             /\ Causes(x) \subseteq Listed(order) => x \in Listed(r)
<1> DEFINE r == Protocol!Freed(order, x)
<1>1. order \in Seq(Message)
  BY DEF Founded
<1>2. Protocol!Range(order) = Listed(order) /\ Listed(Append(order, x)) = Listed(order) \cup {x}
  BY <1>1, RangeIsListed, ListedWithOneMore
<1>3. r = IF x \notin Listed(order) /\ Causes(x) \subseteq Listed(order) THEN Append(order, x) ELSE order
  BY <1>2, Zenon DEF Protocol!Freed, Protocol!Deliverable, Causes
<1> HIDE DEF r
<1>4. Founded(r)
  BY <1>3, FoundedWithOneMore
<1>5. /\ Listed(order) \subseteq Listed(r) /\ Listed(r) \subseteq Listed(order) \cup {x}
      /\ Causes(x) \subseteq Listed(order) => x \in Listed(r)
  BY <1>2, <1>3
<1> QED BY <1>4, <1>5 DEF r

\* After the first i messages of what waits: none of them is left with its causes delivered.
Passed(order, waiting, r, i) ==
  /\ Founded(r) /\ Listed(order) \subseteq Listed(r)
  /\ Listed(r) \subseteq Listed(order) \cup Listed(waiting)
  /\ \A j \in 1 .. i : Causes(waiting[j]) \subseteq Listed(order) => waiting[j] \in Listed(r)

\* A pass over what waits releases all whose causes were delivered before it.
LEMMA PassReleases ==
  ASSUME NEW order, Founded(order), NEW waiting \in Seq(Message)
  PROVE  Passed(order, waiting, Protocol!Pass(order, waiting), Len(waiting))
<1> DEFINE size == Len(waiting)
           Follows(h, n) ==
             h = [i \in 0 .. n |-> IF i = 0 THEN order ELSE Protocol!Freed(h[i - 1], waiting[i])]
           upto[i \in 0 .. size] == IF i = 0 THEN order ELSE Protocol!Freed(upto[i - 1], waiting[i])
           Undefined == {n \in Nat : ~ \E h : Follows(h, n)}
<1>0. size \in Nat /\ \A i \in 1 .. size : waiting[i] \in Message
  BY LenProperties, ElementOfSeq
<1>1. Undefined = {}
  <2> SUFFICES ASSUME Undefined # {} PROVE FALSE
    OBVIOUS
  <2>1. Undefined \in SUBSET Nat
    OBVIOUS
  <2>2. PICK n \in Undefined : \A o \in Undefined : n <= o
    <3> HIDE DEF Undefined
    <3> QED BY <2>1, LeastNatural
  <2>3. n # 0
    <3>1. Follows([i \in 0 .. 0 |-> order], 0)
      OBVIOUS
    <3> QED BY <2>2, <3>1
  <2>4. n \in Nat /\ n - 1 \in Nat /\ n - 1 \notin Undefined
    <3> HIDE DEF Undefined
    <3> QED BY <2>1, <2>2, <2>3
  <2>5. PICK h : Follows(h, n - 1)
    BY <2>4
  <2> DEFINE g == [i \in 0 .. n |-> IF i < n THEN h[i] ELSE Protocol!Freed(h[n - 1], waiting[n])]
  <2>6. \A i \in 0 .. n : g[i] = IF i = 0 THEN order ELSE Protocol!Freed(g[i - 1], waiting[i])
    <3> SUFFICES ASSUME NEW i \in 0 .. n
                 PROVE  g[i] = IF i = 0 THEN order ELSE Protocol!Freed(g[i - 1], waiting[i])
      OBVIOUS
    <3>1. \A j \in 0 .. n - 1 : h[j] = IF j = 0 THEN order ELSE Protocol!Freed(h[j - 1], waiting[j])
      BY <2>5
    <3>2. CASE i < n
      <4>1. i \in 0 .. n - 1 /\ g[i] = h[i] /\ (i # 0 => i - 1 \in 0 .. n /\ g[i - 1] = h[i - 1])
        BY <3>2, <2>4
      <4> QED BY <4>1, <3>1
    <3>3. CASE i = n
      <4>1. n - 1 \in 0 .. n /\ g[n] = Protocol!Freed(h[n - 1], waiting[n]) /\ g[n - 1] = h[n - 1]
        BY <2>4
      <4> QED BY <4>1, <3>3, <2>3
    <3> QED BY <3>2, <3>3
  <2>7. Follows(g, n)
    <3>1. g = [i \in 0 .. n |-> g[i]]
      OBVIOUS
    <3> HIDE DEF g
    <3> QED BY <3>1, <2>6
  <2> QED BY <2>2, <2>7
<1>2. Follows(upto, size)
  <2>1. \E h : Follows(h, size)
    BY <1>0, <1>1
  <2>2. upto = CHOOSE h : Follows(h, size)
    OBVIOUS
  <2> HIDE DEF Follows, upto
  <2> QED BY <2>1, <2>2
<1>3. Protocol!Pass(order, waiting) = upto[size]
  BY Zenon DEF Protocol!Pass
<1> HIDE DEF upto
<1>4. \A i \in 0 .. size : upto[i] = IF i = 0 THEN order ELSE Protocol!Freed(upto[i - 1], waiting[i])
  BY <1>2
<1> DEFINE Wrong == {i \in 0 .. size : ~ Passed(order, waiting, upto[i], i)}
<1> HIDE DEF Follows, Undefined, size
<1>5. Wrong = {}
  <2> SUFFICES ASSUME Wrong # {} PROVE FALSE
    OBVIOUS
  <2>1. Wrong \in SUBSET Nat
    BY <1>0
  <2>2. PICK n \in Wrong : \A o \in Wrong : n <= o
    <3> HIDE DEF Wrong
    <3> QED BY <2>1, LeastNatural
  <2>3. n \in 0 .. size /\ n \in Nat /\ ~ Passed(order, waiting, upto[n], n)
    BY <1>0, <2>2
  <2>4. n # 0
    <3> SUFFICES ASSUME n = 0 PROVE FALSE
      OBVIOUS
    <3>1. upto[n] = order /\ 1 .. n = {}
      BY <1>4, <2>3
    <3> QED BY <2>3, <3>1 DEF Passed
  <2>5. n - 1 \in 0 .. size /\ n - 1 \notin Wrong /\ n \in 1 .. size
    BY <1>0, <2>2, <2>3, <2>4
  <2> DEFINE r == upto[n - 1]
             x == waiting[n]
             f == Protocol!Freed(r, x)
  <2>6. Passed(order, waiting, r, n - 1) /\ x \in Message /\ upto[n] = f
    BY <1>0, <1>4, <2>3, <2>4, <2>5
  <2>7. x \in Listed(waiting)
    BY <2>5 DEF Listed, size
  <2> HIDE DEF r, f
  <2>8. /\ Founded(f) /\ Listed(r) \subseteq Listed(f) /\ Listed(f) \subseteq Listed(r) \cup {x}
        /\ Causes(x) \subseteq Listed(r) => x \in Listed(f)
    BY <2>6, FreedIsFounded DEF Passed, f
  <2>9. \A j \in 1 .. n : j \in 1 .. n - 1 \/ j = n
    BY <2>3
  <2>10. \A j \in 1 .. n : Causes(waiting[j]) \subseteq Listed(order) => waiting[j] \in Listed(f)
    BY <2>6, <2>8, <2>9 DEF Passed
  <2>11. Passed(order, waiting, f, n)
    BY <2>6, <2>7, <2>8, <2>10 DEF Passed
  <2> QED BY <2>3, <2>6, <2>11
<1>6. Passed(order, waiting, upto[size], size)
  BY <1>0, <1>5
<1> QED BY <1>3, <1>6 DEF size

\* Passes, one for each message there is, release all whose causes are delivered.
LEMMA ReleasedLeavesNone ==
  ASSUME NEW order, Founded(order), NEW waiting \in Seq(Message)
  PROVE  LET r == Protocol!Released(order, waiting)
         IN  /\ Founded(r) /\ Listed(order) \subseteq Listed(r)
             /\ Listed(r) \subseteq Listed(order) \cup Listed(waiting)
             /\ \A m \in Listed(waiting) : Causes(m) \subseteq Listed(r) => m \in Listed(r)
<1> DEFINE Follows(h) == h = [k \in 0 .. 4 |-> IF k = 0 THEN order ELSE Protocol!Pass(h[k - 1], waiting)]
           after[k \in 0 .. 4] == IF k = 0 THEN order ELSE Protocol!Pass(after[k - 1], waiting)
           a1 == Protocol!Pass(order, waiting)
           a2 == Protocol!Pass(a1, waiting)
           a3 == Protocol!Pass(a2, waiting)
           a4 == Protocol!Pass(a3, waiting)
<1>1. \E h : Follows(h)
  <2> DEFINE g == [k \in 0 .. 4 |-> IF k = 0 THEN order ELSE IF k = 1 THEN a1 ELSE IF k = 2 THEN a2
                                    ELSE IF k = 3 THEN a3 ELSE a4]
  <2>1. \A k \in 0 .. 4 : g[k] = IF k = 0 THEN order ELSE Protocol!Pass(g[k - 1], waiting)
    <3>1. g[0] = order /\ g[1] = a1 /\ g[2] = a2 /\ g[3] = a3 /\ g[4] = a4
      <4> HIDE DEF a1, a2, a3, a4
      <4> QED OBVIOUS
    <3>2. \A k \in 0 .. 4 : k = 0 \/ k = 1 \/ k = 2 \/ k = 3 \/ k = 4
      OBVIOUS
    <3>3. 1 - 1 = 0 /\ 2 - 1 = 1 /\ 3 - 1 = 2 /\ 4 - 1 = 3
      OBVIOUS
    <3>4. /\ g[1] = Protocol!Pass(g[1 - 1], waiting) /\ g[2] = Protocol!Pass(g[2 - 1], waiting)
          /\ g[3] = Protocol!Pass(g[3 - 1], waiting) /\ g[4] = Protocol!Pass(g[4 - 1], waiting)
      <4> HIDE DEF g
      <4> QED BY <3>1, <3>3
    <3> HIDE DEF g
    <3> QED BY <3>1, <3>2, <3>4
  <2>2. g = [k \in 0 .. 4 |-> g[k]]
    OBVIOUS
  <2> HIDE DEF g
  <2>3. Follows(g)
    BY <2>1, <2>2
  <2> QED BY <2>3
<1>2. Follows(after)
  <2>1. after = CHOOSE h : Follows(h)
    OBVIOUS
  <2> HIDE DEF Follows, after
  <2> QED BY <1>1, <2>1
<1>3. Protocol!Released(order, waiting) = after[4]
  <2>1. Protocol!Released(order, waiting) =
          LET some[k \in 0 .. Len(Protocol!DEPS)] ==
                IF k = 0 THEN order ELSE Protocol!Pass(some[k - 1], waiting)
          IN  some[Len(Protocol!DEPS)]
    BY Zenon DEF Protocol!Released
  <2> QED BY <2>1, CausesAreEarlier, Zenon
<1> HIDE DEF after
<1>4. \A k \in 0 .. 4 : after[k] = IF k = 0 THEN order ELSE Protocol!Pass(after[k - 1], waiting)
  BY <1>2
<1> DEFINE L(k) == Listed(after[k])
           W == Listed(waiting)
           Grows(k) == /\ Founded(after[k]) /\ L(0) \subseteq L(k) /\ L(k) \subseteq L(0) \cup W
           Frees(k) == /\ L(k) \subseteq L(k + 1)
                      /\ \A m \in W : Causes(m) \subseteq L(k) => m \in L(k + 1)
<1>5. after[0] = order /\ Grows(0)
  BY <1>4
<1> HIDE DEF Follows, a1, a2, a3, a4
<1>6. ASSUME NEW k \in 0 .. 3, Grows(k)
      PROVE  Grows(k + 1) /\ Frees(k)
  <2>1. after[k + 1] = Protocol!Pass(after[k], waiting)
    <3>1. k + 1 \in 0 .. 4 /\ k + 1 # 0 /\ (k + 1) - 1 = k
      OBVIOUS
    <3> QED BY <1>4, <3>1
  <2>2. Passed(after[k], waiting, after[k + 1], Len(waiting))
    BY <1>6, <2>1, PassReleases
  <2>3. \A m \in W : \E j \in 1 .. Len(waiting) : m = waiting[j]
    BY DEF Listed
  <2> QED BY <1>6, <2>2, <2>3 DEF Passed
<1>7. Grows(1) /\ Grows(2) /\ Grows(3) /\ Grows(4) /\ Frees(0) /\ Frees(1) /\ Frees(2) /\ Frees(3)
  <2> HIDE DEF Grows, Frees
  <2>1. 0 \in 0 .. 3 /\ 1 \in 0 .. 3 /\ 2 \in 0 .. 3 /\ 3 \in 0 .. 3 /\ 0 + 1 = 1 /\ 1 + 1 = 2
        /\ 2 + 1 = 3 /\ 3 + 1 = 4
    OBVIOUS
  <2>2. Grows(1) /\ Frees(0)
    BY <1>5, <1>6, <2>1
  <2>3. Grows(2) /\ Frees(1)
    BY <1>6, <2>1, <2>2
  <2>4. Grows(3) /\ Frees(2)
    BY <1>6, <2>1, <2>3
  <2>5. Grows(4) /\ Frees(3)
    BY <1>6, <2>1, <2>4
  <2> QED BY <2>2, <2>3, <2>4, <2>5
<1> DEFINE Due == {m \in Message : m \in L(0) \/ (m \in W /\ Causes(m) \subseteq L(4))}
           Early(k) == \A m \in Due : m <= k => m \in L(k)
<1>8. \A m \in Message : m \in L(4) => m \in Due
  <2> SUFFICES ASSUME NEW m \in Message, m \in L(4) PROVE m \in Due
    OBVIOUS
  <2>1. Causes(m) \subseteq L(4)
    BY <1>7, FoundedIsClosed
  <2> QED BY <1>7, <2>1
<1>9. ASSUME NEW k \in 0 .. 3, Frees(k), Grows(k), Grows(k + 1), Early(k) PROVE Early(k + 1)
  <2> SUFFICES ASSUME NEW m \in Due, m <= k + 1 PROVE m \in L(k + 1)
    OBVIOUS
  <2>0. m \in Message /\ m \in Nat
    BY DEF Message
  <2>1. CASE m <= k
    <3>1. m \in L(k)
      BY <1>9, <2>1
    <3> QED BY <1>9, <3>1
  <2>2. CASE m \in L(0)
    BY <1>9, <2>2
  <2>3. CASE m = k + 1 /\ m \in W /\ Causes(m) \subseteq L(4)
    <3>1. Causes(m) \subseteq L(k)
      <4> SUFFICES ASSUME NEW c \in Causes(m) PROVE c \in L(k)
        OBVIOUS
      <4>1. c \in Message /\ c < m /\ c \in Nat
        BY <2>0, CausesAreEarlier DEF Message
      <4>2. c \in Due /\ c <= k
        BY <1>8, <2>3, <4>1
      <4> QED BY <1>9, <4>2
    <3> QED BY <1>9, <2>3, <3>1
  <2>4. m <= k \/ m = k + 1
    BY <2>0
  <2> QED BY <2>1, <2>2, <2>3, <2>4
<1>10. Early(4)
  <2>0. Early(0)
    BY DEF Message
  <2> HIDE DEF Grows, Frees, Early
  <2>1. 0 \in 0 .. 3 /\ 1 \in 0 .. 3 /\ 2 \in 0 .. 3 /\ 3 \in 0 .. 3 /\ 0 + 1 = 1 /\ 1 + 1 = 2
        /\ 2 + 1 = 3 /\ 3 + 1 = 4
    OBVIOUS
  <2>2. Early(1)
    BY <1>5, <1>7, <1>9, <2>0, <2>1
  <2>3. Early(2)
    BY <1>7, <1>9, <2>1, <2>2
  <2>4. Early(3)
    BY <1>7, <1>9, <2>1, <2>3
  <2> QED BY <1>7, <1>9, <2>1, <2>4
<1>11. \A m \in W : Causes(m) \subseteq L(4) => m \in L(4)
  <2>1. W \in SUBSET Message
    BY RangeIsListed
  <2>2. \A m \in Message : m <= 4
    BY DEF Message
  <2> HIDE DEF W
  <2> QED BY <1>10, <2>1, <2>2
<1> QED BY <1>3, <1>5, <1>7, <1>11

\* A message arrives, and with it what waited for it may be delivered.
LEMMA AcceptCausalStep ==
  ASSUME Causal, NEW m \in Message, Protocol!AcceptCausal(m)
  PROVE  Causal'
<1> DEFINE arrived == Append(obj.arrived, m)
           more == Append(obj.order, m)
           newLast == Protocol!Released(more, obj.arrived)
           order == IF Protocol!Deliverable(m, obj.order) THEN newLast ELSE obj.order
<1>0. /\ obj \in CausalRecord /\ obj.arrived \in Seq(Message) /\ obj.order \in Seq(Message)
      /\ Founded(obj.order) /\ Listed(obj.order) \subseteq Listed(obj.arrived)
      /\ \A x \in Listed(obj.arrived) : Causes(x) \subseteq Listed(obj.order) => x \in Listed(obj.order)
  BY DEF Causal, CausalRecord
<1>1. obj' = [obj EXCEPT !.arrived = arrived, !.order = order]
  BY DEF Protocol!AcceptCausal
<1>2. m \notin Listed(obj.arrived)
  BY <1>0, RangeIsListed DEF Protocol!AcceptCausal
<1>3. Protocol!Deliverable(m, obj.order) <=> Causes(m) \subseteq Listed(obj.order)
  <2>1. Protocol!Range(obj.order) = Listed(obj.order)
    BY <1>0, RangeIsListed
  <2> QED BY <2>1 DEF Protocol!Deliverable, Causes
<1>4. arrived \in Seq(Message) /\ Listed(arrived) = Listed(obj.arrived) \cup {m}
  BY <1>0, ListedWithOneMore, AppendProperties
<1> HIDE DEF arrived
<1>5. /\ Founded(order) /\ Listed(order) \subseteq Listed(arrived)
      /\ \A x \in Listed(arrived) : Causes(x) \subseteq Listed(order) => x \in Listed(order)
  <2>1. CASE Causes(m) \subseteq Listed(obj.order)
    <3>1. order = newLast
      BY <1>3, <2>1
    <3>2. Founded(more) /\ Listed(more) = Listed(obj.order) \cup {m}
      BY <1>0, <1>2, <2>1, FoundedWithOneMore, ListedWithOneMore
    <3> HIDE DEF more
    <3>3. /\ Founded(newLast) /\ Listed(more) \subseteq Listed(newLast)
          /\ Listed(newLast) \subseteq Listed(more) \cup Listed(obj.arrived)
          /\ \A x \in Listed(obj.arrived) : Causes(x) \subseteq Listed(newLast) => x \in Listed(newLast)
      BY <1>0, <3>2, ReleasedLeavesNone
    <3> HIDE DEF newLast, order
    <3> QED BY <1>0, <1>4, <3>1, <3>2, <3>3
  <2>2. CASE ~ (Causes(m) \subseteq Listed(obj.order))
    <3>1. order = obj.order
      BY <1>3, <2>2
    <3> HIDE DEF order
    <3> QED BY <1>0, <1>4, <2>2, <3>1
  <2> QED BY <2>1, <2>2
<1>6. order \in Seq(Message)
  BY <1>5 DEF Founded
<1> HIDE DEF order
<1>7. obj' \in CausalRecord /\ obj'.arrived = arrived /\ obj'.order = order
  BY <1>0, <1>1, <1>4, <1>6 DEF CausalRecord
<1> QED BY <1>5, <1>7 DEF Causal

\* Nothing has arrived at first.
LEMMA CausalStart ==
  ASSUME Protocol!CausalInit
  PROVE  Causal
<1>1. obj \in CausalRecord /\ obj.arrived = <<>> /\ obj.order = <<>>
  BY DEF Protocol!CausalInit, CausalRecord
<1>2. Founded(<<>>) /\ Listed(<<>>) = {}
  BY DEF Founded, Listed
<1> QED BY <1>1, <1>2 DEF Causal

\* Causes come first, and nothing is held back.
LEMMA CausalPromise ==
  ASSUME Causal
  PROVE  Protocol!CausesComeFirst
<1>1. obj.arrived \in Seq(Message) /\ obj.order \in Seq(Message) /\ Founded(obj.order)
  BY DEF Causal, CausalRecord
<1>2. /\ Protocol!Range(obj.order) = Listed(obj.order) /\ Protocol!Range(obj.arrived) = Listed(obj.arrived)
      /\ DOMAIN obj.order = 1 .. Len(obj.order)
  BY <1>1, RangeIsListed, LenProperties
<1>3. Protocol!IsInjective(obj.order)
  BY <1>1, <1>2 DEF Founded, Protocol!IsInjective
<1>4. /\ Listed(obj.order) \subseteq Listed(obj.arrived)
      /\ \A m \in Listed(obj.arrived) :
           Protocol!DEPS[m] \subseteq Listed(obj.order) => m \in Listed(obj.order)
  BY DEF Causal, Causes
<1>5. \A i \in 1 .. Len(obj.order) :
        \A c \in Protocol!DEPS[obj.order[i]] : \E j \in 1 .. (i - 1) : obj.order[j] = c
  BY <1>1 DEF Founded, Causes
<1> QED BY <1>2, <1>3, <1>4, <1>5 DEF Protocol!CausesComeFirst

----------------------------------------------------------------------------
\* What the theorem rests on, one alternative per protocol.
ProtocolInv ==
  TwoPhase \/ Chain \/ QuorumValue \/ Lease \/ Occ \/ Wal \/ Broadcast \/ Causal

\* The alternatives are told apart by the class.
LEMMA ProtocolKinds ==
  /\ TwoPhase => obj.class = "commit"
  /\ Chain => obj.class = "chain"
  /\ QuorumValue => obj.class = "quorum"
  /\ Lease => obj.class = "lease"
  /\ Occ => obj.class = "occ"
  /\ Wal => obj.class = "wal"
  /\ Broadcast => obj.class = "broadcast"
  /\ Causal => obj.class = "causal"
BY DEF TwoPhase, CommitRecord, Chain, ChainRecord, QuorumValue, QuorumRecord, Lease, LeaseRecord, Occ,
   OccRecord, Wal, WalRecord, Broadcast, BroadcastRecord, Causal, CausalRecord

\* An action is of one protocol.
LEMMA ProtocolClasses ==
  /\ Protocol!CommitNext => obj.class = "commit"
  /\ Protocol!ChainNext => obj.class = "chain"
  /\ Protocol!QuorumNext => obj.class = "quorum"
  /\ Protocol!LeaseNext => obj.class = "lease"
  /\ Protocol!OccNext => obj.class = "occ"
  /\ Protocol!WalNext => obj.class = "wal"
  /\ Protocol!BroadcastNext => obj.class = "broadcast"
  /\ \A m : Protocol!AcceptCausal(m) => obj.class = "causal"
<1>1. Protocol!CommitNext => obj.class = "commit"
  BY Zenon DEF Protocol!CommitNext, Protocol!Decide, Protocol!Coordinator, Protocol!HearDecision,
               Protocol!Vote
<1>2. Protocol!ChainNext => obj.class = "chain"
  BY Zenon DEF Protocol!ChainNext, Protocol!ChainWrite, Protocol!Acknowledge, Protocol!Forward,
               Protocol!ChainRead, Protocol!FailNode
<1>3. Protocol!QuorumNext => obj.class = "quorum"
  BY Zenon DEF Protocol!QuorumNext, Protocol!QuorumWrite, Protocol!QuorumTick, Protocol!Toggle,
               Protocol!HandOff, Protocol!QuorumRead
<1>4. Protocol!LeaseNext => obj.class = "lease"
  BY Zenon DEF Protocol!LeaseNext, Protocol!LeaseTick, Protocol!Guarded, Protocol!Acquire,
               Protocol!Renew, Protocol!Act
<1>5. Protocol!OccNext => obj.class = "occ"
  BY Zenon DEF Protocol!OccNext, Protocol!BeginTxn, Protocol!CommitTxn
<1>6. Protocol!WalNext => obj.class = "wal"
  BY Zenon DEF Protocol!WalNext, Protocol!WalAppend, Protocol!TakeCheckpoint, Protocol!WalCrash,
               Protocol!MarkDurable, Protocol!Apply
<1>7. Protocol!BroadcastNext => obj.class = "broadcast"
  BY Zenon DEF Protocol!BroadcastNext, Protocol!Issue, Protocol!FailoverResume,
               Protocol!ReceiveSequenced
<1>8. \A m : Protocol!AcceptCausal(m) => obj.class = "causal"
  BY Zenon DEF Protocol!AcceptCausal
<1> QED BY <1>1, <1>2, <1>3, <1>4, <1>5, <1>6, <1>7, <1>8

\* Every start is that of one of the protocols.
LEMMA ProtocolStarts ==
  ASSUME ProtocolConstants, Protocol!Init
  PROVE  ProtocolInv
BY CommitStart, ChainStart, QuorumStart, LeaseStart, OccStart, WalStart, BroadcastStart, CausalStart
   DEF Protocol!Init, ProtocolInv

\* The inputs the actions take are those the lemmas speak of.
LEMMA ProtocolInputs ==
  /\ Protocol!NODES = Node /\ Protocol!KEYS = Keys
  /\ (0 .. (Protocol!MESSAGES + 4)) \X (1 .. Protocol!MESSAGES) \subseteq Numbered
  /\ 1 .. Len(Protocol!DEPS) = Message
<1>1. Protocol!NODES = Node /\ Protocol!KEYS = Keys
  BY DEF Protocol!NODES, Node, Protocol!KEYS, Keys
<1>2. Protocol!MESSAGES \in Nat
  BY DEF Protocol!MESSAGES
<1>3. (0 .. (Protocol!MESSAGES + 4)) \X (1 .. Protocol!MESSAGES) \subseteq Numbered
  BY <1>2 DEF Numbered
<1>4. 1 .. Len(Protocol!DEPS) = Message
  BY CausesAreEarlier DEF Message
<1> QED BY <1>1, <1>3, <1>4

\* A step of a protocol stays in the protocol's alternative.
LEMMA ProtocolSteps ==
  ASSUME ProtocolConstants, ProtocolInv, [Protocol!Next]_obj
  PROVE  ProtocolInv'
<1>1. CASE UNCHANGED obj
  BY <1>1 DEF ProtocolInv, TwoPhase, Chain, QuorumValue, Lease, Occ, Wal, Broadcast, Causal,
              Protocol!IsConsistent, Protocol!NODES
<1>2. CASE Protocol!CommitNext
  <2>1. TwoPhase
    BY <1>2, ProtocolClasses, ProtocolKinds DEF ProtocolInv
  <2>2. TwoPhase'
    BY <1>2, <2>1, ProtocolInputs, VoteStep, DecideStep, HearDecisionStep, CoordinatorStep
       DEF Protocol!CommitNext
  <2> QED BY <2>2 DEF ProtocolInv
<1>3. CASE Protocol!ChainNext
  <2>1. Chain
    BY <1>3, ProtocolClasses, ProtocolKinds DEF ProtocolInv
  <2>2. Chain'
    BY <1>3, <2>1, ProtocolInputs, ChainWriteStep, ForwardStep, TailStep, FailNodeStep
       DEF Protocol!ChainNext
  <2> QED BY <2>2 DEF ProtocolInv
<1>4. CASE Protocol!QuorumNext
  <2>1. QuorumValue
    BY <1>4, ProtocolClasses, ProtocolKinds DEF ProtocolInv
  <2>2. QuorumValue'
    BY <1>4, <2>1, ProtocolInputs, QuorumTimeStep, QuorumWriteStep, HandOffStep, QuorumReadStep
       DEF Protocol!QuorumNext
  <2> QED BY <2>2 DEF ProtocolInv
<1>5. CASE Protocol!LeaseNext
  <2>1. Lease
    BY <1>5, ProtocolClasses, ProtocolKinds DEF ProtocolInv
  <2>2. \A t \in 1 .. MaxWrites : t \in Nat
    OBVIOUS
  <2>3. Lease'
    BY <1>5, <2>1, <2>2, AcquireStep, RenewStep, ActStep, GuardedStep DEF Protocol!LeaseNext
  <2> QED BY <2>3 DEF ProtocolInv
<1>6. CASE Protocol!OccNext
  <2>1. Occ
    BY <1>6, ProtocolClasses, ProtocolKinds DEF ProtocolInv
  <2>2. Occ'
    BY <1>6, <2>1, ProtocolInputs, BeginTxnStep, CommitTxnStep DEF Protocol!OccNext
  <2> QED BY <2>2 DEF ProtocolInv
<1>7. CASE Protocol!WalNext
  <2>1. Wal
    BY <1>7, ProtocolClasses, ProtocolKinds DEF ProtocolInv
  <2>2. \A t \in 0 .. MaxWrites : t \in Nat
    OBVIOUS
  <2>3. Wal'
    BY <1>7, <2>1, <2>2, WalAppendStep, MarkDurableStep, ApplyStep, TakeCheckpointStep, WalCrashStep
       DEF Protocol!WalNext
  <2> QED BY <2>3 DEF ProtocolInv
<1>8. CASE Protocol!BroadcastNext
  <2>1. Broadcast
    BY <1>8, ProtocolClasses, ProtocolKinds DEF ProtocolInv
  <2>2. \A t \in 0 .. (Protocol!MESSAGES + 1) : t \in Nat
    BY DEF Protocol!MESSAGES
  <2>3. \A m \in (0 .. (Protocol!MESSAGES + 4)) \X (1 .. Protocol!MESSAGES) : m \in Numbered
    BY ProtocolInputs
  <2>4. Broadcast'
    BY <1>8, <2>1, <2>2, <2>3, IssueStep, FailoverResumeStep, ReceiveSequencedStep
       DEF Protocol!BroadcastNext, Receiver
  <2> QED BY <2>4 DEF ProtocolInv
<1>9. ASSUME NEW m \in 1 .. Len(Protocol!DEPS), Protocol!AcceptCausal(m)
      PROVE  ProtocolInv'
  <2>1. Causal
    BY <1>9, ProtocolClasses, ProtocolKinds DEF ProtocolInv
  <2>2. Causal'
    BY <1>9, <2>1, ProtocolInputs, AcceptCausalStep
  <2> QED BY <2>2 DEF ProtocolInv
<1> QED BY <1>1, <1>2, <1>3, <1>4, <1>5, <1>6, <1>7, <1>8, <1>9 DEF Protocol!Next

\* The invariant says that each protocol keeps its promise.
LEMMA ProtocolPromises ==
  ASSUME ProtocolConstants, ProtocolInv
  PROVE  ProtocolsHold
<1>1. /\ obj.class # "commit" => Protocol!CommitIsUnanimous
      /\ obj.class # "chain" => Protocol!ChainKeepsAcked
      /\ obj.class # "quorum" => Protocol!ReadsMeetWrites
      /\ obj.class # "lease" => Protocol!FencedInTurn
  BY Zenon DEF Protocol!CommitIsUnanimous, Protocol!ChainKeepsAcked, Protocol!ReadsMeetWrites,
               Protocol!FencedInTurn
<1>2. /\ obj.class # "occ" => Protocol!NoUpdateIsLost
      /\ obj.class # "wal" => Protocol!WalReplaysExactly
      /\ obj.class # "broadcast" => Protocol!DeliveryIsOrdered
      /\ obj.class # "causal" => Protocol!CausesComeFirst
  BY Zenon DEF Protocol!NoUpdateIsLost, Protocol!WalReplaysExactly, Protocol!DeliveryIsOrdered,
               Protocol!CausesComeFirst
<1>3. /\ TwoPhase => Protocol!CommitIsUnanimous /\ obj.class = "commit"
      /\ Chain => Protocol!ChainKeepsAcked /\ obj.class = "chain"
      /\ QuorumValue => Protocol!ReadsMeetWrites /\ obj.class = "quorum"
      /\ Lease => Protocol!FencedInTurn /\ obj.class = "lease"
  BY CommitPromise, ChainPromise, QuorumPromise, LeasePromise, ProtocolKinds
<1>4. /\ Occ => Protocol!NoUpdateIsLost /\ obj.class = "occ"
      /\ Wal => Protocol!WalReplaysExactly /\ obj.class = "wal"
      /\ Broadcast => Protocol!DeliveryIsOrdered /\ obj.class = "broadcast"
      /\ Causal => Protocol!CausesComeFirst /\ obj.class = "causal"
  BY OccPromise, WalPromise, BroadcastPromise, CausalPromise, ProtocolKinds
<1> QED BY <1>1, <1>2, <1>3, <1>4 DEF ProtocolInv, ProtocolsHold, Protocol!ProtocolsHold

(***************************************************************************)
(* For any quorum sizes, windows, durations and numbers of writes, through *)
(* crashes, lost leaders, delayed clients, expired hints and messages that *)
(* arrive in any order: a commit is unanimous, the chain keeps what it     *)
(* acknowledged, overlapping quorums show what was written, delayed lease  *)
(* holders are fenced, no update is lost, the log replays exactly, and     *)
(* deliveries agree and follow their causes.                               *)
(***************************************************************************)
THEOREM ProtocolsStaySafe ==
  ASSUME ProtocolConstants
  PROVE  Protocol!Init /\ [][Protocol!Next]_obj => []ProtocolsHold
<1>1. Protocol!Init => ProtocolInv
  BY ProtocolStarts
<1>2. ProtocolInv /\ [Protocol!Next]_obj => ProtocolInv'
  BY ProtocolSteps
<1>3. ProtocolInv => ProtocolsHold
  BY ProtocolPromises
<1> QED BY <1>1, <1>2, <1>3, PTL
=============================================================================
