-------------------------- MODULE IdempotentProduce --------------------------
(***************************************************************************)
(* One idempotent producer and one partition over a network that loses,    *)
(* repeats, delays and reorders requests: the pipelining producer          *)
(* (inflight.py, inflightorder.py, deliverytimeout.py, callbackorder.py),  *)
(* and the broker's memory of its sequences, kept by either of the two     *)
(* gates of the code (idempotent.py, by session; produceridempotence.py,   *)
(* by partition), reclaimed when idle (produceridexpiry.py) and rebuilt    *)
(* after a crash from a snapshot and the log's tail (producersnapshot.py). *)
(* A snapshot keeps the last sequence and no epoch: where the tail is      *)
(* empty, whoever restores the memory has to supply one, and `misled`      *)
(* records that it was not the epoch of the log's last batch.              *)
(*                                                                         *)
(* A batch is its epoch and its sequence number.  A request stays in       *)
(* `sent`, so it may arrive again or late; one that is refused is retried. *)
(***************************************************************************)
EXTENDS Integers, Sequences, SequencesExt, FiniteSetsExt

CONSTANTS
  Gates,               \* which gates the broker may run: "session", "partition"
  InFlight(_, _),      \* max_in_flight of the producer at a gate and an epoch
  None,
  MaxSeq,              \* bound: batches an instance sends
  MaxEpoch,            \* bound: producer instances
  MaxCrashes           \* bound: broker crashes

ASSUME ProduceAssumption ==
  /\ Gates \subseteq {"session", "partition"}
  /\ MaxSeq \in Nat /\ MaxEpoch \in Nat /\ MaxCrashes \in Nat
  /\ None \notin [epoch : Nat, seq : Int] /\ None \notin Int

VARIABLES
  gate,          \* the gate this broker runs
  log,           \* the partition: batches in the order appended
  committed,     \* how many of them are replicated: a crash keeps these
  last,          \* the gate's memory: [epoch, seq] last accepted, or None
  snapshot,      \* the latest ProducerSnapshot: [offset, entry], an entry a last_seq or None
  misled,        \* history: a recovery gave the memory an epoch the log does not have
  sent,          \* requests that may (still, again) arrive
  acks,          \* answers the broker gave
  epoch,         \* the producer's epoch
  next_seq,      \* the sequence of its next batch
  failed,        \* its delivery failed for good, or it has to start over
  next_to_fire,  \* CallbackDispatcher
  buffered,
  crashes

brokerVars   == <<gate, log, committed, last, snapshot, misled>>
netVars      == <<sent, acks>>
producerVars == <<epoch, next_seq, failed, next_to_fire, buffered>>
vars         == <<brokerVars, netVars, producerVars, crashes>>

Batch(e, n) == [epoch |-> e, seq |-> n]

Init ==
  /\ gate \in Gates
  /\ log = <<>>
  /\ committed = 0
  /\ last = None
  /\ snapshot = [offset |-> 0, entry |-> None]
  /\ misled = FALSE
  /\ sent = {}
  /\ acks = {}
  /\ epoch = 1
  /\ next_seq = 0
  /\ failed = FALSE
  /\ next_to_fire = 0
  /\ buffered = {}
  /\ crashes = 0
----------------------------------------------------------------------------
\* Batches sent and not acknowledged to the caller.
Pending == (next_to_fire .. next_seq - 1) \ buffered

\* IdempotencyGate.open_session: refused below the epoch held.  The producer opens one
\* session for its epoch, before it sends.
HasSession == IF last = None THEN FALSE ELSE last.epoch >= epoch

OpenSession ==
  /\ gate = "session"
  /\ ~failed
  /\ ~HasSession
  /\ last' = Batch(epoch, -1)
  /\ UNCHANGED <<gate, log, committed, snapshot, misled, netVars, producerVars, crashes>>

\* ProducerPipeline: at most max_in_flight batches without an answer.
Send ==
  /\ ~failed
  /\ gate = "session" => HasSession
  /\ next_seq < MaxSeq
  /\ Cardinality(Pending) < InFlight(gate, epoch)
  /\ sent' = sent \cup {Batch(epoch, next_seq)}
  /\ next_seq' = next_seq + 1
  /\ UNCHANGED <<brokerVars, acks, epoch, failed, next_to_fire, buffered, crashes>>

(***************************************************************************)
(* The verdict of a gate on a batch.  IdempotencyGate.admit needs an open  *)
(* session and the very next sequence; ProducerIdempotence.accept starts   *)
(* at 0 for a producer it does not know, and takes a higher epoch's batch  *)
(* as the start of that epoch.                                             *)
(***************************************************************************)
AdmitVerdict(b) ==
  IF last = None \/ b.epoch < last.epoch THEN "refused"
  ELSE IF b.seq <= last.seq THEN "duplicate"
  ELSE IF b.seq = last.seq + 1 THEN "accepted" ELSE "refused"

AcceptVerdict(b) ==
  IF last = None THEN (IF b.seq = 0 THEN "accepted" ELSE "refused")
  ELSE IF b.epoch < last.epoch THEN "refused"
  ELSE IF b.epoch > last.epoch THEN "accepted"
  ELSE IF b.seq = last.seq + 1 THEN "accepted"
  ELSE IF b.seq <= last.seq THEN "duplicate" ELSE "refused"

Verdict(b) == IF gate = "session" THEN AdmitVerdict(b) ELSE AcceptVerdict(b)

\* A request arrives.  A duplicate is answered at once, unless its first copy is
\* still waiting to be committed.
Deliver(b) ==
  /\ \/ /\ Verdict(b) = "accepted"
        /\ log' = Append(log, b)
        /\ last' = b
        /\ UNCHANGED acks
     \/ /\ Verdict(b) = "duplicate"
        /\ b \notin Range(SubSeq(log, committed + 1, Len(log)))
        /\ acks' = acks \cup {b}
        /\ UNCHANGED <<log, last>>
  /\ UNCHANGED <<gate, committed, snapshot, misled, sent, producerVars, crashes>>

\* The oldest uncommitted batch is replicated and acknowledged.
Commit ==
  /\ committed < Len(log)
  /\ committed' = committed + 1
  /\ acks' = acks \cup {log[committed + 1]}
  /\ UNCHANGED <<gate, log, last, snapshot, misled, sent, producerVars, crashes>>

\* A plausible slip: one callback fires per answer, the buffered ones behind it wait on.
DrainedOnce(waiting) == IF next_to_fire \in waiting THEN next_to_fire + 1 ELSE next_to_fire

(***************************************************************************)
(* CallbackDispatcher.acknowledge and _drain: a second answer for a batch  *)
(* is refused, an early one waits for the batches before it.               *)
(***************************************************************************)
Drained(waiting) ==
  CHOOSE n \in next_to_fire .. MaxSeq :
    next_to_fire .. n - 1 \subseteq waiting /\ n \notin waiting

ReceiveAck(n) ==
  LET waiting == buffered \cup {n}
  IN  /\ Batch(epoch, n) \in acks
      /\ n >= next_to_fire
      /\ n \notin buffered
      /\ next_to_fire' = Drained(waiting)
      /\ buffered' = {k \in waiting : k >= Drained(waiting)}
      /\ UNCHANGED <<brokerVars, netVars, epoch, next_seq, failed, crashes>>

\* DeliveryAttempt.try_send: the budget of one batch is spent, the outcome is failed.
GiveUp ==
  /\ ~failed
  /\ Pending # {}
  /\ failed' = TRUE
  /\ UNCHANGED <<brokerVars, netVars, epoch, next_seq, next_to_fire, buffered, crashes>>

\* A new instance under a higher epoch; requests of the old one are still under way.
RestartProducer ==
  /\ epoch < MaxEpoch
  /\ epoch' = epoch + 1
  /\ next_seq' = 0
  /\ failed' = FALSE
  /\ next_to_fire' = 0
  /\ buffered' = {}
  /\ UNCHANGED <<brokerVars, netVars, crashes>>

\* ProducerRegistry.expire_idle: after that long no request is under way any more,
\* and a producer that comes back has to start over.
ExpireIdle ==
  /\ last # None
  /\ Pending = {}
  /\ committed = Len(log)
  /\ last' = None
  /\ sent' = {}
  /\ failed' = TRUE
  /\ UNCHANGED <<gate, log, committed, snapshot, misled, acks, epoch, next_seq,
                 next_to_fire, buffered, crashes>>

\* ProducerEntry has the last sequence only.  Nothing in the code rebuilds the sessions
\* of the other gate.  (Bound: no snapshot and no crash after a recovery that misled.)
TakeSnapshot ==
  /\ gate = "partition"
  /\ ~misled
  /\ snapshot.offset < Len(log)
  /\ snapshot' = [offset |-> Len(log), entry |-> IF last = None THEN None ELSE last.seq]
  /\ UNCHANGED <<gate, log, committed, last, misled, netVars, producerVars, crashes>>

(***************************************************************************)
(* The broker restarts on the first `end` batches of its log.              *)
(* SnapshotLoader.load refuses a snapshot past that end; then only the     *)
(* tail behind the snapshot is replayed (tail_to_replay).                  *)
(***************************************************************************)
\* A plausible slip: any snapshot found on disk is loaded.
LoadableAlways(snap, end) == TRUE

Loadable(snap, end) == snap.offset <= end

\* A plausible slip: the tail behind the snapshot is not replayed.
RebuiltWithoutTail(snap, end) ==
  IF snap.entry = None THEN {None} ELSE {Batch(e, snap.entry) : e \in 0 .. epoch}

\* The memories a recovery can end with: the log's last batch where there is a tail, or
\* the sequence the snapshot has with any epoch there was (0: none was given).
Rebuilt(snap, end) ==
  IF end > snap.offset THEN {log[end]}
  ELSE IF snap.entry = None THEN {None} ELSE {Batch(e, snap.entry) : e \in 0 .. epoch}

BrokerCrash(end) ==
  LET snap == IF Loadable(snapshot, end) THEN snapshot ELSE [offset |-> 0, entry |-> None]
  IN  /\ gate = "partition"
      /\ ~misled
      /\ crashes < MaxCrashes
      /\ end \in committed .. Len(log)
      /\ crashes' = crashes + 1
      /\ log' = SubSeq(log, 1, end)
      /\ snapshot' = snap
      /\ last' \in Rebuilt(snap, end)
      /\ misled' = (misled \/ (end > 0 /\ last' # None /\ last'.epoch # log[end].epoch))
      /\ UNCHANGED <<gate, committed, netVars, producerVars>>

Next ==
  \/ Send \/ OpenSession \/ Commit \/ GiveUp \/ RestartProducer \/ ExpireIdle \/ TakeSnapshot
  \/ \E b \in sent : Deliver(b)
  \/ \E n \in 0 .. MaxSeq - 1 : ReceiveAck(n)
  \/ \E end \in 0 .. Len(log) : BrokerCrash(end)

Spec == Init /\ [][Next]_vars

\* The producer opens its session, retries its batches and hears of answers; the broker
\* replicates.  It need not send, and nobody has to fail.
FairSpec ==
  /\ Spec
  /\ WF_vars(OpenSession) /\ WF_vars(Commit)
  /\ \A n \in 0 .. MaxSeq - 1 :
       /\ WF_vars(Batch(epoch, n) \in sent /\ Deliver(Batch(epoch, n)))
       /\ WF_vars(ReceiveAck(n))
----------------------------------------------------------------------------
(***************************************************************************)
(* Exactly once and in order: whatever the network and crashes did, each   *)
(* epoch's batches stand in the log once, by sequence and without a gap,   *)
(* and no zombie's batch follows one of a newer epoch, unless a recovery   *)
(* put a wrong epoch where ProducerEntry has none.                         *)
(***************************************************************************)
LogIsSequenced ==
  ~misled => \A i \in DOMAIN log :
    IF i > 1 /\ log[i - 1].epoch = log[i].epoch
    THEN log[i].seq = log[i - 1].seq + 1
    ELSE log[i].seq = 0 /\ (i > 1 => log[i - 1].epoch < log[i].epoch)

(***************************************************************************)
(* A batch the broker answered for is in the log to stay: a duplicate "was *)
(* already written", and no crash takes back what was acknowledged, unless *)
(* a recovery put a wrong epoch where ProducerEntry has none.              *)
(***************************************************************************)
AckedIsStored == ~misled => acks \subseteq Range(SubSeq(log, 1, committed))

(***************************************************************************)
(* Every batch is resolved: its callback fires, or the delivery failed.    *)
(* Pipelining, refused gaps and lost memory never leave one hanging.       *)
(***************************************************************************)
SendsResolve == []<>(failed \/ next_to_fire = next_seq)
=============================================================================
