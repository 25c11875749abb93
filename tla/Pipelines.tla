----------------------------- MODULE Pipelines -----------------------------
(***************************************************************************)
(* Pipelines that move records between systems and may crash between any   *)
(* two steps.  obj.class tells them apart:                                 *)
(*                                                                         *)
(*  "ctp"        consume, transform, produce in a transaction (ctp);       *)
(*  "auto"       a consumer that commits on a timer (autocommit);          *)
(*  "outbox"     a relay from an outbox table to a topic and a consumer    *)
(*               that drops repeats (outbox, dedupstore);                  *)
(*  "saga"       steps with compensations (saga);                          *)
(*  "connector"  a source or sink connector (connectoroffset,              *)
(*               sinkconnector);                                           *)
(*  "mirror"     a mirrored topic and a group that fails over to it        *)
(*               (mirroring, offsettranslation).                           *)
(***************************************************************************)
EXTENDS Naturals, Integers, Sequences, SequencesExt, FiniteSets, FiniteSetsExt

CONSTANTS
  DedupWindow,     \* DedupStore.window
  CommitInterval,  \* AutoCommitPolicy.interval_ticks, at one record a tick
  MaxItems,        \* bound: records, rows, steps, positions
  MaxOutput,       \* bound: outputs of a pipeline, repeats included
  MaxNow           \* bound: clock

VARIABLE obj

(***************************************************************************)
(* Consume, transform, produce.  position is the input the worker reads    *)
(* next, committed the group's offset, out what read-committed consumers   *)
(* see.  Two history fields keep what the code lets a worker do against    *)
(* its own contract: early, an offset handed over before the last output   *)
(* of its transaction; bare, one committed outside while outputs were open.*)
(***************************************************************************)
CtpInit ==
  \E eos \in BOOLEAN :
    obj = [class |-> "ctp", exactly_once |-> eos, open |-> FALSE, produced |-> <<>>,
           offset_commit |-> -1, position |-> 0, committed |-> 0, out |-> <<>>,
           early |-> FALSE, bare |-> FALSE]

\* ProcessingTransaction.begin
BeginTxn ==
  /\ obj.class = "ctp" /\ ~ obj.open
  /\ obj' = [obj EXCEPT !.open = TRUE, !.produced = <<>>, !.offset_commit = -1]

\* ProcessingTransaction.produce: the output for the next input
ProduceNext ==
  /\ obj.class = "ctp" /\ obj.open
  /\ obj.position < MaxItems /\ Len(obj.out) + Len(obj.produced) < MaxOutput
  /\ obj' = [obj EXCEPT !.produced = Append(@, obj.position), !.position = @ + 1]

\* ProcessingTransaction.commit_offset, at any time; the last call counts
RideOffset ==
  /\ obj.class = "ctp" /\ obj.open
  /\ obj' = [obj EXCEPT !.offset_commit = obj.position]

\* A plausible slip: an exactly-once commit goes through without the offset.
OffsetRidesOrNot(o) == TRUE
OffsetRides(o) == o.exactly_once => o.offset_commit # -1

\* ProcessingTransaction.commit: outputs and offset appear together
CommitBoth ==
  /\ obj.class = "ctp" /\ obj.open /\ OffsetRides(obj)
  /\ obj' = [obj EXCEPT !.open = FALSE, !.out = @ \o obj.produced,
                        !.committed = IF obj.offset_commit = -1 THEN @ ELSE obj.offset_commit,
                        !.early = @ \/ obj.offset_commit \notin {-1, obj.position}]

\* ProcessingTransaction.abort; the worker goes back to the committed offset
AbortBoth ==
  /\ obj.class = "ctp" /\ obj.open
  /\ obj' = [obj EXCEPT !.open = FALSE, !.position = obj.committed]

\* bare_commit_check: an offset of its own, unless exactly-once was declared; whether a
\* transaction is open is not looked at
BareCommit ==
  /\ obj.class = "ctp" /\ ~ obj.exactly_once
  /\ obj' = [obj EXCEPT !.committed = obj.position,
                        !.bare = @ \/ (obj.open /\ obj.produced # <<>>)]

\* A worker that dies takes its open transaction with it.
CtpCrash ==
  /\ obj.class = "ctp" /\ (obj.open \/ obj.position # obj.committed)
  /\ obj' = [obj EXCEPT !.open = FALSE, !.position = obj.committed]

CtpNext ==
  BeginTxn \/ ProduceNext \/ RideOffset \/ CommitBoth \/ AbortBoth \/ BareCommit \/ CtpCrash

(***************************************************************************)
(* Exactly once: the outputs are those of the inputs below the committed   *)
(* offset, each once, in order, whenever workers die, as long as every     *)
(* transaction took its offset after its outputs.  At least once, whatever *)
(* the order: no input below the offset is without its output, unless an   *)
(* offset was committed outside over outputs of an open transaction.       *)
(***************************************************************************)
EveryInputOnce ==
  obj.class = "ctp" =>
    /\ ~ obj.bare => 0..(obj.committed - 1) \subseteq Range(obj.out)
    /\ obj.exactly_once /\ ~ obj.early => obj.out = [i \in 1..obj.committed |-> i - 1]

-----------------------------------------------------------------------------
(***************************************************************************)
(* Auto-commit.  since is the time since the last commit, busy whether     *)
(* this tick's record was processed, replayed the most a crash replayed.   *)
(***************************************************************************)
AutoInit ==
  \E on_poll \in BOOLEAN :
    obj = [class |-> "auto", on_poll |-> on_poll, fetched |-> 0, processed |-> 0, committed |-> 0,
           since |-> 0, busy |-> FALSE, replayed |-> 0, done |-> {}]

ReplayWindow == CommitInterval * 1

PollOne ==
  /\ obj.class = "auto" /\ obj.fetched = obj.processed /\ obj.fetched < MaxItems
  /\ obj' = [obj EXCEPT !.fetched = @ + 1]

ProcessOne ==
  /\ obj.class = "auto" /\ obj.processed < obj.fetched /\ ~ obj.busy
  /\ obj' = [obj EXCEPT !.processed = @ + 1, !.done = @ \cup {obj.processed}, !.busy = TRUE]

\* Time passes; the commit falls due with it.
AutoTick ==
  /\ obj.class = "auto"
  /\ obj' = IF obj.since + 1 < CommitInterval THEN [obj EXCEPT !.since = @ + 1, !.busy = FALSE]
            ELSE [obj EXCEPT !.since = 0, !.busy = FALSE,
                    !.committed = IF obj.on_poll THEN obj.fetched ELSE obj.processed]

AutoCrash ==
  /\ obj.class = "auto" /\ obj.fetched # obj.committed
  /\ obj' = [obj EXCEPT !.fetched = obj.committed, !.processed = obj.committed,
                        !.replayed = Max({@, obj.processed - obj.committed})]

AutoNext == PollOne \/ ProcessOne \/ AutoTick \/ AutoCrash

\* A crash repeats no more than the window, and what was committed after it was
\* processed is never lost; committing on poll may lose the record in hand.
ReplayIsPriced ==
  obj.class = "auto" =>
    /\ obj.replayed <= ReplayWindow
    /\ ~ obj.on_poll => 0..(obj.committed - 1) \subseteq obj.done

-----------------------------------------------------------------------------
(***************************************************************************)
(* The outbox: rows written so far, those marked published, the topic, the *)
(* consumer's position in it, when each row was first seen (-1: forgotten) *)
(* and what the consumer acted on, with the time.                          *)
(***************************************************************************)
OutboxInit ==
  obj = [class |-> "outbox", rows |-> 0, published |-> {}, topic |-> <<>>, position |-> 0,
         seen |-> [r \in 1..MaxItems |-> -1], acted |-> <<>>, now |-> 0]

\* OutboxRelay.enqueue
EnqueueRow ==
  /\ obj.class = "outbox" /\ obj.rows < MaxItems
  /\ obj' = [obj EXCEPT !.rows = @ + 1]

\* OutboxRelay.unpublished
Unpublished(o) == (1..o.rows) \ o.published

\* OutboxRelay.publish_next: the oldest row; without the acknowledgement it is
\* not marked, though the broker may have it, and will be published again.
PublishNext(acked) ==
  /\ obj.class = "outbox" /\ Unpublished(obj) # {} /\ Len(obj.topic) < MaxOutput
  /\ LET row == Min(Unpublished(obj))
     IN  obj' = [obj EXCEPT !.topic = Append(@, row),
                            !.published = IF acked THEN @ \cup {row} ELSE @]

\* A publish that never reached the broker is refused by publish_next too.
PublishLost ==
  /\ obj.class = "outbox" /\ Unpublished(obj) # {}
  /\ UNCHANGED obj

\* DedupStore._expire
Remembered(o) == [r \in 1..MaxItems |-> IF o.seen[r] # -1 /\ o.now - o.seen[r] < DedupWindow
                                         THEN o.seen[r] ELSE -1]

\* DedupStore.process
ProcessRow ==
  /\ obj.class = "outbox" /\ obj.position < Len(obj.topic) /\ Len(obj.acted) < MaxOutput
  /\ LET row  == obj.topic[obj.position + 1]
         kept == Remembered(obj)
     IN  obj' = [obj EXCEPT !.position = @ + 1,
                   !.seen = IF kept[row] = -1 THEN [kept EXCEPT ![row] = obj.now] ELSE kept,
                   !.acted = IF kept[row] = -1 THEN Append(@, [row |-> row, at |-> obj.now]) ELSE @]

\* A rebalance makes the consumer read from an earlier position again.
Rewind(to) ==
  /\ obj.class = "outbox" /\ to < obj.position
  /\ obj' = [obj EXCEPT !.position = to]

OutboxTick ==
  /\ obj.class = "outbox" /\ obj.now < MaxNow
  /\ obj' = [obj EXCEPT !.now = @ + 1]

OutboxNext ==
  \/ EnqueueRow \/ PublishLost \/ ProcessRow \/ OutboxTick
  \/ (\E acked \in BOOLEAN : PublishNext(acked)) \/ \E to \in 0..MaxOutput : Rewind(to)

(***************************************************************************)
(* No row is lost or overtaken on its way: a marked row is in the topic,   *)
(* rows first appear and are first acted upon in the order they were       *)
(* written, and a row is acted upon again only a whole window later.       *)
(***************************************************************************)
OutboxDelivers ==
  obj.class = "outbox" =>
    /\ obj.published \subseteq Range(obj.topic)
    /\ \A i \in DOMAIN obj.topic : 1..obj.topic[i] \subseteq Range(SubSeq(obj.topic, 1, i))
    /\ \A i \in DOMAIN obj.acted : 1..obj.acted[i].row \subseteq {obj.acted[j].row : j \in 1..i}
    /\ \A i, j \in DOMAIN obj.acted :
         i < j /\ obj.acted[i].row = obj.acted[j].row => obj.acted[j].at - obj.acted[i].at >= DedupWindow

-----------------------------------------------------------------------------
(***************************************************************************)
(* The saga: completed and state as in the code; order is what fail()      *)
(* returns, undone how much of it has been compensated, effects what the   *)
(* services have applied, unknown the step whose answer was lost.  The     *)
(* code keeps no order and no record of compensations: orderly is a        *)
(* history field, TRUE while the caller ran the steps in their order, gave *)
(* up once, and compensated along the order it was given.                  *)
(***************************************************************************)
SagaInit ==
  obj = [class |-> "saga", completed |-> <<>>, state |-> "running", order |-> <<>>, undone |-> 0,
         effects |-> {}, unknown |-> {}, orderly |-> TRUE]

Steps == [i \in 1..MaxItems |-> i]

\* Saga.fail: the completed steps, last first
Failed(o) == [o EXCEPT !.state = "compensated", !.order = Reverse(o.completed)]

\* Saga.complete_step: any step, in any order (bound: as many as there are)
CompleteStep(step) ==
  /\ obj.class = "saga" /\ obj.state = "running" /\ Len(obj.completed) < MaxItems
  /\ LET done == Append(obj.completed, step)
     IN  obj' = [obj EXCEPT !.completed = done, !.effects = @ \cup {step},
                   !.state = IF done = Steps THEN "committed" ELSE @,
                   !.orderly = @ /\ step = Len(done)]

\* A step is applied in its service, its answer is lost, and the saga is failed.
StepFails(step) ==
  /\ obj.class = "saga" /\ obj.state = "running"
  /\ obj' = [Failed(obj) EXCEPT !.effects = @ \cup {step}, !.unknown = {step},
                                !.orderly = @ /\ step = Len(obj.completed) + 1]

\* Saga.fail looks at no state: a running saga, a committed one, or a second time.
FailSaga ==
  /\ obj.class = "saga"
  /\ obj' = [Failed(obj) EXCEPT !.orderly = @ /\ obj.state # "compensated"]

\* Saga.compensate_step: a completed step, whatever the state, as often as it is asked
CompensateStep(step) ==
  /\ obj.class = "saga" /\ step \in Range(obj.completed)
  /\ LET due == /\ obj.state = "compensated" /\ obj.undone < Len(obj.order)
                /\ step = obj.order[obj.undone + 1]
     IN  obj' = [obj EXCEPT !.effects = @ \ {step}, !.undone = IF due THEN @ + 1 ELSE @,
                            !.orderly = @ /\ due]

SagaNext ==
  \/ FailSaga
  \/ \E step \in 1..MaxItems : CompleteStep(step) \/ StepFails(step) \/ CompensateStep(step)

\* For an orderly caller, all steps or, once unwound, none but one whose outcome nobody
\* knew; on the way back the effects left are always those of the first steps.
SagaUnwinds ==
  obj.class = "saga" /\ obj.orderly =>
    /\ obj.state = "committed" => obj.effects = 1..MaxItems
    /\ obj.effects \ obj.unknown = 1..(Len(obj.completed) - obj.undone)
    /\ Cardinality(obj.unknown) <= 1

-----------------------------------------------------------------------------
(***************************************************************************)
(* A connector: the positions of its source, which may have gaps, those    *)
(* read and not yet committed with whether each is acknowledged, and what  *)
(* the target system has.  A sink connector does the same with the         *)
(* broker's offsets.                                                       *)
(***************************************************************************)
ConnectorInit ==
  \E source \in SUBSET (0..MaxItems) :
    obj = [class |-> "connector", source |-> source, inflight |-> <<>>, committed |-> -1,
           latest_read |-> -1, target |-> {}]

\* ConnectorOffsets.read, SinkConnector.consume: forward only, and what comes next
ReadPosition(p) ==
  /\ obj.class = "connector" /\ p \in obj.source /\ p > obj.latest_read
  /\ ~ \E q \in obj.source : q > obj.latest_read /\ q < p
  /\ obj' = [obj EXCEPT !.inflight = Append(@, [at |-> p, acked |-> FALSE]), !.latest_read = p]

\* The other system takes a record, in any order; its answer may be lost.
Deliver(i) ==
  /\ obj.class = "connector" /\ i \in DOMAIN obj.inflight
  /\ obj' = [obj EXCEPT !.target = @ \cup {obj.inflight[i].at}]

\* ConnectorOffsets.acknowledge; SinkConnector.confirm_write
AcknowledgeAt(i) ==
  /\ obj.class = "connector" /\ i \in DOMAIN obj.inflight /\ obj.inflight[i].at \in obj.target
  /\ obj' = [obj EXCEPT !.inflight[i].acked = TRUE]

\* The first n records in flight are acknowledged, one after the other.
AckedPrefix(flying) == Max({n \in 0..Len(flying) : \A i \in 1..n : flying[i].acked})

\* ConnectorOffsets.commit; SinkConnector.commit
CommitPrefix ==
  /\ obj.class = "connector" /\ AckedPrefix(obj.inflight) > 0
  /\ LET n == AckedPrefix(obj.inflight)
     IN  obj' = [obj EXCEPT !.committed = obj.inflight[n].at,
                            !.inflight = SubSeq(@, n + 1, Len(@))]

\* ConnectorOffsets.resume_from, after a crash
ResumeFrom ==
  /\ obj.class = "connector" /\ obj.inflight # <<>>
  /\ obj' = [obj EXCEPT !.inflight = <<>>, !.latest_read = obj.committed]

ConnectorNext ==
  \/ CommitPrefix \/ ResumeFrom
  \/ \E n \in 0..MaxItems : ReadPosition(n) \/ Deliver(n) \/ AcknowledgeAt(n)

\* Answers out of order and crashes lose nothing: all up to the committed
\* position has arrived, and all that is in flight is above it.
ConnectorsLoseNothing ==
  obj.class = "connector" =>
    /\ \A p \in obj.source : p <= obj.committed => p \in obj.target
    /\ \A i \in DOMAIN obj.inflight : obj.inflight[i].at > obj.committed

-----------------------------------------------------------------------------
(***************************************************************************)
(* The mirror: translation[o + 1] is where source record o was copied to;  *)
(* position the group's next source offset; landed where it failed over    *)
(* to, -1 before.                                                          *)
(***************************************************************************)
MirrorInit ==
  \E first \in 0..1 :
    obj = [class |-> "mirror", source_end |-> 0, translation |-> <<>>, dest_next |-> first,
           checkpoints |-> <<>>, position |-> 0, landed |-> -1]

SourceAppend ==
  /\ obj.class = "mirror" /\ obj.source_end < MaxItems + 1
  /\ obj' = [obj EXCEPT !.source_end = @ + 1]

\* MirrorLink.copy: the next source offset and no other.  The destination may
\* get a record of its own first (a control record), which shifts the offsets.
CopyRecord(extra) ==
  /\ obj.class = "mirror" /\ Len(obj.translation) < obj.source_end
  /\ obj' = [obj EXCEPT !.translation = Append(@, obj.dest_next + extra), !.dest_next = @ + extra + 1]

\* OffsetTranslator.add_checkpoint, of a copied record (MirrorLink.translate)
AddCheckpoint(o) ==
  /\ obj.class = "mirror" /\ o < Len(obj.translation)
  /\ obj.checkpoints # <<>> => /\ o > Last(obj.checkpoints)[1]
                              /\ obj.translation[o + 1] > Last(obj.checkpoints)[2]
  /\ obj' = [obj EXCEPT !.checkpoints = Append(@, <<o, obj.translation[o + 1]>>)]

ConsumeSource ==
  /\ obj.class = "mirror" /\ obj.position < obj.source_end /\ obj.landed = -1
  /\ obj' = [obj EXCEPT !.position = @ + 1]

\* OffsetTranslator.translate: the last checkpoint at or before the offset
Translate(o, offset) ==
  LET before == {i \in DOMAIN o.checkpoints : o.checkpoints[i][1] <= offset}
  IN  IF before = {} THEN <<-1, -1>> ELSE o.checkpoints[Max(before)]

FailOver ==
  /\ obj.class = "mirror" /\ obj.landed = -1 /\ Translate(obj, obj.position)[1] # -1
  /\ obj' = [obj EXCEPT !.landed = Translate(obj, obj.position)[2]]

MirrorNext ==
  \/ SourceAppend \/ ConsumeSource \/ FailOver
  \/ (\E extra \in 0..1 : CopyRecord(extra)) \/ \E o \in 0..MaxItems : AddCheckpoint(o)

\* A group that fails over skips nothing it had not read, and reads again no
\* further back than the last checkpoint before its position.
FailoverSkipsNothing ==
  obj.class = "mirror" /\ obj.landed # -1 =>
    /\ \A o \in obj.position..(Len(obj.translation) - 1) : obj.translation[o + 1] >= obj.landed
    /\ \E i \in DOMAIN obj.checkpoints : obj.checkpoints[i][2] = obj.landed

-----------------------------------------------------------------------------
Init == CtpInit \/ AutoInit \/ OutboxInit \/ SagaInit \/ ConnectorInit \/ MirrorInit

Next == CtpNext \/ AutoNext \/ OutboxNext \/ SagaNext \/ ConnectorNext \/ MirrorNext

\* What a pipeline took in comes out, as often as it promises, wherever it crashes; of a
\* transactional worker and of a saga's caller the promise asks the order their modules
\* describe and do not enforce.
PipelinesKeepPromises ==
  /\ EveryInputOnce /\ ReplayIsPriced /\ OutboxDelivers
  /\ SagaUnwinds /\ ConnectorsLoseNothing /\ FailoverSkipsNothing
=============================================================================
