------------------------------ MODULE Clients ------------------------------
(***************************************************************************)
(* The consumer's and the producer's side of the broker.  obj.class tells  *)
(* the objects apart:                                                      *)
(*                                                                         *)
(*  "session"  an incremental fetch session and the rotation that packs a  *)
(*             response (fetchsession, fetchassembly);                     *)
(*  "wait"     fetches that wait for enough bytes (fetching, longpoll,     *)
(*             purgatory);                                                 *)
(*  "reader"   what a consumer does with records that fail (prefetch,      *)
(*             pauseresume, deserialize, deadletter, retrytopic);          *)
(*  "sender"   a send through interceptors, the wait budget, the buffer    *)
(*             and close (interceptors, maxblock, producerbuffer,          *)
(*             batching, producerclose);                                   *)
(*  "ids"      blocks of producer ids (produceridblock);                   *)
(*  "input"    the pure functions, on one input each (batchsplit,          *)
(*             fetchcoalesce, partitioner, maxpollrecords).                *)
(***************************************************************************)
EXTENDS Naturals, Integers, Sequences, SequencesExt, FiniteSets, FiniteSetsExt

CONSTANTS
  Budget,       \* FetchAssembler.response_budget
  MaxWait,      \* LongPollRequest.max_wait = FetchRequest.max_wait_ticks
  HighMark,     \* Prefetcher.high_mark
  LowMark,      \* Prefetcher.low_mark
  MaxAttempts,  \* RetryTracker.max_attempts
  Tiers,        \* number of retry tiers
  Capacity,     \* ProducerBuffer.capacity_bytes
  BlockTimeout, \* ProducerBuffer.block_timeout
  SendBudget,   \* BlockBudget.budget
  BlockSize,    \* ProducerIdBlock.block_size
  MaxRounds,    \* bound: fetches of a session, producer ids
  MaxRecords    \* bound: records of a reader or sender

VARIABLE obj

Total(seq) == FoldLeft(LAMBDA a, b : a + b, 0, seq)

(***************************************************************************)
(* The session.  epoch and known are the broker's (0: no session); c_epoch *)
(* is the epoch the client expects, told the offsets it believes the       *)
(* broker knows, position what it has read.  waited counts the rounds in a *)
(* row a partition with data was deferred.  A record of partition p has    *)
(* p bytes.  late is a request the client gave up on that is still on its  *)
(* way ([epoch, changed, offsets], epoch 0 for none).                      *)
(***************************************************************************)
PARTS == 1..2
Zero  == [p \in PARTS |-> 0]
NoRequest == [epoch |-> 0, changed |-> {}, offsets |-> Zero]

SessionInit ==
  obj = [class |-> "session", epoch |-> 0, known |-> Zero, c_epoch |-> 0, told |-> Zero,
         position |-> Zero, end |-> Zero, rotation |-> 0, waited |-> Zero, rounds |-> 0,
         late |-> NoRequest, skipped |-> FALSE]

Arrive(p) ==
  /\ obj.class = "session" /\ obj.end[p] < 2
  /\ obj' = [obj EXCEPT !.end[p] = @ + 1]

\* FetchAssembler.assemble: in rotation, what fits; the oversized only alone
Assemble(rotation, size) ==
  LET order == [i \in PARTS |-> 1 + ((rotation + i - 1) % 2)]
      take(acc, p) ==
        IF size[p] > Budget /\ acc.served = {} THEN [served |-> {p}, used |-> size[p]]
        ELSE IF acc.used + size[p] <= Budget
             THEN [served |-> acc.served \cup {p}, used |-> acc.used + size[p]] ELSE acc
  IN  FoldLeft(take, [served |-> {}, used |-> 0], order).served

\* The broker answers from the offsets it knows; a lost answer reaches nobody.
Answer(o, known, epoch, answered) ==
  LET size   == [p \in PARTS |-> IF known[p] < o.end[p] THEN p ELSE 0]
      served == Assemble(o.rotation, size)
      data   == {p \in served : size[p] > 0}
  IN  [o EXCEPT !.known = known, !.epoch = epoch, !.rotation = (@ + 1) % 2,
        !.rounds = @ + 1,
        !.waited = [p \in PARTS |-> IF p \in served \/ size[p] = 0 THEN 0 ELSE @[p] + 1],
        !.c_epoch = IF answered THEN epoch ELSE @,
        !.told = IF answered THEN o.position ELSE @,
        !.skipped = @ \/ (answered /\ \E p \in data : known[p] # o.position[p]),
        !.position = [p \in PARTS |-> IF answered /\ p \in data THEN known[p] + 1 ELSE @[p]]]

\* FetchSession.full_fetch
FullFetch(answered) ==
  /\ obj.class = "session" /\ obj.rounds < MaxRounds /\ obj.c_epoch = 0
  /\ obj' = Answer(obj, obj.position, 1, answered)

\* A plausible slip: any epoch of a live session is accepted.
InStepIfLive(o, epoch) == o.epoch # 0
InStep(o, epoch) == o.epoch # 0 /\ epoch = o.epoch

\* The client's next incremental request: only the partitions that moved.
Request(o) ==
  [epoch |-> o.c_epoch, changed |-> {p \in PARTS : o.position[p] # o.told[p]}, offsets |-> o.position]

Updated(known, request) ==
  [p \in PARTS |-> IF p \in request.changed THEN request.offsets[p] ELSE known[p]]

\* FetchSession.incremental_fetch; refused, the client starts over
IncrementalFetch(answered) ==
  /\ obj.class = "session" /\ obj.rounds < MaxRounds /\ obj.c_epoch # 0
  /\ obj' = IF InStep(obj, obj.c_epoch)
            THEN Answer(obj, Updated(obj.known, Request(obj)), obj.epoch + 1, answered)
            ELSE [obj EXCEPT !.c_epoch = 0]

\* The client times out, but the request may still arrive.
GiveUp ==
  /\ obj.class = "session" /\ obj.c_epoch # 0 /\ obj.late = NoRequest
  /\ obj' = [obj EXCEPT !.late = Request(obj)]

LateRequest ==
  /\ obj.class = "session" /\ obj.late # NoRequest /\ obj.rounds < MaxRounds
  /\ obj' = [IF InStep(obj, obj.late.epoch)
             THEN Answer(obj, Updated(obj.known, obj.late), obj.epoch + 1, FALSE) ELSE obj
             EXCEPT !.late = NoRequest]

\* A broker restart forgets the session.
Forget ==
  /\ obj.class = "session" /\ obj.epoch # 0
  /\ obj' = [obj EXCEPT !.epoch = 0, !.known = Zero]

SessionNext ==
  \/ Forget \/ GiveUp \/ LateRequest \/ \E p \in PARTS : Arrive(p)
  \/ \E answered \in BOOLEAN : FullFetch(answered) \/ IncrementalFetch(answered)

(***************************************************************************)
(* Over lost answers, repeats and broker restarts an incremental fetch     *)
(* never reads against stale state: no record is skipped or repeated.  And *)
(* no partition with data is deferred a full turn of the rotation, however *)
(* large its next record is.                                               *)
(***************************************************************************)
SessionsStayInStep ==
  obj.class = "session" => ~ obj.skipped /\ \A p \in PARTS : obj.waited[p] < 2

-----------------------------------------------------------------------------
(***************************************************************************)
(* Waiting fetches.  sizes: the records there are; history: <<tick, bytes>>*)
(* after every append; each request [state, min, max, since, at, got].     *)
(***************************************************************************)
REQUESTS == 1..2

WaitInit ==
  \E min \in [REQUESTS -> 1..3], max \in 2..4 :
    /\ \A r \in REQUESTS : min[r] <= max
    /\ obj = [class |-> "wait", now |-> 0, sizes |-> <<>>, history |-> << <<0, 0>> >>,
              max |-> max, by_event |-> 0, by_timeout |-> 0,
              reqs |-> [r \in REQUESTS |->
                [state |-> "new", min |-> min[r], since |-> 0, at |-> 0, got |-> 0]]]

\* plan_fetch: how many of the available records to send, 0 to wait
PlanFetch(min, max, sizes, waited) ==
  LET bytes(n)  == Total(SubSeq(sizes, 1, n))
      fits(n)   == n = 1 \/ bytes(n) <= max
      room      == {n \in 1..Len(sizes) : \A k \in 1..n : fits(k)}
      enough    == {n \in room : sizes[n] > max \/ bytes(n) >= min}
  IN  IF enough # {} THEN Min(enough)
      ELSE IF waited >= MaxWait THEN Max(room \cup {0}) ELSE 0

\* A fetch is answered at once or parked until its minimum (Purgatory.park).
Fetch(r) ==
  /\ obj.class = "wait" /\ obj.reqs[r].state = "new"
  /\ LET n == PlanFetch(obj.reqs[r].min, obj.max, obj.sizes, 0)
     IN  obj' = [obj EXCEPT !.reqs[r] =
           [@ EXCEPT !.state = IF n > 0 THEN "done" ELSE "parked",
                     !.since = obj.now, !.at = obj.now, !.got = n]]

\* The request is answered with what there is.
Completed(o, r) ==
  [o.reqs[r] EXCEPT !.state = "done", !.at = o.now,
                    !.got = PlanFetch(o.reqs[r].min, o.max, o.sizes, MaxWait)]

\* Purgatory.on_progress: all satisfied requests in one sweep
OnProgress(size) ==
  /\ obj.class = "wait" /\ Len(obj.sizes) < 3
  /\ LET sizes == Append(obj.sizes, size)
         o     == [obj EXCEPT !.sizes = sizes]
         ready == {r \in REQUESTS : o.reqs[r].state = "parked" /\ Total(sizes) >= o.reqs[r].min}
     IN  obj' = [o EXCEPT !.history = Append(@, <<obj.now, Total(sizes)>>),
                   !.by_event = @ + Cardinality(ready),
                   !.reqs = [r \in REQUESTS |-> IF r \in ready THEN Completed(o, r) ELSE @[r]]]

\* Purgatory.on_tick: those whose deadline has come
OnTick ==
  /\ obj.class = "wait" /\ obj.now < MaxWait + 1
  /\ LET o    == [obj EXCEPT !.now = @ + 1]
         late == {r \in REQUESTS : o.reqs[r].state = "parked" /\ o.now >= o.reqs[r].since + MaxWait}
     IN  obj' = [o EXCEPT !.by_timeout = @ + Cardinality(late),
                   !.reqs = [r \in REQUESTS |-> IF r \in late THEN Completed(o, r) ELSE @[r]]]

\* resolve_fetch: the tick, counted from the request, at which it is answered
ResolveFetch(o, r) ==
  LET since == o.reqs[r].since
      met   == {i \in DOMAIN o.history :
                  o.history[i][2] >= o.reqs[r].min /\ o.history[i][1] <= since + MaxWait}
  IN  IF met = {} THEN MaxWait ELSE Max({0, o.history[Min(met)][1] - since})

WaitNext == OnTick \/ (\E r \in REQUESTS : Fetch(r)) \/ \E size \in {1, 2} : OnProgress(size)

(***************************************************************************)
(* The event-driven purgatory answers every fetch exactly when the long    *)
(* poll says: at the tick its minimum is there, or after the maximum wait, *)
(* once, and with data if there is any.  (Where the minimum is so close to *)
(* the maximum that plan_fetch cannot pack it, it is only never late.)     *)
(***************************************************************************)
FetchesAnswerOnTime ==
  obj.class = "wait" =>
    \A r \in REQUESTS : LET q == obj.reqs[r] IN
      /\ q.state = "done" =>
           /\ q.at - q.since <= MaxWait
           /\ q.min + 1 <= obj.max => q.at - q.since = ResolveFetch(obj, r)
           /\ q.got = 0 => \A i \in DOMAIN obj.history : obj.history[i][1] < q.at => obj.history[i][2] = 0
      /\ q.state = "parked" => obj.now < q.since + MaxWait

-----------------------------------------------------------------------------
(***************************************************************************)
(* The reader.  kind: what becomes of each record when it is handled; fate:*)
(* what has become of it so far; tier: the retry tier it waits in (or -1). *)
(* fetched, pos, committed: last record read ahead, handled, committed.    *)
(***************************************************************************)
KINDS == {"good", "flaky", "bad", "poison"}

ReaderInit ==
  \E kind \in [1..MaxRecords -> KINDS], policy \in {"stop", "skip", "divert"},
     retry \in {"inline", "topics"} :
    obj = [class |-> "reader", kind |-> kind, policy |-> policy, retry |-> retry,
           fetched |-> 0, buffered |-> 0, paused |-> FALSE, held |-> FALSE, pos |-> 0,
           committed |-> 0, attempts |-> 0, tier |-> [r \in 1..MaxRecords |-> -1],
           fate |-> [r \in 1..MaxRecords |-> {}], dead |-> {}, crashed |-> FALSE]

\* Prefetcher.fetched, of a partition that is not paused (PartitionFlow.fetchable)
FetchAhead ==
  /\ obj.class = "reader" /\ ~ obj.paused /\ ~ obj.held /\ obj.fetched < MaxRecords
  /\ obj' = [obj EXCEPT !.fetched = @ + 1, !.buffered = @ + 1,
                        !.paused = obj.buffered + 1 >= HighMark]

\* PartitionFlow.pause and resume
PauseOrResume ==
  /\ obj.class = "reader" /\ ~ obj.crashed
  /\ obj' = [obj EXCEPT !.held = ~ @]

Resumes(o) == o.buffered - 1 <= LowMark

\* The next record is through, with this fate; Prefetcher.processed.
Through(o, fate) ==
  [o EXCEPT !.pos = @ + 1, !.attempts = 0, !.fate[o.pos + 1] = @ \cup {fate},
            !.buffered = @ - 1, !.paused = @ /\ ~ Resumes(o)]

Handling(kinds) ==
  /\ obj.class = "reader" /\ obj.pos < obj.fetched
  /\ obj.kind[obj.pos + 1] \in kinds

\* RetryTracker.record_success
Succeed ==
  /\ Handling({"good", "flaky"})
  /\ obj' = Through(obj, "done")

\* RetryTracker.record_failure, in place
FailInline ==
  /\ Handling({"bad", "flaky"}) /\ obj.retry = "inline"
  /\ obj' = IF obj.attempts + 1 >= MaxAttempts
            THEN [Through(obj, "dead") EXCEPT !.dead = @ \cup {obj.pos + 1}]
            ELSE [obj EXCEPT !.attempts = @ + 1]

\* RetryRouter.route_on_failure: the tier, or -1 for the dead letter topic
RouteOnFailure(attempt) == IF attempt >= Tiers THEN -1 ELSE attempt

FailToTier ==
  /\ Handling({"bad", "flaky"}) /\ obj.retry = "topics"
  /\ obj' = [Through(obj, "retrying") EXCEPT !.tier[obj.pos + 1] = RouteOnFailure(0)]

RetryFromTier(r, ok) ==
  /\ obj.class = "reader" /\ obj.tier[r] >= 0
  /\ ok => obj.kind[r] # "bad"
  /\ LET next == IF ok THEN -1 ELSE RouteOnFailure(obj.tier[r] + 1)
     IN  obj' = [obj EXCEPT !.tier[r] = next,
            !.fate[r] = IF ok THEN @ \cup {"done"} ELSE IF next = -1 THEN @ \cup {"dead"} ELSE @,
            !.dead = IF ~ ok /\ next = -1 THEN @ \cup {r} ELSE @]

\* PoisonHandler.on_poison; "stop" goes no further
OnPoison ==
  /\ Handling({"poison"}) /\ obj.policy # "stop"
  /\ obj' = [Through(obj, IF obj.policy = "skip" THEN "skipped" ELSE "diverted")
               EXCEPT !.committed = obj.pos + 1]

CommitPosition ==
  /\ obj.class = "reader" /\ obj.committed < obj.pos
  /\ obj' = [obj EXCEPT !.committed = obj.pos]

\* RetryTracker.replay hands a dead letter out again
Replay(r) ==
  /\ obj.class = "reader" /\ r \in obj.dead
  /\ obj' = [obj EXCEPT !.dead = @ \ {r}, !.fate[r] = @ \cup {"replayed"}]

\* The consumer is replaced: the new one starts at the commit with nothing in memory.
Replace ==
  /\ obj.class = "reader" /\ ~ obj.crashed
  /\ obj' = [obj EXCEPT !.crashed = TRUE, !.pos = obj.committed, !.fetched = obj.committed,
                        !.buffered = 0, !.paused = FALSE, !.held = FALSE, !.attempts = 0]

ReaderNext ==
  \/ FetchAhead \/ PauseOrResume \/ Succeed \/ FailInline \/ FailToTier \/ OnPoison
  \/ CommitPosition \/ Replace
  \/ \E r \in 1..MaxRecords : Replay(r) \/ \E ok \in BOOLEAN : RetryFromTier(r, ok)

(***************************************************************************)
(* No record goes missing in silence: what lies below the commit was done, *)
(* or set aside where it can be found, also after the consumer was         *)
(* replaced; a record that never failed for good is never a dead letter;   *)
(* and reading ahead is bounded and never left paused with nothing to do.  *)
(***************************************************************************)
FailuresAreKept ==
  obj.class = "reader" =>
    /\ \A r \in 1..obj.committed :
         /\ obj.fate[r] # {}
         /\ "retrying" \in obj.fate[r] /\ obj.tier[r] = -1 =>
              obj.fate[r] \cap {"done", "dead"} # {}
    /\ \A r \in 1..MaxRecords : "dead" \in obj.fate[r] => obj.kind[r] \in {"bad", "flaky"}
    /\ \A r \in 1..MaxRecords : "dead" \in obj.fate[r] => r \in obj.dead \/ "replayed" \in obj.fate[r]
    /\ obj.buffered = obj.fetched - obj.pos /\ obj.buffered <= HighMark
    /\ obj.paused => obj.buffered > LowMark

-----------------------------------------------------------------------------
(***************************************************************************)
(* The sender.  outcome[n]: what the application was told of record n;     *)
(* pending: accepted <<record, size>>; used_bytes the buffer's own count.  *)
(***************************************************************************)
SenderInit ==
  \E on_full \in {"block", "fail"} :
    obj = [class |-> "sender", on_full |-> on_full, used_bytes |-> 0, pending |-> <<>>,
           outcome |-> <<>>, spent |-> 0, blocked |-> 0, dropped |-> 0, closed |-> FALSE,
           total_raw |-> 0, total_stored |-> 0]

Told(o, outcome) == [o EXCEPT !.outcome = Append(@, outcome)]

\* InterceptorChain.run: a filter drops, an observer that changes the record
\* or a failing link is an error
Intercepted(result) ==
  /\ obj.class = "sender" /\ ~ obj.closed /\ Len(obj.outcome) < MaxRecords
  /\ obj' = IF result = "dropped" THEN [Told(obj, "dropped") EXCEPT !.dropped = @ + 1]
            ELSE Told(obj, "error")

\* BlockBudget.can_proceed over both waits
CanProceed(spent) == spent <= SendBudget

\* ProducerBuffer.append after the wait for metadata, all within the budget
SendRecord(size, metadata, free_in) ==
  /\ obj.class = "sender" /\ ~ obj.closed /\ Len(obj.outcome) < MaxRecords
  /\ LET full    == obj.used_bytes + size > Capacity
         waits   == full /\ obj.on_full = "block"
         gives   == waits /\ free_in > BlockTimeout
         ticks   == IF ~ waits THEN 0 ELSE IF gives THEN BlockTimeout ELSE free_in
         spent   == metadata + ticks
         refused == gives \/ (full /\ ~ waits) \/ ~ CanProceed(spent)
         o       == [obj EXCEPT !.spent = Max({@, IF refused THEN 0 ELSE spent}),
                                !.blocked = @ + ticks]
     IN  obj' = IF refused THEN Told(o, "failed")
                ELSE [Told(o, "accepted") EXCEPT
                        !.used_bytes = @ + size,
                        !.pending = Append(@, <<Len(obj.outcome) + 1, size>>)]

\* Batch.batched_bytes; CompressionLedger.store keeps the smaller form
BatchedBytes(records) == Total([i \in DOMAIN records |-> records[i][2]]) + 60
Stored(raw, compressed) == IF compressed < raw THEN compressed ELSE raw

\* The first n pending records go out as one batch and are acknowledged.
Flush(n, ratio) ==
  /\ obj.class = "sender" /\ ~ obj.closed /\ n \in 1..Len(obj.pending)
  /\ LET batch == SubSeq(obj.pending, 1, n)
         raw   == BatchedBytes(batch)
     IN  obj' = [obj EXCEPT
           !.pending = SubSeq(@, n + 1, Len(@)),
           !.used_bytes = Max({0, @ - Total([i \in DOMAIN batch |-> batch[i][2]])}),
           !.outcome = [i \in DOMAIN @ |->
                          IF \E b \in Range(batch) : b[1] = i THEN "sent" ELSE @[i]],
           !.total_raw = @ + raw, !.total_stored = @ + Stored(raw, raw + ratio)]

\* Producer.close: what is not acknowledged in time is failed, by name
Close(acked) ==
  /\ obj.class = "sender" /\ ~ obj.closed
  /\ LET flushed == Min({acked, Len(obj.pending)})
         at(i)   == {k \in DOMAIN obj.pending : obj.pending[k][1] = i}
     IN  obj' = [obj EXCEPT !.closed = TRUE, !.pending = <<>>,
           !.outcome = [i \in DOMAIN @ |->
             IF at(i) = {} THEN @[i]
             ELSE IF \E k \in at(i) : k <= flushed THEN "sent" ELSE "failed"]]

SenderNext ==
  \/ \E result \in {"dropped", "error"} : Intercepted(result)
  \/ \E size \in {1, 2}, metadata \in 0..1, free_in \in 1..2 : SendRecord(size, metadata, free_in)
  \/ \E n \in 1..MaxRecords, ratio \in {-1, 1} : Flush(n, ratio)
  \/ \E acked \in 0..MaxRecords : Close(acked)

(***************************************************************************)
(* Every send gets one final answer, the wait it may cost is bounded by    *)
(* the budget, and a closed producer leaves nothing undecided.  The buffer *)
(* counts exactly the bytes in flight, and compression never stores more.  *)
(***************************************************************************)
SendsAreAnswered ==
  obj.class = "sender" =>
    /\ \A i \in DOMAIN obj.outcome :
         (obj.outcome[i] = "accepted") <=> \E b \in Range(obj.pending) : b[1] = i
    /\ obj.spent <= SendBudget
    /\ ~ obj.closed => obj.used_bytes = Total([i \in DOMAIN obj.pending |-> obj.pending[i][2]])
    /\ obj.total_stored <= obj.total_raw

-----------------------------------------------------------------------------
(***************************************************************************)
(* Two brokers that hand out producer ids.  grants: the ranges the         *)
(* controller has given each, which may reach it late, twice or never.     *)
(***************************************************************************)
IdsInit ==
  obj = [class |-> "ids", next |-> 0, grants |-> {}, used |-> <<>>,
         block |-> [b \in 1..2 |-> [start |-> 0, size |-> 0, next_id |-> 0]]]

BlockEnd(block) == block.start + block.size

\* ProducerIdBlock.allocate: refused when the block is used up
Allocate(b) ==
  /\ obj.class = "ids" /\ obj.block[b].next_id < BlockEnd(obj.block[b])
  /\ Len(obj.used) < MaxRounds
  /\ obj' = [obj EXCEPT !.used = Append(@, obj.block[b].next_id), !.block[b].next_id = @ + 1]

Grant(b) ==
  /\ obj.class = "ids" /\ obj.next < BlockSize * 3
  /\ obj' = [obj EXCEPT !.next = @ + BlockSize, !.grants = @ \cup {<<b, obj.next>>}]

\* ProducerIdBlock.refill: a range that reaches back into the current one is refused
Refill(b, start) ==
  /\ obj.class = "ids" /\ <<b, start>> \in obj.grants
  /\ start >= BlockEnd(obj.block[b])
  /\ obj' = [obj EXCEPT !.block[b] = [start |-> start, size |-> BlockSize, next_id |-> start]]

IdsNext ==
  \E b \in 1..2 : Allocate(b) \/ Grant(b) \/ \E start \in 0..(BlockSize * 3) : Refill(b, start)

\* No producer id is given out twice, by any broker, whatever grants were lost or repeated.
IdsAreUnique == obj.class = "ids" => IsInjective(obj.used)

-----------------------------------------------------------------------------
\* The pure functions: the state is an input.
RANGES == {r \in (0..3) \X (0..4) : r[1] < r[2]}

InputInit ==
  \/ \E sizes \in UNION {[1..n -> 1..3] : n \in 0..4}, max \in 3..5 :
       obj = [class |-> "split", sizes |-> sizes, max |-> max]
  \/ \E ranges \in UNION {[1..n -> RANGES] : n \in 0..2} :
       obj = [class |-> "ranges", ranges |-> ranges]
  \/ \E n \in 1..9, parts \in 1..3, batch \in 2..3 :
       obj = [class |-> "spread", n |-> n, parts |-> parts, batch |-> batch]
  \/ \E interval \in 2..6, cost \in 1..5, margin \in {0, 1, 2, 5, 9} :
       cost < interval /\ obj = [class |-> "poll", interval |-> interval, cost |-> cost, margin |-> margin]

\* split_batch: halves, until every piece fits
SplitBatch(sizes, max) ==
  LET split[n \in 0..Len(sizes), from \in 0..Len(sizes)] ==
        IF n = 0 THEN <<>>
        ELSE LET piece == SubSeq(sizes, from + 1, from + n)
             IN  IF Total(piece) <= max \/ n = 1 THEN <<piece>>
                 ELSE split[n \div 2, from] \o split[n - n \div 2, from + n \div 2]
  IN  split[Len(sizes), 0]

\* coalesce: sorted, and merged wherever one starts at or before the last end
Coalesce(ranges) ==
  LET sorted == SortSeq(ranges, LAMBDA a, b : a[1] < b[1] \/ (a[1] = b[1] /\ a[2] < b[2]))
      merge(acc, r) ==
        IF acc # <<>> /\ r[1] <= Last(acc)[2]
        THEN [acc EXCEPT ![Len(acc)] = <<@[1], Max({@[2], r[2]})>>] ELSE Append(acc, r)
  IN  FoldLeft(merge, <<>>, sorted)

\* count_batches_roundrobin and StickyPartitioner.batches_produced after n records
RoundRobinBatches(n, parts, batch) ==
  Cardinality({i \in 0..(n - 1) : (i \div parts + 1) % batch = 1})
StickyBatches(n, batch) == 1 + (n - 1) \div batch

\* PollBudget.safe_max_records, margins in tenths, and would_kick
SafeMaxRecords(interval, cost, margin) == Max({1, (interval * (10 - margin)) \div (10 * cost)})
WouldKick(interval, cost, configured) == configured * cost > interval

(***************************************************************************)
(* A split batch is the same records in the same order, in pieces that are *)
(* small enough and not empty; coalesced ranges cover the same offsets,    *)
(* each once; sticking to a partition never makes more batches than        *)
(* spreading does; and the safe poll size never gets a consumer evicted.   *)
(***************************************************************************)
InputsComeOutRight ==
  /\ obj.class = "split" =>
       LET pieces == SplitBatch(obj.sizes, obj.max)
       IN  /\ FlattenSeq(pieces) = obj.sizes
           /\ \A i \in DOMAIN pieces : pieces[i] # <<>> /\ Total(pieces[i]) <= obj.max
  /\ obj.class = "ranges" =>
       LET merged == Coalesce(obj.ranges)
           covers(r) == r[1]..(r[2] - 1)
       IN  /\ UNION {covers(r) : r \in Range(merged)} = UNION {covers(r) : r \in Range(obj.ranges)}
           /\ \A i \in 1..(Len(merged) - 1) : merged[i][2] < merged[i + 1][1]
  /\ obj.class = "spread" =>
       StickyBatches(obj.n, obj.batch) <= RoundRobinBatches(obj.n, obj.parts, obj.batch)
  /\ obj.class = "poll" =>
       ~ WouldKick(obj.interval, obj.cost, SafeMaxRecords(obj.interval, obj.cost, obj.margin))

-----------------------------------------------------------------------------
Init == SessionInit \/ WaitInit \/ ReaderInit \/ SenderInit \/ IdsInit \/ InputInit

Next == SessionNext \/ WaitNext \/ ReaderNext \/ SenderNext \/ IdsNext

(***************************************************************************)
(* Clients neither skip nor lose a record they were not told about, and    *)
(* every request and every send is answered in bounded time.               *)
(***************************************************************************)
ClientsLoseNothing ==
  /\ SessionsStayInStep /\ FetchesAnswerOnTime /\ FailuresAreKept
  /\ SendsAreAnswered /\ IdsAreUnique /\ InputsComeOutRight
=============================================================================
