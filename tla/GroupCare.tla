----------------------------- MODULE GroupCare -----------------------------
(***************************************************************************)
(* Consumer groups beyond the eager protocol of GroupRebalance.  obj.class *)
(* tells the objects apart:                                                *)
(*                                                                         *)
(*  "coop"     members that beat, lapse and rejoin, and the incremental    *)
(*             rebalance that follows each change (liveness, rangeassign,  *)
(*             cooperative, assignmentcheck);                              *)
(*  "offsets"  the committed offset of a group: commits and their retries  *)
(*             over a moving coordinator, fetch, expiry, deletion          *)
(*             (consumerposition, commitretry, coordinatorepoch,           *)
(*             offsetfetch, offsetexpiry, offsetdelete, grouptype);        *)
(*  "delay"    batching of joins before a rebalance (rebalancedelay);      *)
(*  "weights"  assignment in proportion to weights (weightedassign).       *)
(***************************************************************************)
EXTENDS Naturals, Integers, Sequences, SequencesExt, FiniteSets, FiniteSetsExt

CONSTANTS
  Partitions,     \* number of partitions of the topic
  SessionTimeout, \* LivenessTracker.session_timeout, ticks
  Retention,      \* OffsetExpirer.retention_ticks
  MaxRetries,     \* CommitRetrier.max_retries
  BaseDelay,      \* RebalanceDelay.base_delay
  MaxDelay,       \* RebalanceDelay.max_delay
  MaxGeneration,  \* bound: generations of the group
  MaxOffset,      \* bound: records in the partition
  MaxTicks        \* bound: clock of the joins

VARIABLE obj

MEMBERS == 1..3
PARTS   == 0..(Partitions - 1)

(***************************************************************************)
(* The cooperative group.  live: members not evicted; quiet: ticks since   *)
(* the last heartbeat; current: who owns what, as the coordinator sees it; *)
(* target, made for the members in plan; before: ownership when the        *)
(* rebalance began.                                                        *)
(***************************************************************************)
Nothing == [m \in MEMBERS |-> {}]

CoopInit ==
  obj = [class |-> "coop", live |-> {}, quiet |-> [m \in MEMBERS |-> 0], generation |-> 0,
         current |-> Nothing, target |-> Nothing, before |-> Nothing,
         plan |-> {}, revoked |-> {}, phase |-> "done"]

\* LivenessTracker.join: a newcomer, or an evicted member that starts over
Join(m) ==
  /\ obj.class = "coop" /\ m \notin obj.live /\ obj.generation < MaxGeneration
  /\ obj' = [obj EXCEPT !.live = @ \cup {m}, !.quiet[m] = 0, !.generation = @ + 1]

\* LivenessTracker.heartbeat: an evicted member is fenced
Beat(m) ==
  /\ obj.class = "coop" /\ m \in obj.live /\ obj.quiet[m] > 0
  /\ obj' = [obj EXCEPT !.quiet[m] = 0]

CoopTick ==
  /\ obj.class = "coop" /\ \E m \in obj.live : obj.quiet[m] <= SessionTimeout
  /\ obj' = [obj EXCEPT !.quiet =
       [m \in MEMBERS |-> IF m \in obj.live THEN Min({@[m] + 1, SessionTimeout + 1}) ELSE 0]]

\* LivenessTracker.sweep
Sweep ==
  /\ obj.class = "coop" /\ obj.generation < MaxGeneration
  /\ LET dead == {m \in obj.live : obj.quiet[m] > SessionTimeout}
     IN  dead # {} /\ obj' = [obj EXCEPT !.live = @ \ dead, !.generation = @ + 1]

\* A plausible slip: the extra partitions go to everybody up to and including the limit.
RangeSizeOneMore(index, consumers) ==
  Partitions \div consumers + (IF index <= Partitions % consumers THEN 1 ELSE 0)

\* range_assign: consecutive runs, the first few consumers take one more
RangeSize(index, consumers) ==
  Partitions \div consumers + (IF index < Partitions % consumers THEN 1 ELSE 0)

RangeAssign(consumers) ==
  LET n        == Cardinality(consumers)
      index(m) == Cardinality({c \in consumers : c < m})
      sizes    == [c \in consumers |-> RangeSize(index(c), n)]
      from(m)  == SumFunctionOnSet(sizes, {c \in consumers : c < m})
  IN  [m \in MEMBERS |-> IF m \in consumers THEN from(m)..(from(m) + sizes[m] - 1)
                          ELSE {}]

\* A rebalance starts from what is owned now, for the members alive now.
Plan ==
  /\ obj.class = "coop" /\ obj.phase = "done" /\ obj.plan # obj.live /\ obj.live # {}
  /\ obj' = [obj EXCEPT !.plan = obj.live, !.target = RangeAssign(obj.live),
                        !.before = obj.current, !.phase = "start"]

\* CooperativeRebalance.revoke_phase: only what its owner is to lose
RevokePhase ==
  /\ obj.class = "coop" /\ obj.phase = "start"
  /\ obj' = [obj EXCEPT !.phase = "revoked",
       !.current = [m \in MEMBERS |-> @[m] \cap obj.target[m]],
       !.revoked = UNION {obj.current[m] \ obj.target[m] : m \in MEMBERS}]

Owned(o) == UNION {o.current[m] : m \in MEMBERS}

\* CooperativeRebalance.assign_phase: refused where it would take from an owner
AssignPhase ==
  /\ obj.class = "coop" /\ obj.phase = "revoked"
  /\ \A m \in obj.plan : \A p \in obj.target[m] \ obj.current[m] :
       p \in obj.revoked \/ p \notin Owned(obj)
  /\ obj' = [obj EXCEPT !.phase = "done",
       !.current = [m \in MEMBERS |-> IF m \in obj.plan THEN obj.target[m] ELSE @[m]]]

CoopNext ==
  \/ CoopTick \/ Sweep \/ Plan \/ RevokePhase \/ AssignPhase
  \/ \E m \in MEMBERS : Join(m) \/ Beat(m)

\* AssignmentValidator.double_owned and orphaned
DoubleOwned(owns) ==
  {p \in PARTS : Cardinality({m \in MEMBERS : p \in owns[m]}) > 1}
Orphaned(owns) == PARTS \ UNION {owns[m] : m \in MEMBERS}

(***************************************************************************)
(* Through any order of joins, lapses and half-finished rebalances no      *)
(* partition has two owners, a member never stops reading what it keeps,   *)
(* and a rebalance that ends with the membership it was planned for leaves *)
(* every partition owned, evenly.  One that is overtaken does not block:   *)
(* the assign phase is never refused.                                      *)
(***************************************************************************)
CooperationIsExclusive ==
  obj.class = "coop" =>
    /\ DoubleOwned(obj.current) = {}
    /\ obj.phase = "revoked" =>
         /\ \A m \in MEMBERS : obj.before[m] \cap obj.target[m] \subseteq obj.current[m]
         /\ \A m \in obj.plan : \A p \in obj.target[m] \ obj.current[m] :
              p \in obj.revoked \/ p \notin Owned(obj)
    /\ obj.phase = "done" /\ obj.plan = obj.live /\ obj.live # {} =>
         LET sizes == {Cardinality(obj.current[m]) : m \in obj.live}
         IN  /\ Orphaned(obj.current) = {} /\ Owned(obj) \subseteq PARTS
             /\ Max(sizes) - Min(sizes) <= 1

-----------------------------------------------------------------------------
(***************************************************************************)
(* A group's offset on one partition of MaxOffset records.  members: the   *)
(* protocol type of each client slot ("none": not in the group); position  *)
(* and processed: where the consumer is, and the most it has ever handled; *)
(* committed (NO_OFFSET when there is none) and its age in ticks; epoch:   *)
(* the coordinator's; pending: commits under way, [to, epoch, attempt].    *)
(***************************************************************************)
NO_OFFSET == -1
TYPES     == {"consumer", "connect"}

OffsetsInit ==
  obj = [class |-> "offsets", members |-> [s \in 1..2 |-> "none"], type |-> "none",
         reading |-> FALSE, position |-> 0, processed |-> 0, committed |-> NO_OFFSET,
         age |-> 0, epoch |-> 1, pending |-> {}]

Joined(o) == {s \in 1..2 : o.members[s] # "none"}

\* GroupTypeRegistry.join: the first member sets the type
JoinTyped(s, type) ==
  /\ obj.class = "offsets" /\ s \notin Joined(obj)
  /\ Joined(obj) = {} \/ type = obj.type
  /\ obj' = [obj EXCEPT !.members[s] = type, !.type = type]

\* GroupTypeRegistry.leave: the last one clears it (and the reader is gone)
Leave(s) ==
  /\ obj.class = "offsets" /\ s \in Joined(obj)
  /\ LET last == Joined(obj) = {s}
     IN  obj' = [obj EXCEPT !.members[s] = "none", !.type = IF last THEN "none" ELSE @,
                            !.reading = @ /\ ~ last]

\* OffsetFetchResponse.resume_or_reset, with reset to the earliest
ResumeOrReset ==
  /\ obj.class = "offsets" /\ Joined(obj) # {} /\ ~ obj.reading
  /\ obj' = [obj EXCEPT !.reading = TRUE, !.position = Max({0, obj.committed})]

\* ConsumerPosition.advance_position
AdvancePosition ==
  /\ obj.class = "offsets" /\ obj.reading /\ obj.position < MaxOffset
  /\ obj' = [obj EXCEPT !.position = @ + 1, !.processed = Max({@, obj.position + 1})]

\* ConsumerPosition.commit sends what has been read
SendCommit ==
  /\ obj.class = "offsets" /\ obj.reading /\ Cardinality(obj.pending) < 2
  /\ obj.position > obj.committed
  /\ obj' = [obj EXCEPT !.pending =
       @ \cup {[to |-> obj.position, epoch |-> obj.epoch, attempt |-> 0]}]

\* CoordinatorEpoch.take_over
TakeOver ==
  /\ obj.class = "offsets" /\ obj.epoch < 2
  /\ obj' = [obj EXCEPT !.epoch = @ + 1]

\* CoordinatorEpoch.write and OffsetFetchResponse.commit
CommitArrives(c) ==
  /\ obj.class = "offsets" /\ c.epoch >= obj.epoch /\ c.to <= MaxOffset
  /\ obj' = [obj EXCEPT !.pending = @ \ {c}, !.committed = c.to, !.age = 0]

\* CommitRetrier.on_failure: redirected when the coordinator moved; abandoned for
\* an illegal generation; else again while attempts last
CommitFails(c) ==
  /\ obj.class = "offsets"
  /\ \E illegal \in BOOLEAN : obj' = [obj EXCEPT !.pending =
       (@ \ {c}) \cup (IF illegal THEN {}
                       ELSE IF c.epoch < obj.epoch THEN {[c EXCEPT !.epoch = obj.epoch]}
                       ELSE IF c.attempt < MaxRetries THEN {[c EXCEPT !.attempt = @ + 1]}
                       ELSE {})]

OffsetsTick ==
  /\ obj.class = "offsets" /\ obj.committed # NO_OFFSET /\ obj.age <= Retention
  /\ obj' = [obj EXCEPT !.age = @ + 1]

Protected(o) == Joined(o) # {} \/ o.age <= Retention

\* OffsetExpirer.sweep
ExpireOffset ==
  /\ obj.class = "offsets" /\ obj.committed # NO_OFFSET /\ ~ Protected(obj)
  /\ obj' = [obj EXCEPT !.committed = NO_OFFSET]

\* OffsetDeleter.delete and GroupRegistry.delete: neither while it is in use
DeleteOffset ==
  /\ obj.class = "offsets" /\ obj.committed # NO_OFFSET /\ Joined(obj) = {}
  /\ obj' = [obj EXCEPT !.committed = NO_OFFSET, !.age = 0]

OffsetsNext ==
  \/ ResumeOrReset \/ AdvancePosition \/ SendCommit \/ TakeOver
  \/ OffsetsTick \/ ExpireOffset \/ DeleteOffset
  \/ \E s \in 1..2 : Leave(s) \/ \E type \in TYPES : JoinTyped(s, type)
  \/ obj.class = "offsets" /\ \E c \in obj.pending : CommitArrives(c) \/ CommitFails(c)

(***************************************************************************)
(* A group never skips a record: whatever was retried, redirected, expired *)
(* or deleted, a consumer starts at or below what has been handled, and so *)
(* does every commit under way.  All members of a group are of its type.   *)
(***************************************************************************)
GroupsNeverSkip ==
  obj.class = "offsets" =>
    /\ obj.committed <= obj.processed /\ obj.position <= obj.processed
    /\ \A c \in obj.pending : c.to <= obj.processed
    /\ \A s \in Joined(obj) : obj.members[s] = obj.type

-----------------------------------------------------------------------------
\* Joins of a group that is forming.
DelayInit ==
  obj = [class |-> "delay", now |-> 0, started_at |-> -1, ready_at |-> -1,
         batched |-> 0, last |-> -1]

\* RebalanceDelay.on_join, while the window is open
OnJoin ==
  /\ obj.class = "delay" /\ (obj.started_at < 0 \/ obj.now < obj.ready_at)
  /\ obj.batched < MaxTicks
  /\ obj' = [obj EXCEPT
       !.started_at = IF @ < 0 THEN obj.now ELSE @,
       !.ready_at = IF obj.started_at < 0 THEN obj.now + BaseDelay
                    ELSE Max({@, Min({obj.now + BaseDelay, obj.started_at + MaxDelay})}),
       !.batched = @ + 1, !.last = obj.now]

DelayTick ==
  /\ obj.class = "delay" /\ obj.now < MaxTicks
  /\ obj' = [obj EXCEPT !.now = @ + 1]

(***************************************************************************)
(* The rebalance waits out the base delay after the last join, but never   *)
(* longer than the maximum after the first: a stream of joins cannot       *)
(* postpone it for ever.                                                   *)
(***************************************************************************)
DelayIsBounded ==
  obj.class = "delay" /\ obj.started_at >= 0 =>
    obj.ready_at = Min({obj.last + BaseDelay, obj.started_at + MaxDelay})

-----------------------------------------------------------------------------
\* Three consumers with weights, and partitions to share out.
WeightsInit ==
  \E w \in [MEMBERS -> 1..3], n \in 0..5 : obj = [class |-> "weights", weights |-> w, n |-> n]

\* weightedassign.assign: the whole part each, then one each by largest remainder
Share(w, n) ==
  LET total   == SumFunction(w)
      base    == [c \in MEMBERS |-> (n * w[c]) \div total]
      rest(c) == (n * w[c]) % total
      left    == n - SumFunction(base)
      before(c) == {d \in MEMBERS : rest(d) > rest(c) \/ (rest(d) = rest(c) /\ d < c)}
  IN  [c \in MEMBERS |-> base[c] + (IF Cardinality(before(c)) < left THEN 1 ELSE 0)]

\* Every partition is given out, and nobody is a whole partition off its due.
WeightsAreFair ==
  obj.class = "weights" =>
    LET share == Share(obj.weights, obj.n)
        total == SumFunction(obj.weights)
    IN  /\ SumFunction(share) = obj.n
        /\ \A c \in MEMBERS : /\ share[c] * total < obj.n * obj.weights[c] + total
                              /\ share[c] * total > obj.n * obj.weights[c] - total

-----------------------------------------------------------------------------
Init == CoopInit \/ OffsetsInit \/ DelayInit \/ WeightsInit

Next == CoopNext \/ OffsetsNext \/ OnJoin \/ DelayTick

(***************************************************************************)
(* Groups share partitions out exclusively and evenly, keep their place in *)
(* the log, and get their rebalance in bounded time.                       *)
(***************************************************************************)
GroupsAreSound ==
  CooperationIsExclusive /\ GroupsNeverSkip /\ DelayIsBounded /\ WeightsAreFair
=============================================================================
