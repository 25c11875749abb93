----------------------------- MODULE Protocols -----------------------------
(***************************************************************************)
(* The small distributed protocols of the library, each with the faults it *)
(* is there for.  obj.class tells them apart:                              *)
(*                                                                         *)
(*  "commit"     two-phase commit (twophasecommit);                        *)
(*  "chain"      chain replication (chainreplication);                     *)
(*  "quorum"     a versioned value on replicas that come and go            *)
(*               (quorumread, sloppyquorum, hintedhandoff, readrepair);    *)
(*  "lease"      a lease with fencing tokens (leaselock);                  *)
(*  "occ"        transactions that validate when they commit               *)
(*               (snapshotisolation, optimisticlock);                      *)
(*  "wal"        a write-ahead log (wal);                                  *)
(*  "broadcast"  sequenced delivery over a network that reorders and       *)
(*               repeats (sequencer, atomicbroadcast);                     *)
(*  "causal"     causal delivery over a network that reorders              *)
(*               (causaldelivery).                                         *)
(***************************************************************************)
EXTENDS Naturals, Integers, Sequences, SequencesExt, FiniteSets, FiniteSetsExt

CONSTANTS
  ReadQuorum,    \* QuorumConfig.read_quorum, of three replicas
  WriteQuorum,   \* QuorumConfig.write_quorum = SloppyQuorum.write_quorum
  HintWindow,    \* HintedHandoff.hint_window
  LeaseDuration, \* LeaseLock.lease_duration
  MaxVersions,   \* bound: writes of the quorum store
  MaxWrites,     \* bound: other writes, tokens, transactions
  MaxNow         \* bound: clock

VARIABLE obj

NODES == 1..3

(***************************************************************************)
(* Two-phase commit.  applied[p]: what p has done, "none" at first.  A     *)
(* coordinator that is down has lost nothing but sends nothing.            *)
(***************************************************************************)
CommitInit ==
  obj = [class |-> "commit", votes |-> [p \in NODES |-> "none"], decision |-> "none",
         applied |-> [p \in NODES |-> "none"], down |-> FALSE]

\* TwoPhaseCommit.vote: once; a no may be acted upon at once
Vote(p, vote) ==
  /\ obj.class = "commit" /\ ~ obj.down /\ obj.votes[p] = "none"
  /\ obj' = [obj EXCEPT !.votes[p] = vote, !.applied[p] = IF vote = "no" THEN "abort" ELSE "none"]

\* A plausible slip: the votes that have come in decide.
MayDecideEarly(o) == \E p \in NODES : o.votes[p] # "none"
MayDecide(o) == \A p \in NODES : o.votes[p] # "none"

\* TwoPhaseCommit.decide
Decide ==
  /\ obj.class = "commit" /\ ~ obj.down /\ MayDecide(obj)
  /\ obj' = [obj EXCEPT !.decision =
       IF \A p \in NODES : obj.votes[p] \in {"yes", "none"} THEN "commit" ELSE "abort"]

\* TwoPhaseCommit.participant_state of one that voted yes and hears the decision
HearDecision(p) ==
  /\ obj.class = "commit" /\ ~ obj.down /\ obj.decision # "none"
  /\ obj.votes[p] = "yes" /\ obj.applied[p] = "none"
  /\ obj' = [obj EXCEPT !.applied[p] = obj.decision]

Coordinator ==
  /\ obj.class = "commit"
  /\ obj' = [obj EXCEPT !.down = ~ @]

CommitNext ==
  Decide \/ Coordinator \/ \E p \in NODES : HearDecision(p) \/ \E v \in {"yes", "no"} : Vote(p, v)

(***************************************************************************)
(* Nobody commits what somebody aborted; a commit has every vote; and the  *)
(* participants in doubt are those that said yes and have not been told.   *)
(***************************************************************************)
CommitIsUnanimous ==
  obj.class = "commit" =>
    /\ ~ \E p, q \in NODES : obj.applied[p] = "commit" /\ obj.applied[q] = "abort"
    /\ obj.decision = "commit" => \A p \in NODES : obj.votes[p] = "yes"

-----------------------------------------------------------------------------
(***************************************************************************)
(* The chain: its nodes, head first, and the writes each holds.  acked is  *)
(* what the tail has acknowledged, seen the most a reader was shown.       *)
(***************************************************************************)
ChainInit ==
  obj = [class |-> "chain", chain |-> <<1, 2, 3>>, held |-> [n \in NODES |-> 0], acked |-> 0, seen |-> 0]

\* ChainReplication.write: at the head only
ChainWrite ==
  /\ obj.class = "chain" /\ obj.held[Head(obj.chain)] < MaxWrites
  /\ obj' = [obj EXCEPT !.held[Head(obj.chain)] = @ + 1]

\* A write flows one link down; the tail acknowledges.
Forward(i) ==
  /\ obj.class = "chain" /\ i + 1 \in DOMAIN obj.chain
  /\ obj.held[obj.chain[i + 1]] < obj.held[obj.chain[i]]
  /\ obj' = [obj EXCEPT !.held[obj.chain[i + 1]] = @ + 1]

Acknowledge ==
  /\ obj.class = "chain" /\ obj.acked < obj.held[Last(obj.chain)]
  /\ obj' = [obj EXCEPT !.acked = obj.held[Last(obj.chain)]]

\* ChainReplication.read: at the tail only
Readable(o, n) == n = Last(o.chain)

ChainRead(n) ==
  /\ obj.class = "chain" /\ Readable(obj, n)
  /\ obj' = [obj EXCEPT !.seen = Max({@, obj.held[n]})]

\* ChainReplication.fail: head, middle or tail, but not the last node
FailNode(n) ==
  /\ obj.class = "chain" /\ Len(obj.chain) > 1
  /\ \E i \in DOMAIN obj.chain :
       obj.chain[i] = n /\ obj' = [obj EXCEPT !.chain = RemoveAt(@, i)]

ChainNext ==
  \/ ChainWrite \/ Acknowledge \/ \E i \in 1..2 : Forward(i)
  \/ \E n \in NODES : ChainRead(n) \/ FailNode(n)

\* Whichever nodes fail, what was acknowledged or read is held by every node
\* left, so reads never go back.
ChainKeepsAcked ==
  obj.class = "chain" =>
    \A i \in DOMAIN obj.chain :
      /\ obj.held[obj.chain[i]] >= Max({obj.acked, obj.seen})
      /\ i > 1 => obj.held[obj.chain[i]] <= obj.held[obj.chain[i - 1]]

-----------------------------------------------------------------------------
(***************************************************************************)
(* The quorum value: val[r] the version replica r holds; hints: the        *)
(* entries [replica, at, version] kept by substitutes; clean and sloppy:   *)
(* the newest version acknowledged each way; expired whether a hint that   *)
(* was still needed ran out.                                               *)
(***************************************************************************)
QuorumInit ==
  obj = [class |-> "quorum", up |-> NODES, val |-> [r \in NODES |-> 0], version |-> 0, hints |-> {},
         now |-> 0, clean |-> 0, sloppy |-> 0, expired |-> FALSE, read |-> 0, newest |-> 0]

Toggle(r) ==
  /\ obj.class = "quorum"
  /\ obj' = [obj EXCEPT !.up = IF r \in @ THEN @ \ {r} ELSE @ \cup {r}]

\* SloppyQuorum.outcome, with one substitute to spare
Outcome(o) ==
  IF Cardinality(o.up) >= WriteQuorum THEN "clean"
  ELSE IF Cardinality(o.up) + 1 >= WriteQuorum THEN "sloppy" ELSE "failed"

\* A write to every live replica; a sloppy one leaves a hint (store_hint) for
\* one that is down.
QuorumWrite ==
  /\ obj.class = "quorum" /\ obj.version < MaxVersions /\ Outcome(obj) # "failed"
  /\ LET v == obj.version + 1
     IN  \E down \in NODES :
           /\ Outcome(obj) = "sloppy" => down \notin obj.up
           /\ Outcome(obj) = "clean" => down = 1
           /\ obj' = [obj EXCEPT !.version = v,
                !.val = [r \in NODES |-> IF r \in obj.up THEN v ELSE @[r]],
                !.hints = IF Outcome(obj) = "sloppy"
                          THEN @ \cup {[replica |-> down, at |-> obj.now, version |-> v]} ELSE @,
                !.clean = IF Outcome(obj) = "clean" THEN v ELSE @,
                !.sloppy = IF Outcome(obj) = "sloppy" THEN v ELSE @]

Fresh(o, hint) == o.now - hint.at < HintWindow

\* HintedHandoff.replay, once the replica is back; a replica keeps the newest
HandOff(r) ==
  /\ obj.class = "quorum" /\ r \in obj.up /\ \E h \in obj.hints : h.replica = r
  /\ LET mine  == {h \in obj.hints : h.replica = r}
         fresh == {h \in mine : Fresh(obj, h)}
     IN  obj' = [obj EXCEPT !.hints = @ \ mine,
                   !.val[r] = Max({@} \cup {h.version : h \in fresh}),
                   !.expired = @ \/ fresh # mine]

QuorumTick ==
  /\ obj.class = "quorum" /\ obj.now < MaxNow
  /\ obj' = [obj EXCEPT !.now = @ + 1]

\* A read of a quorum; ReadRepair.resolve picks the newest and mends the rest
QuorumRead(set) ==
  /\ obj.class = "quorum" /\ set \subseteq obj.up /\ Cardinality(set) = ReadQuorum
  /\ LET newest == Max({obj.val[r] : r \in set})
     IN  obj' = [obj EXCEPT !.val = [r \in NODES |-> IF r \in set THEN newest ELSE @[r]],
                            !.read = newest, !.newest = obj.clean]

QuorumNext ==
  \/ QuorumWrite \/ QuorumTick
  \/ \E r \in NODES : Toggle(r) \/ HandOff(r)
  \/ \E set \in SUBSET NODES : QuorumRead(set)

\* QuorumConfig.is_consistent
IsConsistent == ReadQuorum + WriteQuorum > Cardinality(NODES)

(***************************************************************************)
(* With overlapping quorums a read never misses a write that was           *)
(* acknowledged cleanly, through crashes, hints and repairs.  A sloppy     *)
(* write is only promised while its hint lasts: then some replica or       *)
(* substitute still has it, or something newer.                            *)
(***************************************************************************)
ReadsMeetWrites ==
  obj.class = "quorum" /\ IsConsistent =>
    /\ obj.read >= obj.newest
    /\ ~ obj.expired =>
         \E v \in {obj.val[r] : r \in NODES} \cup {h.version : h \in obj.hints} : v >= obj.sloppy
    /\ Cardinality({r \in NODES : obj.val[r] >= obj.clean}) >= WriteQuorum

-----------------------------------------------------------------------------
(***************************************************************************)
(* The lease: held[c] is the token client c thinks it has; ops are the     *)
(* requests to the guarded resource under way; done the tokens let in.     *)
(***************************************************************************)
LeaseInit ==
  obj = [class |-> "lease", now |-> 0, holder |-> 0, expires_at |-> -1, token |-> 0,
         held |-> [c \in 1..2 |-> 0], owner |-> <<>>, ops |-> {}, done |-> <<>>]

Leased(o) == o.holder # 0 /\ o.now < o.expires_at

\* LeaseLock.acquire: every grant has a new token
Acquire(c) ==
  /\ obj.class = "lease" /\ obj.token < MaxWrites
  /\ ~ (Leased(obj) /\ obj.holder # c)
  /\ obj' = [obj EXCEPT !.holder = c, !.expires_at = obj.now + LeaseDuration, !.token = @ + 1,
                        !.held[c] = obj.token + 1, !.owner = Append(@, c)]

\* LeaseLock.renew
Renew(c) ==
  /\ obj.class = "lease" /\ Leased(obj) /\ obj.holder = c
  /\ obj' = [obj EXCEPT !.expires_at = obj.now + LeaseDuration]

\* A client acts on what it believes, however long it was paused.
Act(c) ==
  /\ obj.class = "lease" /\ obj.held[c] # 0 /\ Len(obj.done) < MaxWrites
  /\ obj' = [obj EXCEPT !.ops = @ \cup {obj.held[c]}]

\* LeaseLock.guard
Guarded(t) ==
  /\ obj.class = "lease" /\ t \in obj.ops
  /\ obj' = [obj EXCEPT !.ops = @ \ {t}, !.done = IF t >= obj.token THEN Append(@, t) ELSE @]

LeaseTick ==
  /\ obj.class = "lease" /\ obj.now < MaxNow
  /\ obj' = [obj EXCEPT !.now = @ + 1]

LeaseNext ==
  \/ LeaseTick \/ (\E t \in 1..MaxWrites : Guarded(t))
  \/ \E c \in 1..2 : Acquire(c) \/ Renew(c) \/ Act(c)

(***************************************************************************)
(* A client that was paused past its lease can do no harm: once another    *)
(* has the lock, its delayed operations are turned away, so the resource   *)
(* sees the holders one after the other, never interleaved.                *)
(***************************************************************************)
FencedInTurn ==
  obj.class = "lease" =>
    /\ \A i, j \in DOMAIN obj.done : i < j => obj.done[i] <= obj.done[j]
    /\ obj.token > 0 => obj.owner[obj.token] = obj.holder

-----------------------------------------------------------------------------
(***************************************************************************)
(* Transactions over two keys.  txn[t] is [start, reads, writes] or idle   *)
(* (start -1); log the committed [start, at, keys].  A write adds one to   *)
(* what the snapshot showed, so value[k] counts updates nobody lost.       *)
(***************************************************************************)
KEYS == {"x", "y"}

OccInit ==
  obj = [class |-> "occ", version |-> 0, committed_at |-> [k \in KEYS |-> -1],
         value |-> [k \in KEYS |-> 0], updates |-> [k \in KEYS |-> 0],
         txn |-> [t \in 1..2 |-> [start |-> -1, saw |-> [k \in KEYS |-> 0]]], log |-> <<>>]

\* SnapshotIsolation.begin; OptimisticValue.read
BeginTxn(t) ==
  /\ obj.class = "occ" /\ obj.txn[t].start = -1
  /\ obj' = [obj EXCEPT !.txn[t] = [start |-> obj.version, saw |-> obj.value]]

Conflicts(o, t, keys) == {k \in keys : o.committed_at[k] > o.txn[t].start}

\* SnapshotIsolation.commit; for one key OptimisticValue.compare_and_set
CommitTxn(t, keys) ==
  /\ obj.class = "occ" /\ obj.txn[t].start # -1 /\ obj.version < MaxWrites
  /\ obj' = IF Conflicts(obj, t, keys) # {} THEN [obj EXCEPT !.txn[t].start = -1]
            ELSE [obj EXCEPT !.version = @ + 1, !.txn[t].start = -1,
                    !.committed_at = [k \in KEYS |-> IF k \in keys THEN obj.version + 1 ELSE @[k]],
                    !.value = [k \in KEYS |-> IF k \in keys THEN obj.txn[t].saw[k] + 1 ELSE @[k]],
                    !.updates = [k \in KEYS |-> IF k \in keys THEN @[k] + 1 ELSE @[k]],
                    !.log = Append(@, [start |-> obj.txn[t].start, keys |-> keys])]

OccNext ==
  \E t \in 1..2 : BeginTxn(t) \/ \E keys \in SUBSET KEYS \ {{}} : CommitTxn(t, keys)

(***************************************************************************)
(* No update is lost: the value is the number of committed updates, and of *)
(* two transactions that overlapped and both committed, none wrote a key   *)
(* of the other.                                                           *)
(***************************************************************************)
NoUpdateIsLost ==
  obj.class = "occ" =>
    /\ obj.value = obj.updates
    /\ \A i, j \in DOMAIN obj.log :
         i < j /\ obj.log[j].start < i => obj.log[i].keys \cap obj.log[j].keys = {}

-----------------------------------------------------------------------------
\* The write-ahead log; promised is what a caller was told is durable, saved the
\* applied state a checkpoint made durable, state the entries applied in order.
WalInit ==
  obj = [class |-> "wal", entries |-> <<>>, durable_to |-> 0, applied_to |-> 0, checkpoint |-> 0,
         state |-> <<>>, saved |-> <<>>, next |-> 1, promised |-> {}]

WalAppend ==
  /\ obj.class = "wal" /\ obj.next <= MaxWrites
  /\ obj' = [obj EXCEPT !.entries = Append(@, obj.next), !.next = @ + 1]

\* WriteAheadLog.mark_durable
MarkDurable(offset) ==
  /\ obj.class = "wal" /\ offset < Len(obj.entries)
  /\ obj' = [obj EXCEPT !.durable_to = Max({@, offset + 1}),
                        !.promised = @ \cup Range(SubSeq(obj.entries, 1, offset + 1))]

\* WriteAheadLog.apply: durable, and in order
Apply(offset) ==
  /\ obj.class = "wal" /\ offset < obj.durable_to /\ offset = obj.applied_to
  /\ obj' = [obj EXCEPT !.applied_to = offset + 1, !.state = Append(@, obj.entries[offset + 1])]

TakeCheckpoint ==
  /\ obj.class = "wal" /\ obj.checkpoint < obj.applied_to
  /\ obj' = [obj EXCEPT !.checkpoint = obj.applied_to, !.saved = obj.state]

\* A crash keeps the durable entries and the checkpointed state; replay starts there.
WalCrash ==
  /\ obj.class = "wal" /\ (obj.applied_to > obj.checkpoint \/ Len(obj.entries) > obj.durable_to)
  /\ obj' = [obj EXCEPT !.entries = SubSeq(@, 1, obj.durable_to), !.state = obj.saved,
                        !.applied_to = obj.checkpoint]

WalNext ==
  WalAppend \/ TakeCheckpoint \/ WalCrash \/ \E n \in 0..MaxWrites : MarkDurable(n) \/ Apply(n)

\* After any number of crashes the state is what the log says, once and in order,
\* and nothing that was promised durable is missing from the log.
WalReplaysExactly ==
  obj.class = "wal" =>
    /\ obj.state = SubSeq(obj.entries, 1, obj.applied_to)
    /\ obj.promised \subseteq Range(obj.entries)
    /\ obj.checkpoint <= obj.applied_to /\ obj.applied_to <= obj.durable_to

-----------------------------------------------------------------------------
(***************************************************************************)
(* Broadcast.  sent: the <<sequence, message>> there are, each of which    *)
(* may arrive any number of times.                                         *)
(***************************************************************************)
MESSAGES == 4

BroadcastInit ==
  obj = [class |-> "broadcast", next_seq |-> 0, highest |-> -1, sent |-> {}, made |-> 0,
         expected |-> [n \in 1..2 |-> 0], buffer |-> [n \in 1..2 |-> {}],
         delivered |-> [n \in 1..2 |-> <<>>], failed_over |-> FALSE]

\* Sequencer.issue
Issue ==
  /\ obj.class = "broadcast" /\ obj.made < MESSAGES
  /\ obj' = [obj EXCEPT !.next_seq = @ + 1, !.highest = obj.next_seq, !.made = @ + 1,
                        !.sent = @ \cup {<<obj.next_seq, obj.made + 1>>}]

\* Sequencer.failover_resume: the floor is above all that was issued
FailoverResume(floor) ==
  /\ obj.class = "broadcast" /\ ~ obj.failed_over /\ floor > obj.highest
  /\ obj' = [obj EXCEPT !.next_seq = floor, !.failed_over = TRUE]

\* AtomicBroadcast.receive: old ones are dropped, early ones wait
ReceiveSequenced(n, m) ==
  /\ obj.class = "broadcast" /\ m \in obj.sent /\ m[1] >= obj.expected[n]
  /\ LET buffer == obj.buffer[n] \cup {m}
         ready  == {k \in 0..MESSAGES : \A s \in obj.expected[n]..(obj.expected[n] + k - 1) :
                                            \E b \in buffer : b[1] = s}
         next   == obj.expected[n] + Max(ready)
         at(s)  == (CHOOSE b \in buffer : b[1] = s)[2]
     IN  obj' = [obj EXCEPT !.expected[n] = next,
                   !.buffer[n] = {b \in buffer : b[1] >= next},
                   !.delivered[n] = @ \o [i \in 1..Max(ready) |-> at(obj.expected[n] + i - 1)]]

BroadcastNext ==
  \/ Issue \/ \E floor \in 0..(MESSAGES + 1) : FailoverResume(floor)
  \/ \E n \in 1..2, m \in (0..(MESSAGES + 4)) \X (1..MESSAGES) : ReceiveSequenced(n, m)

(***************************************************************************)
(* All receivers deliver the same messages in the same order, once each,   *)
(* over repeats, reordering and a sequencer failover (a receiver may only  *)
(* be behind).                                                             *)
(***************************************************************************)
DeliveryIsOrdered ==
  obj.class = "broadcast" =>
    /\ IsPrefix(obj.delivered[1], obj.delivered[2]) \/ IsPrefix(obj.delivered[2], obj.delivered[1])
    /\ \A n \in 1..2 : IsInjective(obj.delivered[n])

-----------------------------------------------------------------------------
(***************************************************************************)
(* Causal delivery.  Message m depends on those in DEPS[m].  Each arrives  *)
(* once: arrived is the order they came in, order the one they are         *)
(* delivered in; the buffer is what arrived and is not in order.           *)
(***************************************************************************)
DEPS == << {}, {1}, {1}, {2, 3} >>

CausalInit == obj = [class |-> "causal", arrived |-> <<>>, order |-> <<>>]

\* CausalDelivery._deliverable
Deliverable(m, order) == DEPS[m] \subseteq Range(order)

\* One message of the buffer, released if it can be
Freed(order, m) ==
  IF m \notin Range(order) /\ Deliverable(m, order) THEN Append(order, m) ELSE order

\* CausalDelivery._deliver: one pass over what waits, in the order it came; a
\* release may free what comes after it in the pass
Pass(order, waiting) ==
  LET upto[i \in 0..Len(waiting)] == IF i = 0 THEN order ELSE Freed(upto[i - 1], waiting[i])
  IN  upto[Len(waiting)]

\* CausalDelivery._deliver: passes until nothing is freed, as many as there are
\* messages at most
Released(order, waiting) ==
  LET after[k \in 0..Len(DEPS)] == IF k = 0 THEN order ELSE Pass(after[k - 1], waiting)
  IN  after[Len(DEPS)]

\* CausalDelivery.accept
AcceptCausal(m) ==
  /\ obj.class = "causal" /\ m \notin Range(obj.arrived)
  /\ obj' = [obj EXCEPT !.arrived = Append(@, m),
       !.order = IF Deliverable(m, @) THEN Released(Append(@, m), obj.arrived) ELSE @]

(***************************************************************************)
(* Whatever order the network chose, each message is delivered once and    *)
(* after all it depends on, and none is held back once they are delivered. *)
(***************************************************************************)
CausesComeFirst ==
  obj.class = "causal" =>
    /\ IsInjective(obj.order) /\ Range(obj.order) \subseteq Range(obj.arrived)
    /\ \A i \in DOMAIN obj.order :
         \A d \in DEPS[obj.order[i]] : \E j \in 1..(i - 1) : obj.order[j] = d
    /\ \A m \in Range(obj.arrived) : DEPS[m] \subseteq Range(obj.order) => m \in Range(obj.order)

-----------------------------------------------------------------------------
Init ==
  CommitInit \/ ChainInit \/ QuorumInit \/ LeaseInit \/ OccInit \/ WalInit \/ BroadcastInit
  \/ CausalInit

Next ==
  CommitNext \/ ChainNext \/ QuorumNext \/ LeaseNext \/ OccNext \/ WalNext \/ BroadcastNext
  \/ \E m \in 1..Len(DEPS) : AcceptCausal(m)

\* Each protocol keeps its promise through the faults it is there for.
ProtocolsHold ==
  /\ CommitIsUnanimous /\ ChainKeepsAcked /\ ReadsMeetWrites /\ FencedInTurn
  /\ NoUpdateIsLost /\ WalReplaysExactly /\ DeliveryIsOrdered /\ CausesComeFirst
=============================================================================
