# relay in TLA+

`relay` (src/relay) is a teaching-size event-stream broker: some 350 small Python
modules, each one mechanism of a Kafka-like system with its own state, its refusals
(exceptions of `relay/errors.py`) and a docstring that says what the mechanism
promises. The modules hardly import one another; `examples/*day.py` and the tests show
how they are meant to be put together. Nothing is threaded inside one object: the
concurrency is that of the brokers, producers, consumers and coordinators which hold
these objects and call them in some order, crash, retry and hear of each other late.
That is what the modules here model: each class of the code keeps its fields, guards and
order of assignments, and the callers are interleaved freely.

Tools: `tlc -config X.cfg M` runs a model, `tlapm M.tla` checks the proofs of a module
(`PartsProofs` and `DeliveryProofs`, the longest, take some ten minutes each).

## 1. Inventory

`PROJECT.json` lists all parts, with every file of `src/relay` in exactly one of them.
The parts that carry state other parts depend on:

| part | state | operations | hard because | correct when |
|---|---|---|---|---|
| **Partition log** (`records`, `segmentlog`, `partition`, `retention`) | segments, roll count, high watermark, reclaimed counters | append/roll, advance the watermark, consume, drop the head, retention run | rolls, trims, the watermark and readers interleave; a record can be larger than a segment | offsets never shift, every committed offset is served or reported trimmed, sealed segments never change |
| **Consumer groups** (`consumergroup`, `offsetreset`, `seek`) | committed offsets, skip log, reset ledger | register, commit, reset, seek | consumers crash between process and commit, the log is trimmed under them | at-least-once loses nothing in silence, at-most-once never repeats, retention spares the unread, consumers catch up |
| **Replicated partition** (`replication`, `election`, `leaderepochcache`, `leaderepochfence`, `epochfetch`, `recovery`, `becomeleader`, `becomefollower`, `replicafetcherthread`, `watermarkpropagation`, `minisr`) | logs, epoch caches, in-sync set, watermarks, elector | produce, fetch, evict, elect, promote, demote, truncate, crash, recover | deposed leaders go on, brokers restart with old epochs, caches and logs are truncated separately | promised records survive, replicas agree below the watermark |
| **Transactions** (`transactions`, `txncoordinator`, `txninit`, `zombiefence`, `commitmarkers`, `controlrecords`, `laststableoffset`, `isolation`, `abortedindex`, `aborttransaction`) | producer epochs, transaction state, markers, open-transaction table, abort indexes | register, begin, produce, complete, expire, time out, mark, read committed | markers go out one by one, replaced instances and timeouts race the commit | verdicts are atomic and final, no dirty read, nothing committed skipped, readers not stuck |
| **Group rebalancing** (`groupstate`, `groupgeneration`, `joingroup`, `syncgroup`, `rebalance`, `groupmaxsize`, `heartbeatsignal`, `rebalancelistener`, `consumerclose`, `maxpoll`, `offsetstore`, `coordinatorload`, `groupcoordinatorload`) | group state, generation, join and sync phase, assignment, offsets | join, close window, submit, sync, commit, heartbeat, revoke, evict, close, fail over | every step races a crash, a late member or a moving coordinator | a Stable group is fully assigned, only owners commit, the group settles |
| **Idempotent produce** (`idempotent`, `produceridempotence`, `inflight`, `inflightorder`, `deliverytimeout`, `callbackorder`, `produceridexpiry`, `producersnapshot`) | last epoch and sequence, snapshots, in-flight batches, callback buffer | send, deliver, acknowledge, give up, expire, snapshot, crash | loss, repetition and reordering with several batches in flight and instances replaced | each batch once and in order, acknowledged means stored |
| **Metadata quorum** (`quorumvote`, `prevote`, `logmatching`, `commitindex`, `readindex`, `quorumobserver`, `metadatasnapshot`, `snapshotinstall`, `controllerepoch`) | terms, votes, logs, commit index, voters, snapshots | campaign, vote, append, commit, read, promote, snapshot, crash | stale leaders, delayed appends, a voter set that grows | one leader per term, committed entries survive, reads are fresh |

How they interact: the partition log is the object groups read, retention trims and
replication copies. The retention run is handed the *committed floor* its caller computes from
the group registry. Replication moves the watermark, and the elector hears of it.
Transactions write to partitions through their markers and bound the readers by the last
stable offset. A rebalance decides who may commit to the offset store. The
metadata quorum decides the control plane's log.

The other parts are smaller, and in the code share no state with one another or with the
seven above. Each is an object with the callers and the faults its docstring names:

| part | modelled objects | correct when |
|---|---|---|
| **Log store** (`LogStore`) | rolling segments with offset index, rebuilt after a crash; time index; log head with leader epochs; removal of a segment file; start-up | lookups land right, epochs end where their records end, reads keep their file while the delete delay runs, a damaged directory stays offline |
| **Storage care** (`StorageCare`) | compacted log with readers; tiered log; disks | reading on gives the table of the full history, what left the disk is in the store, disks in use are healthy |
| **Control plane** (`ControlPlane`) | leadership of a partition; metadata on its way; rolling restart, decommission, features | leaders hold what was committed, views are versions the cluster had, upkeep keeps service |
| **Replica care** (`ReplicaCare`) | a moving replica; flapping; voter sets; placement | moves and cancels cost no committed record, successive quorums meet, placement is even |
| **Group care** (`GroupCare`) | cooperative rebalance; committed offsets; delayed rebalance; weights | no partition owned twice, no record skipped, delay bounded, shares fair |
| **Administration** (`Administration`) | a topic's life; static members; token sessions | records reach their own topic, one member per partition, sessions end in time |
| **Formats** (`Formats`) | framing, varints, columns, prefixed keys, merged runs, batch offsets, schema registry | what was written is read back; a change of schema keeps what its mode promises, but for a field that turns from optional to required |
| **Clients** (`Clients`) | fetch session; waiting fetch; failing records; a send; id blocks; pure splits | nothing skipped or lost unannounced, answers in bounded time |
| **Overload** (`Overload`) | breaker with retries; buckets; quota; queue; sockets; credit; fair queue; shares | the limits the code enforces are never passed, nobody starved |
| **Pipelines** (`Pipelines`) | consume-transform-produce; auto-commit; outbox; saga; connectors; mirror | what went in comes out as often as promised, wherever a crash falls and as long as the caller keeps the order the docstring gives |
| **Protocols** (`Protocols`) | two-phase commit; chain; quorum reads; lease; validation at commit; write-ahead log; broadcast; causal delivery | unanimity, acknowledged writes kept, reads meet writes, fencing, no lost update, causes before effects |
| **Streams** (`Streams`) | barrier; state store; windows; sessions; joins; tables; stream clock | snapshots are cuts, stores are their changelogs, closed windows stay closed, joins miss no pair and give each record once |
| **Replicated types** (`ReplicatedTypes`) | counter, register, set; Lamport, vector and hybrid clocks | replicas that saw the same agree (a register until a write repeats its stamp), clocks follow causes |
| **Structures** (`Structures`) | caches, wheels, logs, trees, heaps, rings, tries | each answers as its plain reference does |

Monitoring, the command line and the `proofs/` package (executable claims that print a
report) have no state a protocol property could be about. Section 8 lists what else is out.

## 2. Modules

| module | what it is |
|---|---|
| `SegmentLog` | operators on a list of segments: `Segment` and `SegmentLog` of segmentlog.py, and the pop loops of the trimmers |
| `PartitionLog` | one partition as a state machine over `SegmentLog`: append, watermark, head drop, retention, clock |
| `CommitLog` | abstract: a window of a growing sequence with a watermark; what a partition promises |
| `Delivery` | extends `PartitionLog` with consumer groups and their consumers |
| `ReplicatedPartition` | three or more brokers with one partition |
| `Transactions` | transactional producers, coordinator, markers, read-committed readers |
| `GroupRebalance` | members, coordinator, offset store of one group |
| `IdempotentProduce` | a producer, the network, a broker's gate |
| `MetadataQuorum` | voters and observers of the metadata log |
| `LogStore`, `StorageCare`, `ControlPlane`, `ReplicaCare`, `GroupCare`, `Administration`, `Formats` | the parts around the broker's core; each has one variable `obj`, whose `class` says which of the module's objects a behaviour is about |
| `Clients`, `Overload`, `Pipelines`, `Protocols`, `Streams`, `ReplicatedTypes`, `Structures` | what runs beside and on the broker, in the same form |
| `PartState` | the variable `obj` and the clock bound the parts share |
| `BrokerParts`, `GroupParts`, `DeliveryParts`, `TypeParts` | the parts that are proved about, as instances: control plane, administration and replica care; group care; pipelines and protocols; replicated types |
| `MCBrokerParts`, `MCApplicationParts` | the disjoint unions of the two groups of parts, for TLC |
| `PartitionLogProofs` | theorems about the partition log, that it implements `CommitLog`, and about `Delivery` |
| `TransactionsProofs`, `MetadataQuorumProofs`, `ReplicatedPartitionProofs` | theorems about the module of that name |
| `GroupRebalanceProofs` | theorems about `GroupRebalance` and `GroupCare` |
| `DeliveryProofs` | theorems about `IdempotentProduce`, `Pipelines` and `Protocols` |
| `PartsProofs` | theorems about `ControlPlane`, `Administration`, `ReplicaCare` and `ReplicatedTypes` |
| `NaturalsOrder` | lemmas the proofs share: least and greatest elements of sets of naturals, order, large subsets that meet |
| `MC*` | constants for TLC; no definition of the modules is replaced |

A part that is proved about is an instance in a module that both the runs and the proofs extend,
so that a theorem states the very definition a run checks. There are four such modules
because the prover's time grows with everything a module extends.

Variables carry the code's field names; an action carries the method's name. A refusal
(`raise`) is a disabled guard, unless the refusal itself changes state (a spent vote, a
transaction the coordinator closes before the transition is refused), which is then part
of the action. History variables (`appended`, `dropped`, `processed`, `promised`,
`delivered`, `outcome`, the quorum's `committed` and `lapses`, the recovery's `misled`, and the
parts' `tied`, `early`, `bare`, `orderly`, `mixed`, `torn`, `skipped`, `forced`) never guard a step except as a
bound. Those from `lapses` on record that something happened which the code admits and a docstring excludes; the
property then speaks of the behaviours until it does, and section 6 says what goes wrong after. Operators commented "A plausible slip" are variants that no module uses. Each shows,
put in place of the definition after it, that the property it belongs to can fail.

What is abstracted everywhere: record contents (a record is an identity with a size, or
the epoch or transaction that wrote it), messages and reports, clock values where the
code only compares them with a limit somebody else chose (an election timeout, a session
timeout and a delivery timeout may fire at any time).

Assumptions on the wiring, where the code leaves it to the caller:

- **Partition log and delivery.** The map of last ticks given to the retention run is
  kept up to date at each append. In `Delivery` the floor is the least position of the
  registered groups (a group without a commit stands at 0), the log's end without groups. An at-most-once consumer
  makes no seek back (it would ask for a repetition). No run uses the
  "error" reset policy, under which a consumer stops by design; `seek` by timestamp is
  left out.
- **Replication.** A leader reports its watermark and its in-sync set to the elector,
  which takes it from the current epoch only (`accept_from`); at an election the in-sync
  set is rebuilt from the candidates. A follower is readmitted when it fetches at the
  current epoch and is within the lag (the code has no such step; it is marked external). A replica's head is
  not trimmed.
- **Transactions.** A producer begins a transaction after the answer to its previous
  one. Only partition markers make a verdict visible to readers. A coordinator crash
  loses the progress of the markers and nothing else.
  `Transaction.commit` goes from open to committed in one call; here the verdict (`Complete`)
  and the end (`Declare`) are two steps with the markers between them, as `CommitMarkers`
  has it. `AbortedIndex.prune_below` is left out.
- **Groups.** The members have an assignor in common. A window closes when each member
  that can join has joined, or by its deadline (a fault). `JoinPhase` keeps a member that is
  evicted while the window is open, and the plan may then be waited for in vain; the coordinator starts the
  group over as soon as `GroupStateMachine` has an edge for it (`StartOver`).
- **Idempotence.** A snapshot's entry is a sequence without an epoch (`ProducerEntry`); when no
  batch of the tail tells it, recovery takes any epoch up to the producer's (`misled` if it is a wrong one). A
  delivery timeout fails all that the producer has in flight, coarser than one `DeliveryAttempt`
  per batch. Idle state expires
  after the last of the producer's requests is gone. The
  session gate is not crashed, because no code rebuilds its sessions. A producer opens one
  session per epoch. At the partition gate a restarted producer has one batch in flight;
  section 6 shows why.
- **Quorum.** Appends overtake each other, a read begins at whatever the leader committed (0
  before its first commit), and `commit_prior_via_current` is called with or without a majority. An
  append that cuts entries of its own leader, and a commit no majority holds, are
  `lapses`. An election counts the voters it began with. A voter confirms a read
  once. Voting and appends fence older terms (`ControllerFencer`).
- **The parts.** Classes that work on the same data are put into one object when a caller
  would hold them together (a compacted log with its cleaner, its tombstone rule and its
  readers). Each module says above an object what its fields are and what the environment does; the
  environment's steps are marked external in `PROJECT.json`. Where a docstring leaves a choice to the caller, the model
  takes every choice the code admits, or section 6 lists why one breaks the promise. What the caller is taken to do
  or leave, part by part:
  - *Control plane.* A restart marks the partitions it leaves short (`mark_under_replicated`) in the same
    step. An update names a new leader; brokers learn of versions by images and deltas, so the refusal
    in `Controller.route` is left out.
  - *Replica care.* A move is cancelled while the newcomer does not lead; the original brokers do not leave the
    cluster. A change of leader truncates the followers at once. A reader tolerates what the lag limit admits.
  - *Storage care.* A log is cleaned when it is dirty enough or a record in it is overdue (`compactionlag`).
  - *Group care.* A group whose offset is gone resumes at the earliest record. *Administration.* The
    coordinator gives a partition to one static member; a topic grows by `partitionexpand`
    (`Topic.resize` refuses always); a session keeps its principal.
  - *Clients.* A fetch that finds too little is parked in the step that looked. *Protocols.* A causal message is accepted once;
    the last node of a chain does not fail. *Pipelines.* The time between two auto-commits is the consumer's own.
  - *Replicated partition.* A write may ask for any acks, so the floor of in-sync replicas
    decides what is promised, not what a log may hold; a follower whose epoch the leader's cache does not
    know (`Missing`) is sent back to the log's start.

## 3. Runs

| run | question | bounds | distinct states |
|---|---|---|---|
| `partition_log` | do offsets, chain, reads and accounts survive any mix of operations, and do the segments implement `CommitLog`? | 4 records of three sizes (three to a segment, exactly one, larger than one), 2 ticks | 90 000 |
| `delivery` | what each contract promises, what retention spares, do consumers catch up? | 2 groups, one per contract and reset policy; 3 records, one per segment; 2 faults | 612 000 |
| `replica_failover` | do promises survive a failover with the old leader still running? | 3 brokers, 2 epochs, 3 records, 1 crash | 347 000 |
| `transactions` | atomic, final, visible at last? | 2 ids, 2 partitions, 2 transactions, 3 writes, 2 instances, 1 crash | 632 000 |
| `group_rebalance` | who owns what, who may commit, does it settle? | 3 members, 2 places, 2 partitions, 2 faults | 602 000 |
| `idempotent_produce` | once, in order, stored, resolved? | both gates, 3 sequence numbers, 3 epochs, 2 crashes | 1.3 million |
| `metadata_quorum` | the safety of the quorum | 3 nodes (2 voters and an observer), 4 terms, 2 entries, 2 requests under way, 2 reads, promotions, snapshots or crashes, up to the first lapse; after the second term 1 request and 1 candidate at a time | 1.6 million |
| `broker_parts` | does each part around the core keep its promise? | in `MCBrokerParts`: logs of 4, clocks to 3 or 8, 2 keys and 2 readers, 4 partitions, 4 voters, 3 items to a format | 866 000 |
| `application_parts` | does each part beside and on the broker keep its promise? | in `MCApplicationParts`: 3 replicas, 3 to 5 operations, clocks to 4 | 1.29 million |
| `replica_diverges`, `aborts_forgotten`, `new_epoch_skips` | the disagreements of section 6 | as small as the counterexample allows | |

The two union runs ask many small questions at once. The objects share no state in the
code, so a behaviour of the union is a behaviour of one object: `Init` picks it, `class` never
changes, and every invariant says something of its own classes only. Nothing is lost by
checking them together, and the states are the sum of the objects' states, not their product.

Why the bounds are enough for the cases of interest:

- `partition_log`: four appends give three rolls, so that a trim can remove two segments and leave a
  sealed and an active one; the three sizes put the roll test on each side of its edge and
  on an empty segment. The theorems below have no bound at all.
- `delivery`: three one-record segments let every committed prefix be trimmed; two faults
  give a crash after a crash, or a seek followed by a head drop.
- `replica_failover`: one election with a leader that does not hear of it and one crash.
  With a third epoch the divergence of section 6 appears, so that is a run of its own.
- `transactions`: the second transaction of an id after the first shows stale markers
  and stale indexes; two instances show fencing; two partitions show partial markers.
- `group_rebalance`: three members for two places exercise the cap; two faults let a
  rebalance be disturbed by a second one.
- `idempotent_produce`: three numbers fill a pipeline of two and let a third batch
  follow the retry of the first, three epochs let a zombie's batch arrive two instances late, and
  two crashes let a second recovery start from what the first left.
- `broker_parts`, `application_parts`: every object has room for the case its property is
  about: a tombstone that ages while a reader stands before it, a cancelled move after a
  change of leader, a second turn of the timer wheel, a checkpoint after a restart, a third
  replica that passes an update on. No disjunct of their next-state relations stays unused.
- `metadata_quorum`: an entry of an earlier term that is overwritten needs three terms
  and two entries; a stale read needs a fourth. Two requests under way let one of the same
  leader overtake the other. A behaviour is followed up to its first lapse, where the properties end.

Symmetry is used in safety runs only, over brokers, nodes, keys and readers. Deadlock checking is off
where a bound or a finished workload stops the system (`CHECK_DEADLOCK FALSE`), and on
for `partition_log` and `delivery`.

## 4. Properties

Each is stated with a comment above its definition. By component:

- *Partition log*: `SegmentChain`, `OffsetsAreStable`, `RetentionIsHonest` (committed
  offsets are served or reported trimmed, never the hole segmentlog.py:109 raises for, and the
  reclaimed counters agree with what went), and the refinement `ImplementsCommitLog`.
- *Delivery*: `ContractsKept` (nothing lost in silence, nothing twice, only drops overtake),
  `RetentionSparesUnread`, `ConsumersCatchUp`.
- *Replication*: `LeaderHasPromises`, `ReadsAgree`, `FollowerIsPrefix`, `TruncationSparesPromised`.
- *Transactions*: `ReadCommittedIsExact` (no dirty read, nothing committed skipped, stable
  means marked), `MarkersAgree`, `VerdictsAreFinal`, `ReadersNotStuck`, and
  `AbortedAreFilteredOut` for the second filter.
- *Groups*: `StableIsAssigned`, `CommitsAreProgress`, `OnlyOwnersCommit`, `GroupSettles`.
- *Produce*: `LogIsSequenced`, `AckedIsStored`, `SendsResolve`.
- *Quorum*: `OneLeaderPerTerm`, `LogsAreSafe` (leader completeness and log matching),
  `ReadsAreFresh`, `SnapshotsCover`.
- *Parts*: one invariant per module, a conjunction with one named conjunct per object, each
  stated above its definition: `StoreServesReaders`, `DataAtRestIsSafe`, `ControlIsSafe`,
  `ReplicasAreSafe`, `GroupsAreSound`, `AdministrationIsSound`, `FormatsRoundTrip`;
  `ClientsLoseNothing`, `LoadStaysBounded`, `PipelinesKeepPromises`, `ProtocolsHold`,
  `StreamsAreExact`, `TypesConverge`, `StructuresMatch`. A reference (the last value of each
  key, the set of pairs a join should give, the sum of a range) is written from the
  promise, not from the code's algorithm.

Type invariants and the action properties `LinesOnlyAdvance` and `SealedIsImmutable` of
`PartitionLog` are proved, for every constant, and not run.

Fairness is weak and only on what the code keeps calling: in `Delivery` each consumer's
poll loop; in `Transactions` the coordinator's drive of markers and expiry and the
readers' polls; in `GroupRebalance` the coordinator (which gives a crashed member up at
last) and the members that run; in
`IdempotentProduce` opening a session, the delivery of the current epoch's batches (a
producer retries, so a batch that can arrive does so at last), replication and the
answers. Appends, elections, crashes, evictions, seeks, operators and clocks are never
fair. The replicated partition and the quorum have no liveness property yet.

## 5. Proofs

A run checks one small instance; the theorems hold for every value of the constants, from
the named assumptions of the modules. All safety properties of the seven core components
are proved, those of the replicated partition for one clean failover, and so are the
invariants of seven of the parts around them.

| module | theorems (property) | assumes |
|---|---|---|
| `PartitionLogProofs` | `InductiveInvariant`, `TypeCorrect`, `ChainHolds` (`SegmentChain`), `OffsetsNeverShift` (`OffsetsAreStable`), `SegmentsAllAccounted`, `LinesNeverRetreat`, `SealedNeverChanges` | sizes are positive, a policy has a positive limit |
| | `RetentionStaysHonest` (`RetentionIsHonest`), `PartitionIsACommitLog` (`ImplementsCommitLog`) | the same |
| | `DeliveryInvariant`, `EveryContractKept` (`ContractsKept`), `UnreadIsSpared` (`RetentionSparesUnread`) | also: `None` is no offset |
| `TransactionsProofs` | `ReadCommittedExact` (`ReadCommittedIsExact`), `AllMarkersAgree` (`MarkersAgree`), `FinalVerdicts` (`VerdictsAreFinal`) | `None` is no offset |
| `GroupRebalanceProofs` | `StickyAssignIsFair`, `AlwaysAssigned` (`StableIsAssigned`), `AlwaysProgress` (`CommitsAreProgress`), `OwnersOnly` (`OnlyOwnersCommit`) | finitely many partitions, at least one |
| | `GroupsStaySound` (`GroupsAreSound`) | `CareConstants`: naturals, and a maximum delay of at least the base delay, as rebalancedelay.py demands |
| `MetadataQuorumProofs` | `QuorumInvariant`, `TermsHaveOneLeader` (`OneLeaderPerTerm`), `QuorumLogsAreSafe` (`LogsAreSafe`), `QuorumReadsAreFresh` (`ReadsAreFresh`), `QuorumSnapshotsCover` (`SnapshotsCover`) | finitely many nodes, no empty voter set; hypothesis `MajoritiesMeet`; all but `OneLeaderPerTerm` until a lapse |
| `ReplicatedPartitionProofs` | `GeneralInvariant`, `TypesKept`, `OneLeaderPerEpoch`, `CachesInOrder`, `WatermarksAreCommitted` | floor positive |
| | `FailoverInvariant`, `NewLeaderHasPromises` (`LeaderHasPromises`), `ReadersAgree` (`ReadsAgree`), `FollowersArePrefixes` (`FollowerIsPrefix`), `TruncationIsSafe` (`TruncationSparesPromised`), `CachesDescribeLogs` | hypothesis `OneCleanFailover` |
| `DeliveryProofs` | `SequencedLog` (`LogIsSequenced`), `AckedStaysStored` (`AckedIsStored`) | hypothesis `OneAtATimeAfterRestart`; until `misled` |
| | `PipelinesAreSafe` (`PipelinesKeepPromises`) | `PipeConstants`: window and interval at least 1, as dedupstore.py and autocommit.py demand |
| | `ProtocolsStaySafe` (`ProtocolsHold`) | `ProtocolConstants`: quorums of 1 to 3 of the three replicas, as quorumread.py demands; the rest naturals |
| `PartsProofs` | `ControlPlaneIsSafe` (`ControlIsSafe`), `AdministrationStaysSound` (`AdministrationIsSound`), `ReplicasStaySafe` (`ReplicasAreSafe`) | ticks, limits and bounds are naturals |
| | `TypesStayConvergent` (`TypesConverge`) | finitely many nodes, numbered |

The bounds (`MaxTerm`, `MaxRecords`, ...) are any natural numbers, so they bound nothing
that a proof uses. None of the properties is inductive; each module states the
strengthening that is.

**Partition log.** `SegmentChain` relates neighbours only. That dropping several segments
moves the first offset forward needs the order of segments that are not neighbours;
`OrderedOf` carries it as an invariant. One lemma per helper of segmentlog.py (append to
the active segment, roll, drop the oldest) says how it changes a segment list and that it keeps chain, order and
offsets; each action is one of the helpers with the lines and counters added.
`CommittedIsServed` then follows: among the segments that begin at or before an offset the
last one holds it. Byte accounts need sums over segments. `Total` sums a list with a
local recursive function, and what it gives for a list with a segment added at the end
or taken from the front (`TotalIsASum`, `SumsAreUnique`, `TotalOfConcat`) is shown by the
least counterexample (`LeastNatural` in `NaturalsOrder`), which takes the place of the
induction rule the provers cannot instantiate.

**Refinement.** `CommitLog`'s state is the retained window, the first offset and the watermark.
`Window` concatenates the segments' records; `WindowIsTail` shows, from the chain and
`OffsetsAreStable`, that this is the tail of the appended records which begins at the
first offset, again by a least counterexample. An append or roll is
`Produce`, a watermark step is `Commit`, and a trim of n segments removes d records
from the window's head, or nothing. `Trim` never takes the newest record, and this needs one more invariant
(`ActiveIsUsed`: the active segment is empty only when it is the only one).

**Delivery.** The contract of a group relates what it processed to its position. Between the
two steps of a consumer the record in hand is processed and not committed, or the
other way round, and `AtLeast` and `AtMost` say which; a position and a
cursor lie within the log (`Placed`); until a head drop the first offset is at or below
every position (`NotOvertaken`). `GroupOK` bundles one group's share, so that a step of
one group is one lemma about its own fields, and steps of the log are about the rest.

**Transactions.** `IInv` says of each log and id which of the id's transactions have records, which
have a marker of which kind, where the open one began, and what the abort index has for
each. Each predicate takes as arguments the parts of the state it depends on. A marker
written twice (after a coordinator crash) is harmless because the first one closed the
transaction in that partition and the verdict was fixed before either.

**Group rebalancing.** `sticky_assign` is modelled by a recursive function that places one
partition after another. `Partial` is its loop invariant: nothing given twice, nobody above the target, and as many unplaced as there are places left.
`SharesAddUp` counts the targets, so the last round leaves nothing over, and
`Submit`'s own check for overlap is never what saves it. For the group: an owner of the current
generation holds its slice of the submitted plan, and what it committed is behind its position, which is behind
what was processed.

**Idempotent produce.** The log is made of whole runs: by rising epochs, each from 0 without a gap. What the
gate remembers is the log's end, or a session opened since, or nothing, and then no
request of the log's last epoch is left. A crash keeps this: the tail behind the snapshot gives the epoch, and
where there is no tail the rebuilt epoch is the log's or the behaviour is `misled`. `OneAtATimeAfterRestart` asks that, at the partition gate, a
producer of epoch 2 or later keeps one batch in flight; without it the promise is false
(`new_epoch_skips`).

**Metadata quorum.** The arguments are about the past, which the state does not
record. Instead of history variables in the model, `IInv` says that a past exists: elections by
term, the log of each term's leader, the acknowledgements `<<t, v, i>>` (node v held the
log of term t up to i, in term t), and the voter sets so far. `Core` is about votes, logs and
requests, `Outer` about leaders' counts, snapshots, reads and the committed
prefix. The heart is `Choosable`: an entry that a majority of some voter set, past or to
come, has acknowledged or may yet. It can only shrink (`ChoosableShrinks`), and it is what a
log must not lose: who acknowledged a choosable entry keeps it (`Kept`), a candidate has those
of its voters (`Candidates`, by `Currency`: a log at least as current holds them), and
so a later leader was elected with all of them (`Complete`). A request that overtakes another of its
leader leaves what was acknowledged in place unless it cuts it, which is the lapse `IInv` excludes; that a term has one
leader needs the votes alone (`VotesInv`) and survives lapses. Every action has a lemma for `Core` and
one for the whole. For reads, `Overtaken` says that a majority moved on that has not confirmed; it
meets the majority that would let the read be served.

`MajoritiesMeet` is the hypothesis that majorities of two voter sets on the way, from an
initial set by promotions, share a node. `OneObserverIsSafe` shows that it holds when every
initial set leaves at most one node out, as in the run. It is needed:
`QuorumMembership.promote` asks for the observer's lag and nothing else. With three nodes and
one initial voter, TLC gives a term two leaders: n1 leads term 1 alone and promotes n2
and n3 one after the other, and these two are a majority of the new set that elects n2 in term 1, though
neither voted for n1. Promotions one at a time are only safe when the earlier one
has been committed by the set it made.

**Replicated partition.** Whatever the elections, clean or not: only the broker elected for
an epoch serves it, a cache lists its epochs in order and none beyond its log's end, and no
watermark passes what is promised (`AlwaysInv`). That nothing promised is lost is
false after three epochs, as `replica_diverges` shows, so the other theorems take one
clean failover, `OneCleanFailover`: any brokers, floor, lags, log lengths and crashes, and an old leader
that goes on writing and answering after it was deposed. Until
the second leader serves, every log is of epoch 1 and the elected leader holds what is promised
(`BeforeInv`); from then on a broker either has not met the second epoch and exposes nothing
of it, or is in line with the second leader's log (`AfterInv`), and while the first leader is at its epoch no log of that
epoch is longer than its own (`FirstLeads`). What a recovering or demoted
broker keeps is what `diverge_point` and the handshake give for these shapes of log and cache
(`OldRecovers`, `NewRecovers`, `FirstRecovers`, `OldReconciles`); in line with the leader, it loses nothing
promised.

**The parts.** The state is one object, so each invariant is a disjunction with one
alternative per class (the object's fields and what relates them), and each class has a lemma per method, one for `Init` and one that its
alternative gives its conjunct of the property. The arguments that are more than this:

- *Control plane.* Who is in sync holds all that is committed, so a clean choice among them
  loses nothing. Successive versions of the metadata differ in one leader; a broker's view is one of the
  versions, and each leader a client has cached is one of a version it has reached.
- *Group care.* A target of `range_assign` is a partition of the topic into runs whose sizes differ by one at most
  (`RangeIsEven`, for any number of partitions and each number of members; a sum over members
  is taken member by member, whatever order the fold chose, `SumMemberwise`). The invariant `Coop` says what ownership is
  in each phase: that of before, then what is both owned and targeted, then the target; so owners are disjoint
  throughout, and the assign phase is never refused. No commit under way, no committed offset and no position passes what was
  processed. Weighted shares: what rounding down leaves over, times the total, is the sum of the
  remainders (`LeftOver`), and who gets one of the extra partitions has a remainder above zero (`FirstOfThree`).
- *Administration.* Two records without a key and none between them are in different partitions (`Turns`),
  which needs that the counter has moved past the last one's (`TurnMoved`), through expansions too.
- *Replica care.* Successive voter sets differ by one, so their majorities meet, by cardinalities
  (`NextMajorityMeets`). Placement goes round the brokers: a count over whole turns
  (`PeriodicCount`) bounds the difference of two shares. For flapping, the transitions before each way
  in are counted (`Shortly`), and parity tells ways in from ways out.
- *Pipelines.* The relay may repeat a row but has all earlier ones in the topic before it (`Relayed`); the
  consumer remembers a row, or last acted upon it a whole window ago (`Memory`), so it acts in turn and repeats only after a
  window (`InTurn`). An orderly saga's undone steps are the done ones reversed, and the steps left are the first ones (`SagaInOrder`). What a mirror or a connector
  delivered is told by its positions.
- *Protocols.* Overlapping quorums meet by cardinality (`LargeSetsMeet` in `NaturalsOrder`), through hints and
  repairs. A node of the chain holds what its successors hold. A committed transaction read nothing that was
  written since. Causal delivery empties its buffer by repeated passes: that the recursive function of
  the passes exists, and that message m is free by pass m, are least counterexamples.
- *Types.* The value of a counter is the number of increments a replica reflects (`Tokens`,
  `ValueIsCount`: the fold over nodes is a cardinality, by a least counterexample), so equal knowledge is
  equal value. A register has the newest stamp of the writes it reflects (`HasNewest`), and while no write has tied the
  write itself, for each outranked the one it replaced and so two with one stamp differ in their nodes (`Outranks`); a set has what its updates say, tag by tag. For clocks, an event belongs to one node, and a vector's entry
  counts the events of that node in its past, so the order of vectors is the order of causes.

**Model-checked only.** Liveness (`ConsumersCatchUp`, `ReadersNotStuck`, `GroupSettles`, `SendsResolve`): fairness
and ENABLED are outside the prover. `Formats` and `Structures` are built on recursive
operators, which the prover does not take, and what they compute is a matter of induction
over data: `FormatsRoundTrip`, `StructuresMatch`. The promises of `LogStore`, `StorageCare`,
`Clients`, `Overload` and `Streams` (`StoreServesReaders`, `DataAtRestIsSafe`,
`ClientsLoseNothing`, `LoadStaysBounded`, `StreamsAreExact`) are checked by TLC alone; no
obstacle is known for the objects without a fold over unbounded data. The second abort filter
(`AbortedAreFilteredOut`) is false of the code, and so are the promises with more than
one failover.

## 6. Where code and docs disagree

Three have a run that shows them; `PROJECT.json` quotes the lines.

- `replica_diverges`: the epoch handshake asks once. A follower whose latest epoch the
  new leader skipped keeps records the leader lacks; it is then no prefix.
- `aborts_forgotten`: `AbortedTransactions` keeps one start per producer; a second abort
  makes the first one's records visible. (`AbortedIndex`, the other filter, is right.)
- `new_epoch_skips`: the partition gate takes the first batch it sees of a new epoch at
  any sequence, and then answers for earlier ones as duplicates.

Met while modelling, without a run of their own. The properties of the module concerned say
what does hold; the text above each object says what its caller is taken to avoid.

*Core.*
- `recovery.py:41`: `diverge_point` stops at the first epoch marker the leader lacks, also
  when the broker wrote nothing in that epoch, and discards promised records.
- `commitindex.py:75`: `commit_prior_via_current` asks only that the carrying entry is of
  the current term, not that a majority holds it (a `lapse`); a later leader may lack what was
  committed so. `readindex.begin_read` asks for no commit of the leader's own term, and a new leader's
  read at 0 misses what its predecessors committed.
- `logmatching.py:52`: `append` cuts everything after the entry it matches, also the leader's own
  later entries when requests overtake each other (a `lapse`); what was counted on is gone.
- `producersnapshot.ProducerEntry` has no epoch. A recovery with no batch after the snapshot has to
  guess one; with a wrong guess (`misled`) a stale producer is let in, or the right one refused.
- `joingroup.JoinPhase` keeps a member evicted while the window is open, so the plan is waited for in vain
  until the group starts over.
- `joingroup.close_window` closes before `choose_strategy` may raise; the on-revoke commit
  comes when the group's state no longer admits commits; `idempotent.open_session` resets the
  sequence when a session is reopened at the same epoch; `snapshotinstall` refuses a
  follower whose divergent log is longer than the snapshot, which can then be neither
  replayed nor replaced.

*Around the core.*
- `segmentdelete.try_unlink` refuses only while the delay runs *and* readers remain (line 70), though lines 16-19
  say that a read which opened before the rename is waited for; one that outlasts the delay loses its file.
- `leaderepochcache.drop_below` removes the epoch that spans the new start (lines 71-77); the answer for
  it is then `Missing`, and the follower is sent back to the log's start.
- `timeindex.offset_for_time` lands on the indexed entry, which may be past the earliest record at or after
  the target (lines 9-12), by up to one gap of the sparse index.
- `BrokerStartup.load`: a partition loaded twice with different results is both online and offline.
- `metadatacache.on_not_leader` keeps the other leaders under the new version.
- `schemas._backward_ok` is symmetric, so backward, forward and full are one rule, and a
  field may go from optional to required though old data lacks it.
- `framing.feed` loses the frames it has cut in a call that then raises.
- `headers.add_reserved` ignores the size cap; `taskassignment.assign_active` can put an
  active task beside its own standby; `rebalancestorm` forgets old rebalances only when a new one comes.

*Clients and load.*
- `circuitbreaker` lets any number of trials through half-open, and a late success closes
  an open circuit.
- `fairqueue` keeps the quantum of an empty queue; `quotas` and `quotaenforcer` pace a client
  to twice its quota at worst.
- `fetching.plan_fetch` waits though the minimum is there; `purgatory.park` does not look
  whether the condition is met already.
- `partitioner.count_batches_roundrobin` counts 0 for batches of one; `linger.optimal_linger`
  may exceed its maximum by one; a blocked `producerbuffer.append` may exceed the capacity.

*Protocols, types and streams.*
- `sequencer.failover_resume` may leave a hole; `causaldelivery` delivers a duplicate again;
  `chainreplication.fail` removes the last node before it raises.
- `saga` takes its steps in any order (and commits only in one), keeps no record of what was compensated,
  so that a step may be undone twice, and `fail` is accepted after the commit.
- `ctp.py:46-56`: output may follow the offset in a transaction, which then covers less than was
  produced (`early`), and `bare_commit_check` (84-90) does not look whether a transaction is open (`bare`): its
  abort leaves the offset ahead of the output.
- `lwwregister.py:45` refuses only an older stamp: a write at an equal one replaces the value though merge would rank
  it lower, and replicas may then keep different values for good (`tied`).
- `checkpointbarrier` counts barriers of different checkpoints together (`mixed`, `torn`).
- `statestore.write` does not look whether the store is ready (`skipped`: what it has not replayed is lost to its
  readers), and one promoted with nothing left to replay never becomes ready.
- `temporaljoin`: an event ahead of the newest version joins that one; replayed after the next
  `add_version`, it may meet another, though lines 13-15 say that the answer is the same.
- `streamtime` drops an event only for a window already begun, so one arbitrarily late may open a
  new one; `windowstore` asks of its retention only that it is no less than the window.
- `streamjoin` expires by the arriving record's time; `outerjoin` overwrites an unmatched
  record, pairs one again at each `match`, and `emit_unmatched` does not look whether it has matched (`forced`).

## 7. Hazards

`PROJECT.json` lists what a test would hardly reach, at the line where it bites, with the
properties that would catch it. One has none: a follower that can neither replay nor
install a snapshot (`snapshotinstall.py:62`) is a question of the quorum's liveness, which
needs fairness of replication over a bounded number of terms.
Nine more carry a note: their property holds up to a point the code does not defend (a
history variable, or a case named in the property), and section 6 says what goes wrong after it.

## 8. Not modelled

- Computations with one input and no state after it: validation, configuration, rack and
  replica choice, throttles, jitter, quantiles, plans. A unit test reaches all of them.
- Bit-level and library code: checksums, compression, hashing, the Merkle tree.
- Promises that are probabilities or statistics: filters, sketches, reservoir, gossip,
  accrual detector, skew.
- Reports, listings and the command line.
- Stateless stream operators (branch, flat-map, merge) and checks on a topology's graph.

`PROJECT.json` names them by component. Not composed, though modelled apart: the trimming
of a replica's head with replication, voter-set changes with the quorum's log, and cooperative
rebalances with the offset store.

## 9. What is left

- `ReplicatedPartition`: a hypothesis under which `LeaderHasPromises` and `ReadsAgree` hold for any
  number of epochs (each new leader has an entry for every epoch of its followers), and
  their proof.
- Proofs for the objects of `Overload` and `Clients` whose promise does not depend on the
  bounds: credit, breaker, fetch session.
- The compositions of section 8, and the quorum's liveness.
