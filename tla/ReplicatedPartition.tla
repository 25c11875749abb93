------------------------ MODULE ReplicatedPartition ------------------------
(***************************************************************************)
(* One partition on several brokers: the in-sync set and the watermark     *)
(* (replication.py, minisr.py, watermarkpropagation.py), fetching          *)
(* (replicafetcherthread.py), the election and its fence (election.py,     *)
(* leaderepochfence.py), the transitions between roles (becomeleader.py,   *)
(* becomefollower.py) and the reconciliation of a log with the leader's    *)
(* (leaderepochcache.py, epochfetch.py, recovery.py).                      *)
(*                                                                         *)
(* A record is the epoch of the leader that wrote it: an epoch has one     *)
(* leader, so epoch and offset identify a record.  Logs survive a crash.   *)
(* The order in which brokers learn of an election is open, so a deposed   *)
(* leader may go on serving, and a follower fetching from it.              *)
(***************************************************************************)
EXTENDS Integers, Sequences, SequencesExt, FiniteSetsExt

CONSTANTS
  Broker, None,
  MinInSync,      \* ReplicationSet.min_in_sync and MinInSyncReplicas.floor
  MaxLag,         \* ReplicationSet.max_lag
  AllowUnclean,   \* PartitionElector.elect's allow_unclean
  ZombieLeaders,  \* may the controller depose a leader that is still running?
  MaxEpoch,       \* bound: leader epochs
  MaxLog,         \* bound: a log's length
  MaxCrashes      \* bound: crashes in a behaviour

ASSUME ReplicationAssumption ==
  /\ MinInSync \in Nat \ {0}
  /\ MaxLag \in Nat
  /\ AllowUnclean \in BOOLEAN /\ ZombieLeaders \in BOOLEAN
  /\ MaxEpoch \in Nat \ {0} /\ MaxLog \in Nat /\ MaxCrashes \in Nat

VARIABLES
  log,           \* each broker's log: a sequence of epochs
  entries,       \* LeaderEpochCache.entries: <<epoch, start offset>> pairs
  epoch,         \* the leader epoch a broker knows
  mode,          \* "serving", "fetching", "stopped" (demoted, not yet truncated),
                 \* "recovering" (restarted) or "down"
  watermark,     \* the watermark a broker exposes
  elector,       \* PartitionElector: [epoch, committed_offset]
  leader_of,     \* the winner of each epoch's election
  in_sync,       \* ReplicationSet: the leader and the in-sync followers
  fetched,       \* ReplicationSet: each replica's fetched_offset
  crashes,       \* bound
  promised       \* history: the records exposed below a leader's watermark

brokerVars == <<log, entries, epoch, mode, watermark>>
setVars    == <<in_sync, fetched>>
vars       == <<brokerVars, elector, leader_of, setVars, crashes, promised>>

Up == {b \in Broker : mode[b] # "down"}

LogEnd(b) == Len(log[b])

CurrentLeader == leader_of[elector.epoch]

\* The leader a follower believes in, if the fence lets it through: both are at one epoch.
Reachable(b, leader) ==
  /\ leader_of[epoch[b]] = leader
  /\ mode[leader] = "serving"
  /\ epoch[leader] = epoch[b]

Init ==
  \E first \in Broker :
    /\ log = [b \in Broker |-> <<>>]
    /\ entries = [b \in Broker |-> IF b = first THEN <<<<1, 0>>>> ELSE <<>>]
    /\ epoch = [b \in Broker |-> 1]
    /\ mode = [b \in Broker |-> IF b = first THEN "serving" ELSE "fetching"]
    /\ watermark = [b \in Broker |-> 0]
    /\ elector = [epoch |-> 1, committed_offset |-> 0]
    /\ leader_of = [e \in 1 .. MaxEpoch |-> IF e = 1 THEN first ELSE None]
    /\ in_sync = Broker
    /\ fetched = [b \in Broker |-> 0]
    /\ crashes = 0
    /\ promised = <<>>
----------------------------------------------------------------------------
\* ReplicationSet.committable_watermark, without its refusal below the floor.
InSyncMinimum(leader) ==
  Min({LogEnd(leader)} \cup {fetched[b] : b \in in_sync \ {leader}})

FloorMet == Cardinality(in_sync) >= MinInSync

\* A plausible slip: a report from an old epoch is believed.
AcceptedFromAnyone(b) == mode[b] = "serving"

\* PartitionElector.accept_from: the elector listens to the current epoch only.
AcceptedFrom(b) == mode[b] = "serving" /\ epoch[b] >= elector.epoch

\* MinInSyncReplicas.admit: only a write that asks for all replicas needs the floor.
Admit(acks) == acks = "all" => FloorMet

\* LeaderTransition.accept_produce.  A write of weaker acks is admitted whatever the
\* set, so the floor decides what is promised (Commit), never what the log may hold.
Produce(b) ==
  /\ mode[b] = "serving"
  /\ LogEnd(b) < MaxLog
  /\ \E acks \in {"0", "1", "all"} : Admit(acks)
  /\ log' = [log EXCEPT ![b] = Append(@, epoch[b])]
  /\ UNCHANGED <<entries, epoch, mode, watermark, elector, leader_of, setVars, crashes, promised>>

\* LeaderEpochCache.assign, for a follower that meets a new epoch in a fetched record.
Assigned(cache, e, start) ==
  IF cache = <<>> \/ Last(cache)[1] < e THEN Append(cache, <<e, start>>) ELSE cache

\* WatermarkView.refresh, and Partition.advance_watermark: a retreat is refused.
Refreshed(old, new) == IF new >= old THEN new ELSE old

(***************************************************************************)
(* One round of ReplicaFetcher.fetch: the request's offset acknowledges    *)
(* what lies below it, the response brings at most one record and the      *)
(* leader's watermark.                                                     *)
(***************************************************************************)
Fetch(b, leader) ==
  LET at == LogEnd(b)
  IN  /\ mode[b] = "fetching"
      /\ Reachable(b, leader)
      /\ at <= LogEnd(leader)
      /\ fetched' = IF leader = CurrentLeader THEN [fetched EXCEPT ![b] = at] ELSE fetched
      /\ watermark' = [watermark EXCEPT ![b] = Refreshed(@, watermark[leader])]
      /\ IF at < LogEnd(leader)
         THEN /\ log' = [log EXCEPT ![b] = Append(@, log[leader][at + 1])]
              /\ entries' = [entries EXCEPT ![b] = Assigned(@, log[leader][at + 1], at)]
         ELSE UNCHANGED <<log, entries>>
      /\ UNCHANGED <<epoch, mode, elector, leader_of, in_sync, crashes, promised>>

\* What consumers may have read once the leader b exposes offsets below `to`.
Promise(b, to) ==
  promised' = IF to > Len(promised) THEN SubSeq(log[b], 1, to) ELSE promised

\* The leader moves its watermark and reports it to the elector.
Commit(b) ==
  /\ AcceptedFrom(b)
  /\ FloorMet
  /\ InSyncMinimum(b) > watermark[b]
  /\ watermark' = [watermark EXCEPT ![b] = InSyncMinimum(b)]
  /\ elector' = [elector EXCEPT !.committed_offset = Refreshed(@, InSyncMinimum(b))]
  /\ Promise(b, InSyncMinimum(b))
  /\ UNCHANGED <<log, entries, epoch, mode, leader_of, setVars, crashes>>

EvictLaggards(b) ==
  LET laggards == {f \in in_sync \ {b} : LogEnd(b) - fetched[f] > MaxLag}
  IN  /\ AcceptedFrom(b)
      /\ laggards # {}
      /\ in_sync' = in_sync \ laggards
      /\ UNCHANGED <<brokerVars, elector, leader_of, fetched, crashes, promised>>

\* A follower that fetches at the current epoch and is within the lag is in sync again.
Readmit(f) ==
  /\ f \notin in_sync
  /\ mode[f] = "fetching"
  /\ Reachable(f, CurrentLeader)
  /\ LogEnd(CurrentLeader) - fetched[f] <= MaxLag
  /\ in_sync' = in_sync \cup {f}
  /\ UNCHANGED <<brokerVars, elector, leader_of, fetched, crashes, promised>>
----------------------------------------------------------------------------
(***************************************************************************)
(* PartitionElector.elect over the running brokers: the longest log among  *)
(* the in-sync ones that hold every committed offset; failing that, the    *)
(* longest log of all when unclean elections are allowed.  The tie by name *)
(* is left open.  The winner's replication set starts from the candidates. *)
(***************************************************************************)
Eligible == {b \in Up \cap in_sync : LogEnd(b) >= elector.committed_offset}

Voters == IF Eligible = {} /\ AllowUnclean THEN Up ELSE Eligible

Elect(winner) ==
  /\ elector.epoch < MaxEpoch
  /\ ZombieLeaders \/ mode[CurrentLeader] # "serving"
  /\ winner \in Voters
  /\ \A b \in Voters : LogEnd(b) <= LogEnd(winner)
  /\ elector' = [elector EXCEPT !.epoch = @ + 1]
  /\ leader_of' = [leader_of EXCEPT ![elector.epoch + 1] = winner]
  /\ in_sync' = (in_sync \cap Up) \cup {winner}
  /\ fetched' = [b \in Broker |-> IF b \in Up THEN LogEnd(b) ELSE 0]
  /\ UNCHANGED <<brokerVars, crashes, promised>>

\* LeaderTransition.become_leader: stop fetching, epoch, watermark, serve.
BecomeLeader(b) ==
  /\ mode[b] # "down"
  /\ CurrentLeader = b
  /\ epoch[b] < elector.epoch
  /\ epoch' = [epoch EXCEPT ![b] = elector.epoch]
  /\ mode' = [mode EXCEPT ![b] = "serving"]
  /\ entries' = [entries EXCEPT ![b] = Assigned(@, elector.epoch, LogEnd(b))]
  /\ LET start == Refreshed(watermark[b], InSyncMinimum(b))
     IN  /\ watermark' = [watermark EXCEPT ![b] = start]
         /\ elector' = [elector EXCEPT !.committed_offset = Refreshed(@, start)]
         /\ Promise(b, start)
  /\ UNCHANGED <<log, leader_of, setVars, crashes>>

\* FollowerTransition.stop_serving, when a broker learns of a newer epoch.
StopServing(b) ==
  /\ mode[b] \in {"serving", "fetching", "stopped"}
  /\ epoch[b] < elector.epoch
  /\ CurrentLeader # b
  /\ epoch' = [epoch EXCEPT ![b] = elector.epoch]
  /\ mode' = [mode EXCEPT ![b] = "stopped"]
  /\ UNCHANGED <<log, entries, watermark, elector, leader_of, setVars, crashes, promised>>

(***************************************************************************)
(* LeaderEpochCache.end_offset_for on the leader: where the epoch ended,   *)
(* or where the next larger one began; Missing below the oldest entry.     *)
(***************************************************************************)
EndOffsetFor(leader, e) ==
  LET later == {i \in DOMAIN entries[leader] : entries[leader][i][1] > e}
  IN  IF later = {} THEN LogEnd(leader) ELSE entries[leader][Min(later)][2]

KnowsEpoch(leader, e) == entries[leader] # <<>> /\ e >= Head(entries[leader])[1]

\* A plausible slip: the follower keeps what it has.
TruncationPointAtEnd(b, leader) == LogEnd(b)

\* epochfetch.truncation_point for the follower's latest epoch; the log start when the
\* leader's cache does not go back that far (the Missing of end_offset_for).
TruncationPoint(b, leader) ==
  IF entries[b] = <<>> THEN LogEnd(b)
  ELSE IF ~KnowsEpoch(leader, Last(entries[b])[1]) THEN 0
  ELSE Min({LogEnd(b), EndOffsetFor(leader, Last(entries[b])[1])})

\* A plausible slip: an epoch ends where it began.
EpochEndAtStart(b, leader, i) ==
  IF i < Len(entries[leader]) THEN entries[leader][i][2] ELSE LogEnd(b)

\* RecoveryPlan._epoch_end, from the leader's markers and the local end.
EpochEnd(b, leader, i) ==
  IF i < Len(entries[leader]) THEN entries[leader][i + 1][2] ELSE LogEnd(b)

(***************************************************************************)
(* RecoveryPlan.diverge_point and recover: walk the local markers while    *)
(* the leader has the same epoch at the same start.                        *)
(***************************************************************************)
AgreedMarkers(b, leader) ==
  {n \in DOMAIN entries[b] :
     \A i \in 1 .. n : \E j \in DOMAIN entries[leader] : entries[leader][j] = entries[b][i]}

DivergePoint(b, leader) ==
  IF AgreedMarkers(b, leader) = {} THEN 0
  ELSE LET n == Max(AgreedMarkers(b, leader))
           j == CHOOSE j \in DOMAIN entries[leader] : entries[leader][j] = entries[b][n]
       IN  EpochEnd(b, leader, j)

\* A plausible slip: a restarted broker trusts its own log.
RecoverToOwnEnd(b, leader) == LogEnd(b)

RecoverTo(b, leader) == Min({DivergePoint(b, leader), LogEnd(leader), LogEnd(b)})

\* LeaderEpochCache.truncate_from: the entries that start below `to`.  Starts never fall
\* along a cache, so these are the first ones.
KeptBelow(cache, to) ==
  SubSeq(cache, 1, Max({0} \cup {i \in DOMAIN cache : cache[i][2] < to}))

\* FollowerTransition.truncate with LeaderEpochCache.truncate_from, then start_fetching.
TruncateTo(b, to) ==
  /\ log' = [log EXCEPT ![b] = SubSeq(@, 1, to)]
  /\ entries' = [entries EXCEPT ![b] = KeptBelow(@, to)]
  /\ mode' = [mode EXCEPT ![b] = "fetching"]
  /\ UNCHANGED <<watermark, elector, leader_of, setVars, crashes, promised>>

\* The epoch handshake of a running follower, before it fetches at the new epoch.
Reconcile(b, leader) ==
  /\ mode[b] = "stopped"
  /\ Reachable(b, leader)
  /\ TruncateTo(b, TruncationPoint(b, leader))
  /\ UNCHANGED epoch

\* A restarted broker recovers against the current leader before it fetches.
Recover(b, leader) ==
  /\ mode[b] = "recovering"
  /\ leader = CurrentLeader /\ leader # b
  /\ mode[leader] = "serving" /\ epoch[leader] = elector.epoch
  /\ TruncateTo(b, RecoverTo(b, leader))
  /\ epoch' = [epoch EXCEPT ![b] = elector.epoch]

Crash(b) ==
  /\ crashes < MaxCrashes
  /\ mode[b] # "down"
  /\ mode' = [mode EXCEPT ![b] = "down"]
  /\ crashes' = crashes + 1
  /\ UNCHANGED <<log, entries, epoch, watermark, elector, leader_of, setVars, promised>>

Restart(b) ==
  /\ mode[b] = "down"
  /\ mode' = [mode EXCEPT ![b] = "recovering"]
  /\ UNCHANGED <<log, entries, epoch, watermark, elector, leader_of, setVars, crashes, promised>>

Next ==
  \E b \in Broker :
    \/ Produce(b) \/ Commit(b) \/ EvictLaggards(b) \/ Readmit(b)
    \/ Elect(b) \/ BecomeLeader(b) \/ StopServing(b)
    \/ Crash(b) \/ Restart(b)
    \/ \E leader \in Broker \ {b} :
         Fetch(b, leader) \/ Reconcile(b, leader) \/ Recover(b, leader)

Spec == Init /\ [][Next]_vars
----------------------------------------------------------------------------
Epoch == 1 .. MaxEpoch

\* Logs, epoch caches, watermarks and the elector keep their types.
TypeOK ==
  /\ \A b \in Broker : /\ LogEnd(b) <= MaxLog
                       /\ \A i \in DOMAIN log[b] : log[b][i] \in Epoch
                       /\ \A i \in DOMAIN entries[b] : entries[b][i] \in Epoch \X (0 .. MaxLog)
  /\ epoch \in [Broker -> Epoch]
  /\ mode \in [Broker -> {"serving", "fetching", "stopped", "recovering", "down"}]
  /\ watermark \in [Broker -> 0 .. MaxLog]
  /\ elector \in [epoch : Epoch, committed_offset : 0 .. MaxLog]
  /\ leader_of \in [Epoch -> Broker \cup {None}]
  /\ in_sync \subseteq Broker
  /\ fetched \in [Broker -> 0 .. MaxLog]

(***************************************************************************)
(* "The new leader must hold every committed record the old leader         *)
(* served": the leader of the elector's epoch has every promised record    *)
(* from the moment it serves.                                              *)
(***************************************************************************)
LeaderHasPromises ==
  mode[CurrentLeader] = "serving" /\ epoch[CurrentLeader] = elector.epoch =>
    IsPrefix(promised, log[CurrentLeader])

(***************************************************************************)
(* Whichever replica a consumer reads from, deposed leaders included, what *)
(* lies below the exposed watermark is what was promised at that offset.   *)
(***************************************************************************)
ReadsAgree ==
  \A b \in Broker :
    IsPrefix(SubSeq(log[b], 1, Min({watermark[b], LogEnd(b)})), promised)

(***************************************************************************)
(* A follower that fetches from a leader holds a prefix of its log: "its   *)
(* log now a strict prefix of the leader's" after the handshake.           *)
(***************************************************************************)
FollowerIsPrefix ==
  \A b, leader \in Broker :
    mode[b] = "fetching" /\ b # leader /\ Reachable(b, leader) =>
      IsPrefix(log[b], log[leader])

(***************************************************************************)
(* The epoch cache describes the log: each record's epoch is the one of    *)
(* the last entry that starts at or before it.                             *)
(***************************************************************************)
EpochOf(cache, offset) ==
  Max({cache[i][1] : i \in {j \in DOMAIN cache : cache[j][2] <= offset}})

CacheDescribesLog ==
  \A b \in Broker : \A i \in DOMAIN log[b] :
    /\ \E j \in DOMAIN entries[b] : entries[b][j][2] <= i - 1
    /\ EpochOf(entries[b], i - 1) = log[b][i]

(***************************************************************************)
(* Truncation discards unpromised records only: no reconciliation cuts a   *)
(* log below the watermark its broker has exposed.                         *)
(***************************************************************************)
TruncationSparesPromised ==
  [][ \A b \in Broker :
        Len(log'[b]) < LogEnd(b) => Len(log'[b]) >= Min({watermark[b], LogEnd(b)}) ]_vars
=============================================================================
