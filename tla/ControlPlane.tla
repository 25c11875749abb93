--------------------------- MODULE ControlPlane ---------------------------
(***************************************************************************)
(* The cluster's control plane.  Three objects, told apart by obj.class:   *)
(*                                                                         *)
(*  "leadership"  one partition whose brokers register, beat, lapse, shut  *)
(*                down and are elected (cluster, brokerid,                 *)
(*                controlledshutdown, offlinepartition, uncleanleader,     *)
(*                preferredleader, leaderstickiness);                      *)
(*  "metadata"    leader changes on their way from the controller to a     *)
(*                broker's view and a client's cache (controller,          *)
(*                metadatadelta, metadatacache, metadatabootstrap);        *)
(*  "upkeep"      rolling restart, decommission and feature flags          *)
(*                (rollingrestart, unregisterbroker, featureflags).        *)
(***************************************************************************)
EXTENDS Naturals, Integers, Sequences, SequencesExt, FiniteSets, FiniteSetsExt

CONSTANTS
  FenceAfter,   \* ClusterMembership.fence_after, ticks
  HoldDown,     \* LeaderStickiness.hold_down, ticks
  MaxEnd,       \* bound: log end of a replica
  MaxVersion    \* bound: metadata version

VARIABLE obj

BROKERS   == 1..3
PREFERRED == 1          \* the partition's preferred leader
NOBODY    == 0

(***************************************************************************)
(* Leadership.  up: the process runs; fenced and quiet (ticks since the    *)
(* last heartbeat) are the controller's view of it.  held is the time the  *)
(* preferred broker has been in sync, -1 when it is not.  lost is the most *)
(* committed records any unclean election gave up.                         *)
(***************************************************************************)
LeadershipInit ==
  \E unclean \in BOOLEAN :
    obj = [class |-> "leadership", allow_unclean |-> unclean,
           up |-> BROKERS, fenced |-> {}, quiet |-> [b \in BROKERS |-> 0],
           leader |-> PREFERRED, in_sync |-> BROKERS, end |-> [b \in BROKERS |-> 0],
           committed |-> 0, lost |-> 0, held |-> 0]

\* What consumers may see: held by every in-sync replica.
Committed(o, in_sync, end) == Max({o.committed, Min({end[b] : b \in in_sync})})

Serving(o) == o.leader # NOBODY /\ o.leader \in o.up

Produce ==
  /\ obj.class = "leadership" /\ Serving(obj) /\ obj.end[obj.leader] < MaxEnd
  /\ LET end == [obj.end EXCEPT ![obj.leader] = @ + 1]
     IN  obj' = [obj EXCEPT !.end = end, !.committed = Committed(obj, obj.in_sync, end)]

\* became_in_sync and dropped_out of the preferred broker's timer
Held(o, in_sync) ==
  IF PREFERRED \notin in_sync THEN -1 ELSE IF o.held < 0 THEN 0 ELSE o.held

\* A follower fetches (cutting what the leader lacks) and rejoins when level.
Catch(b) ==
  /\ obj.class = "leadership" /\ Serving(obj) /\ b \in obj.up \ {obj.leader}
  /\ LET at   == Min({obj.end[b] + 1, obj.end[obj.leader]})
         end  == [obj.end EXCEPT ![b] = at]
         sync == IF at = end[obj.leader] THEN obj.in_sync \cup {b} ELSE obj.in_sync
     IN  /\ end # obj.end \/ sync # obj.in_sync
         /\ obj' = [obj EXCEPT !.end = end, !.in_sync = sync, !.held = Held(obj, sync),
                               !.committed = Committed(obj, sync, end)]

DropOut(b) ==
  /\ obj.class = "leadership" /\ Serving(obj) /\ b \in obj.in_sync \ {obj.leader}
  /\ LET sync == obj.in_sync \ {b}
     IN  obj' = [obj EXCEPT !.in_sync = sync, !.held = Held(obj, sync),
                            !.committed = Committed(obj, sync, obj.end)]

Die(b) ==
  /\ obj.class = "leadership" /\ b \in obj.up
  /\ obj' = [obj EXCEPT !.up = @ \ {b}]

\* ClusterMembership.heartbeat: refused to a fenced broker
Heartbeat(b) ==
  /\ obj.class = "leadership" /\ b \in obj.up \ obj.fenced /\ obj.quiet[b] > 0
  /\ obj' = [obj EXCEPT !.quiet[b] = 0]

LeadershipTick ==
  /\ obj.class = "leadership"
  /\ \E b \in BROKERS : obj.quiet[b] <= FenceAfter
  /\ obj' = [obj EXCEPT !.quiet = [b \in BROKERS |-> Min({@[b] + 1, FenceAfter + 1})],
                        !.held = IF @ < 0 THEN @ ELSE Min({@ + 1, HoldDown})]

FenceLapsed ==
  /\ obj.class = "leadership"
  /\ LET lapsed == {b \in BROKERS \ obj.fenced : obj.quiet[b] > FenceAfter}
     IN  lapsed # {} /\ obj' = [obj EXCEPT !.fenced = @ \cup lapsed]

\* BrokerRegistry.register (a new incarnation waits until the old one has
\* lapsed) and ClusterMembership.register
Register(b) ==
  /\ obj.class = "leadership" /\ b \in obj.fenced
  /\ obj' = [obj EXCEPT !.up = @ \cup {b}, !.fenced = @ \ {b}, !.quiet[b] = 0]

Available(o) == o.up \ o.fenced

Longest(o, candidates) ==
  CHOOSE b \in candidates : \A c \in candidates :
    o.end[b] > o.end[c] \/ (o.end[b] = o.end[c] /\ b <= c)

\* A plausible slip: any available replica will do, in sync or not.
CandidatesAny(o) == Available(o)

\* PartitionAvailability.leader, UncleanLeaderElection.elect: the in-sync
\* ones, and all the available ones only where unclean elections are allowed
Candidates(o) ==
  IF Available(o) \cap o.in_sync # {} THEN Available(o) \cap o.in_sync
  ELSE IF o.allow_unclean THEN Available(o) ELSE {}

\* loss_window
Loss(o, b) == Max({0, o.committed - o.end[b]})

\* The controller replaces a leader that has been fenced.
Elect ==
  /\ obj.class = "leadership" /\ obj.leader \in obj.fenced \cup {NOBODY}
  /\ IF Candidates(obj) = {}
     THEN obj.leader # NOBODY /\ obj' = [obj EXCEPT !.leader = NOBODY]
     ELSE LET b    == Longest(obj, Candidates(obj))
              sync == IF b \in obj.in_sync THEN obj.in_sync \cap Available(obj) ELSE {b}
          IN  obj' = [obj EXCEPT !.leader = b, !.in_sync = sync, !.held = Held(obj, sync),
                        !.lost = IF b \in obj.in_sync THEN @ ELSE Max({@, Loss(obj, b)}),
                        !.committed = IF b \in obj.in_sync THEN @ ELSE Min({@, obj.end[b]})]

\* ControlledShutdown.plan and ShutdownPlan.execute: hand over, then leave;
\* a broker that is the only one in sync is blocked
ShutDownCleanly(b) ==
  /\ obj.class = "leadership" /\ b \in Available(obj)
  /\ LET targets == (obj.in_sync \cap Available(obj)) \ {b}
     IN  IF obj.leader # b
         THEN obj' = [obj EXCEPT !.up = @ \ {b}]
         ELSE /\ targets # {}
              /\ LET sync == obj.in_sync \ {b}
                 IN  obj' = [obj EXCEPT !.leader = Longest(obj, targets), !.up = @ \ {b},
                               !.in_sync = sync, !.held = Held(obj, sync),
                               !.committed = Committed(obj, sync, obj.end)]

\* LeadershipBalance.restore, once LeaderStickiness.reclaim lets it
Restore ==
  /\ obj.class = "leadership" /\ obj.leader \notin {PREFERRED, NOBODY}
  /\ PREFERRED \in obj.in_sync \cap Available(obj) /\ obj.held >= HoldDown
  /\ obj' = [obj EXCEPT !.leader = PREFERRED]

LeadershipNext ==
  \/ Produce \/ LeadershipTick \/ FenceLapsed \/ Elect \/ Restore
  \/ \E b \in BROKERS :
       Catch(b) \/ DropOut(b) \/ Die(b) \/ Heartbeat(b) \/ Register(b) \/ ShutDownCleanly(b)

(***************************************************************************)
(* However leadership moves (a lapse, a clean shutdown, a return to the    *)
(* preferred broker), the leader holds every committed record; only an     *)
(* election the operator allowed to be unclean loses any, and it says how  *)
(* many.  A partition without unclean elections never loses one.           *)
(***************************************************************************)
LeaderKeepsCommitted ==
  obj.class = "leadership" =>
    /\ obj.leader # NOBODY => obj.end[obj.leader] >= obj.committed
    /\ ~ obj.allow_unclean => obj.lost = 0
    /\ obj.leader # NOBODY => obj.leader \in obj.in_sync

-----------------------------------------------------------------------------
(***************************************************************************)
(* Metadata.  history[v + 1] is the map of leaders at version v; update v  *)
(* reaches the broker as delta v (in any order, repeated, or never) or in  *)
(* a full image.  The client learns from the broker's answers only.        *)
(***************************************************************************)
PARTITIONS == 1..2

MetadataInit ==
  obj = [class |-> "metadata", controller_epoch |-> 1, history |-> << [p \in PARTITIONS |-> 1] >>,
         applied_seq |-> -1, view |-> [p \in PARTITIONS |-> 0], needs_resync |-> FALSE,
         fetched |-> FALSE, version |-> 0, cached |-> [p \in PARTITIONS |-> 0],
         since |-> [p \in PARTITIONS |-> 0]]

Version(o) == Len(o.history) - 1

\* Controller.update_leader: an older controller's epoch is fenced
UpdateLeader(epoch, p, b) ==
  /\ obj.class = "metadata" /\ Version(obj) < MaxVersion
  /\ epoch >= obj.controller_epoch
  /\ Last(obj.history)[p] # b
  /\ obj' = [obj EXCEPT !.history = Append(@, [Last(@) EXCEPT ![p] = b])]

TakeOver ==
  /\ obj.class = "metadata" /\ obj.controller_epoch < 2
  /\ obj' = [obj EXCEPT !.controller_epoch = @ + 1]

\* MetadataApplier.full_image
FullImage(seq) ==
  /\ obj.class = "metadata" /\ seq \in 0..Version(obj)
  /\ obj' = [obj EXCEPT !.applied_seq = seq, !.view = obj.history[seq + 1],
                        !.needs_resync = FALSE]

\* What delta seq says: the one partition whose leader changed.
Changed(o, seq) == CHOOSE p \in PARTITIONS : o.history[seq + 1][p] # o.history[seq][p]

InSequence(o, seq) == seq = o.applied_seq + 1

\* MetadataApplier.apply_delta: a repeat or an old delta changes nothing, a
\* gap asks for a resync
ApplyDelta(seq) ==
  /\ obj.class = "metadata" /\ seq \in 1..Version(obj) /\ seq > obj.applied_seq
  /\ obj' = IF InSequence(obj, seq)
            THEN LET p == Changed(obj, seq)
                 IN  [obj EXCEPT !.applied_seq = seq, !.view[p] = obj.history[seq + 1][p]]
            ELSE [obj EXCEPT !.needs_resync = TRUE]

\* Bootstrapper.fetch_metadata, then MetadataCache.install of the broker's view
Bootstrap ==
  /\ obj.class = "metadata" /\ ~ obj.fetched /\ obj.applied_seq >= 0
  /\ obj' = [obj EXCEPT !.fetched = TRUE, !.version = obj.applied_seq, !.cached = obj.view,
                        !.since = [p \in PARTITIONS |-> obj.applied_seq]]

\* MetadataCache.on_not_leader: one partition corrected; the rest keep their leaders
\* under the new version.  install refuses a version older than the cached one.
OnNotLeader(p) ==
  /\ obj.class = "metadata" /\ obj.fetched
  /\ obj.cached[p] # obj.view[p] /\ obj.applied_seq >= obj.version
  /\ obj' = [obj EXCEPT !.version = obj.applied_seq, !.cached[p] = obj.view[p],
                        !.since[p] = obj.applied_seq]

\* MetadataCache.on_newer_version_seen: everything replaced, if newer
OnNewerVersionSeen ==
  /\ obj.class = "metadata" /\ obj.fetched /\ obj.applied_seq > obj.version
  /\ obj' = [obj EXCEPT !.version = obj.applied_seq, !.cached = obj.view,
                        !.since = [p \in PARTITIONS |-> obj.applied_seq]]

MetadataNext ==
  \/ TakeOver \/ Bootstrap \/ OnNewerVersionSeen
  \/ \E epoch \in 1..2, p \in PARTITIONS, b \in BROKERS : UpdateLeader(epoch, p, b)
  \/ \E seq \in 0..MaxVersion : FullImage(seq) \/ ApplyDelta(seq)
  \/ \E p \in PARTITIONS : OnNotLeader(p)

(***************************************************************************)
(* A broker's view is always the cluster at one version, never a blend of  *)
(* two, whatever deltas were lost, repeated or overtaken.  A client's      *)
(* cache may blend versions (it corrects one partition at a time), but     *)
(* each entry is a leader its partition had when the entry was learnt, and *)
(* one of that age or newer is never replaced by an older one.             *)
(***************************************************************************)
ViewsAreVersions ==
  obj.class = "metadata" =>
    /\ obj.applied_seq >= 0 => obj.view = obj.history[obj.applied_seq + 1]
    /\ obj.fetched => \A p \in PARTITIONS :
         /\ obj.cached[p] = obj.history[obj.since[p] + 1][p]
         /\ obj.since[p] <= obj.version

-----------------------------------------------------------------------------
(***************************************************************************)
(* Upkeep of a cluster whose partition p has its replicas on the brokers   *)
(* other than p, until the one on broker 3 is rehomed to broker p.  isr is *)
(* the true in-sync set, under_replicated what the restart has been told;  *)
(* leads and hosts are what broker 3, which is being decommissioned, still *)
(* has; level is each broker's software version, the feature needing 2.    *)
(***************************************************************************)
HOSTED == 1..2

UpkeepInit ==
  obj = [class |-> "upkeep", down |-> {}, restarted |-> {},
         isr |-> [p \in HOSTED |-> BROKERS \ {p}], under_replicated |-> {},
         leads |-> {1}, hosts |-> HOSTED, gone |-> FALSE,
         level |-> [b \in BROKERS |-> 1], enabled |-> FALSE, unreconciled |-> FALSE]

Replicas(o, p) == IF p \in o.hosts THEN BROKERS \ {p} ELSE BROKERS \ {3}

Members(o) == IF o.gone THEN BROKERS \ {3} ELSE BROKERS

MayRestart(o) == o.under_replicated = {}

\* RollingRestart.restart; the caller marks the partitions it leaves short.
\* The broker comes back with the next software version.
Restart(b) ==
  /\ obj.class = "upkeep" /\ b \in Members(obj) \ obj.restarted /\ MayRestart(obj)
  /\ LET short == {p \in HOSTED : b \in obj.isr[p]}
     IN  obj' = [obj EXCEPT !.down = @ \cup {b}, !.restarted = @ \cup {b},
                            !.isr = [p \in HOSTED |-> @[p] \ {b}],
                            !.under_replicated = @ \cup short]

Return(b) ==
  /\ obj.class = "upkeep" /\ b \in obj.down
  /\ obj' = [obj EXCEPT !.down = @ \ {b}, !.level[b] = 2]

\* A replica that is back is level again: RollingRestart.catch_up
CatchUp(p) ==
  /\ obj.class = "upkeep" /\ obj.down = {} /\ p \in obj.under_replicated
  /\ obj' = [obj EXCEPT !.under_replicated = @ \ {p},
                        !.isr[p] = Replicas(obj, p)]

LeadershipMoved(p) ==
  /\ obj.class = "upkeep" /\ p \in obj.leads
  /\ obj' = [obj EXCEPT !.leads = @ \ {p}]

\* The replica of p that broker 3 held is level on broker p.
ReplicaRehomed(p) ==
  /\ obj.class = "upkeep" /\ p \in obj.hosts \ obj.leads /\ p \notin obj.down
  /\ obj' = [obj EXCEPT !.hosts = @ \ {p}, !.isr[p] = (@ \ {3}) \cup {p}]

\* Decommission.unregister
Unregister ==
  /\ obj.class = "upkeep" /\ ~ obj.gone /\ obj.leads = {} /\ obj.hosts = {}
  /\ obj' = [obj EXCEPT !.gone = TRUE, !.down = @ \ {3}]

\* FeatureGate.laggard_for
Laggards(o) == {b \in Members(o) : o.level[b] < 2}

Enable ==
  /\ obj.class = "upkeep" /\ ~ obj.enabled /\ Laggards(obj) = {}
  /\ obj' = [obj EXCEPT !.enabled = TRUE]

\* A broker is put back to the old version.
Downgrade(b) ==
  /\ obj.class = "upkeep" /\ obj.level[b] = 2 /\ b \in Members(obj)
  /\ obj' = [obj EXCEPT !.level[b] = 1, !.unreconciled = TRUE]

\* FeatureGate.reconcile
Reconcile ==
  /\ obj.class = "upkeep" /\ obj.unreconciled
  /\ obj' = [obj EXCEPT !.enabled = @ /\ Laggards(obj) = {}, !.unreconciled = FALSE]

UpkeepNext ==
  \/ Unregister \/ Enable \/ Reconcile
  \/ \E b \in BROKERS : Restart(b) \/ Return(b) \/ Downgrade(b)
  \/ \E p \in HOSTED : CatchUp(p) \/ LeadershipMoved(p) \/ ReplicaRehomed(p)

(***************************************************************************)
(* A rolling restart mixed with a decommission never takes the last        *)
(* in-sync replica of a partition, the departed broker holds nothing, and  *)
(* a feature is on only where every member knows it (or a downgrade has    *)
(* not been reconciled yet).                                               *)
(***************************************************************************)
UpkeepKeepsService ==
  obj.class = "upkeep" =>
    /\ \A p \in HOSTED : obj.isr[p] # {}
    /\ obj.gone => \A p \in HOSTED : 3 \notin obj.isr[p]
    /\ obj.enabled /\ ~ obj.unreconciled => Laggards(obj) = {}

-----------------------------------------------------------------------------
Init == LeadershipInit \/ MetadataInit \/ UpkeepInit

Next == LeadershipNext \/ MetadataNext \/ UpkeepNext

(***************************************************************************)
(* The control plane keeps partitions served by brokers that hold what was *)
(* promised, and everybody's idea of the cluster is one it once had.       *)
(***************************************************************************)
ControlIsSafe == LeaderKeepsCommitted /\ ViewsAreVersions /\ UpkeepKeepsService
=============================================================================
