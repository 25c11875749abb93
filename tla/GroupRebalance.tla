--------------------------- MODULE GroupRebalance ---------------------------
(***************************************************************************)
(* A consumer group that rebalances eagerly: the coordinator's states and  *)
(* generation (groupstate.py, groupgeneration.py), the join and the sync   *)
(* phase (joingroup.py, syncgroup.py, groupmaxsize.py), the leader's plan  *)
(* (rebalance.py), the members the coordinator believes alive (maxpoll.py, *)
(* heartbeatsignal.py), the revoke callbacks and the close of a consumer   *)
(* (rebalancelistener.py, consumerclose.py), and the offset store, which a *)
(* coordinator that takes over replays before it serves (offsetstore.py,   *)
(* coordinatorload.py, groupcoordinatorload.py).                           *)
(*                                                                         *)
(* Clocks are left out: a member may miss any deadline, and a crashed one  *)
(* is missed sooner or later.  A member the coordinator gave up goes on    *)
(* consuming until it hears of it.                                         *)
(***************************************************************************)
EXTENDS Naturals, Sequences, SequencesExt, FiniteSetsExt

CONSTANTS
  Member,         \* numbers: sticky_assign sorts the names
  Partition,      \* numbers
  StandbyMargin,  \* GroupSizeLimiter.standby_margin
  LogEnd,         \* bound: records in each partition
  MaxFaults       \* bound: crashes, closes, missed deadlines and coordinator moves

ASSUME GroupRebalanceAssumption ==
  /\ Member \subseteq Nat /\ Partition \subseteq Nat
  /\ Partition # {} /\ IsFiniteSet(Partition)
  /\ StandbyMargin \in Nat /\ LogEnd \in Nat /\ MaxFaults \in Nat

VARIABLES
  state,        \* GroupStateMachine.state
  generation,   \* GroupStateMachine.generation
  live,         \* ProgressTracker: registered and not evicted
  joined,       \* JoinPhase.members, in order
  submitted,    \* SyncPhase.submitted
  assignment,   \* SyncPhase.assignment, the last one submitted
  synced,       \* members that were handed their slice
  store,        \* the offset store's log: [partition, offset]
  replayed_to,  \* how much of it the coordinator has replayed
  client,       \* each member's own view: out, joined, owner, revoking, crashed, closed
  gen,          \* the generation it joined
  owned,        \* RebalanceListener.owned
  position,     \* ConsumerClose.position, per partition
  processed,    \* history: the offsets of a partition somebody processed
  faults

coordVars  == <<state, generation, live, joined, submitted, assignment, synced>>
storeVars  == <<store, replayed_to>>
clientVars == <<client, gen, owned, position>>
vars       == <<coordVars, storeVars, clientVars, processed, faults>>

Init ==
  /\ state = "Empty"
  /\ generation = 0
  /\ live = {}
  /\ joined = <<>>
  /\ submitted = FALSE
  /\ assignment = [m \in Member |-> {}]
  /\ synced = {}
  /\ store = <<>>
  /\ replayed_to = 0
  /\ client = [m \in Member |-> "out"]
  /\ gen = [m \in Member |-> 0]
  /\ owned = [m \in Member |-> {}]
  /\ position = [m \in Member |-> [p \in Partition |-> 0]]
  /\ processed = [p \in Partition |-> {}]
  /\ faults = 0

JoinedSet == Range(joined)

\* A plausible slip: a coordinator serves from the moment it takes over.
LoadedAtOnce == TRUE

\* CoordinatorLoad.is_loaded, and serve: nothing is answered before.
Loaded == replayed_to >= Len(store)

\* OffsetStore.fetch on what has been replayed; no commit is offset 0.
Committed(p) ==
  LET mine == {i \in 1 .. replayed_to : store[i].partition = p}
  IN  IF mine = {} THEN 0 ELSE store[Max(mine)].offset

Fault == faults < MaxFaults /\ faults' = faults + 1

\* Entering PreparingRebalance: a new generation, a new JoinPhase.
Prepare(first) ==
  /\ state' = "PreparingRebalance"
  /\ generation' = generation + 1
  /\ joined' = first
  /\ submitted' = FALSE
  /\ synced' = {}
  /\ UNCHANGED assignment
----------------------------------------------------------------------------
\* GroupSizeLimiter.join: a group at its cap refuses a new member.
Cap == Cardinality(Partition) + StandbyMargin

MayJoin(m) == m \in live \/ Cardinality(live) < Cap

\* A member that is out, or waits in a generation that is over, joins.
WantsIn(m) == client[m] = "out" \/ (client[m] = "joined" /\ gen[m] < generation)

(***************************************************************************)
(* JoinPhase.join: the first member opens the phase, later ones add to it; *)
(* after the window closed a member waits for the next generation.         *)
(***************************************************************************)
Join(m) ==
  /\ Loaded
  /\ WantsIn(m)
  /\ MayJoin(m)
  /\ \/ /\ state \in {"Empty", "Stable"}
        /\ Prepare(<<m>>)
     \/ /\ state = "PreparingRebalance"
        /\ joined' = IF m \in JoinedSet THEN joined ELSE Append(joined, m)
        /\ UNCHANGED <<state, generation, submitted, assignment, synced>>
  /\ live' = live \cup {m}
  /\ client' = [client EXCEPT ![m] = "joined"]
  /\ gen' = [gen EXCEPT ![m] = generation']
  /\ UNCHANGED <<storeVars, owned, position, processed, faults>>

\* Members the window would be closed on: they run, they may join, they have not.
Awaited == {m \in Member \ JoinedSet : client[m] \in {"out", "joined", "owner", "revoking"}
                                       /\ MayJoin(m)}

\* JoinPhase.close_window; a window nobody came to ends in Empty.
CloseWindow ==
  /\ Loaded
  /\ state = "PreparingRebalance"
  /\ IF Awaited = {} THEN UNCHANGED faults ELSE joined # <<>> /\ Fault
  /\ state' = IF joined = <<>> THEN "Empty" ELSE "CompletingRebalance"
  /\ live' = live \cap JoinedSet
  /\ UNCHANGED <<generation, joined, submitted, assignment, synced, storeVars,
                 clientVars, processed>>

(***************************************************************************)
(* sticky_assign: members in order get ceil or floor of the fair share,    *)
(* each keeps its first partitions up to that, and the rest go one by one  *)
(* to the member furthest below its share.                                 *)
(***************************************************************************)
TargetIn(members, m) ==
  LET n     == Cardinality(members)
      index == Cardinality({o \in members : o < m})
  IN  Cardinality(Partition) \div n
        + (IF index < Cardinality(Partition) % n THEN 1 ELSE 0)

\* A plausible slip: a member keeps all it had.
KeptWhole(members, m, previous) == previous[m]

KeptBy(members, m, previous) ==
  {p \in previous[m] : Cardinality({q \in previous[m] : q < p}) < TargetIn(members, m)}

Neediest(members, result) ==
  CHOOSE m \in members : \A o \in members \ {m} :
    LET gapM == Cardinality(result[m]) + TargetIn(members, o)
        gapO == Cardinality(result[o]) + TargetIn(members, m)
    IN  gapM < gapO \/ (gapM = gapO /\ m < o)

\* The least partition nobody has yet goes to the neediest member.
Place(members, result) ==
  [result EXCEPT ![Neediest(members, result)] =
     @ \cup {Min(Partition \ UNION Range(result))}]

StickyAssign(members, previous) ==
  LET kept    == [m \in members |-> KeptBy(members, m, previous)]
      missing == Cardinality(Partition \ UNION Range(kept))
      placed[i \in 0 .. missing] ==
        IF i = 0 THEN kept ELSE Place(members, placed[i - 1])
  IN  [m \in Member |-> IF m \in members THEN placed[missing][m] ELSE {}]

\* SyncPhase.submit: the leader only, a plan for exactly the members that joined, and
\* none that gives one partition to two of them.
NoOverlap(plan) == \A m, n \in Member : m # n => plan[m] \cap plan[n] = {}

Submit(m) ==
  /\ Loaded
  /\ state = "CompletingRebalance"
  /\ client[m] = "joined" /\ gen[m] = generation
  /\ m = Head(joined)
  /\ ~submitted
  /\ submitted' = TRUE
  /\ assignment' = StickyAssign(JoinedSet, assignment)
  /\ NoOverlap(assignment')
  /\ UNCHANGED <<state, generation, live, joined, synced, storeVars, clientVars,
                 processed, faults>>

\* SyncPhase.slice_for, then on_assign: the consumer seeks to the committed offsets.
\* The last one makes the group Stable.
Sync(m) ==
  /\ Loaded
  /\ state = "CompletingRebalance"
  /\ submitted
  /\ client[m] = "joined" /\ gen[m] = generation
  /\ m \in JoinedSet
  /\ synced' = synced \cup {m}
  /\ state' = IF JoinedSet \subseteq synced' THEN "Stable" ELSE state
  /\ client' = [client EXCEPT ![m] = "owner"]
  /\ owned' = [owned EXCEPT ![m] = @ \cup assignment[m]]
  /\ position' = [position EXCEPT ![m] = [p \in Partition |-> Committed(p)]]
  /\ UNCHANGED <<generation, live, joined, submitted, assignment, storeVars, gen,
                 processed, faults>>
----------------------------------------------------------------------------
Process(m, p) ==
  /\ client[m] = "owner"
  /\ p \in owned[m]
  /\ position[m][p] < LogEnd
  /\ position' = [position EXCEPT ![m][p] = @ + 1]
  /\ processed' = [processed EXCEPT ![p] = @ \cup {position[m][p]}]
  /\ UNCHANGED <<coordVars, storeVars, client, gen, owned, faults>>

\* A plausible slip: the group's state is checked and the member's standing is not.
AdmittedWhenStable(m) == Loaded /\ state = "Stable"

\* GroupStateMachine.commit and GroupGeneration.admit: Stable, and this generation only.
Admitted(m) == Loaded /\ state = "Stable" /\ m \in live /\ gen[m] = generation

\* OffsetStore.commit refuses to go back; one that would not move is not sent.
Advances(m, p) == position[m][p] > Committed(p)

\* The commit records of partitions ps, one each, appended to the store the coordinator
\* serves from.
Records(m, ps) ==
  [i \in 1 .. Cardinality(ps) |->
     [partition |-> SetToSeq(ps)[i], offset |-> position[m][SetToSeq(ps)[i]]]]

Store(m, ps) ==
  /\ store' = store \o Records(m, ps)
  /\ replayed_to' = Len(store')

Commit(m, p) ==
  /\ client[m] \in {"owner", "revoking"}
  /\ p \in owned[m]
  /\ Admitted(m)
  /\ Advances(m, p)
  /\ Store(m, {p})
  /\ UNCHANGED <<coordVars, clientVars, processed, faults>>

\* A plausible slip: only a member that was given up is told anything.
HeartbeatToStrangers(m) ==
  /\ Loaded
  /\ client[m] = "owner"
  /\ m \notin live
  /\ client' = [client EXCEPT ![m] = "revoking"]
  /\ UNCHANGED <<coordVars, storeVars, gen, owned, position, processed, faults>>

\* HeartbeatCoordinator.heartbeat answers unknown, fenced or rebalance: on-revoke begins.
Heartbeat(m) ==
  /\ Loaded
  /\ client[m] = "owner"
  /\ m \notin live \/ gen[m] < generation \/ state = "PreparingRebalance"
  /\ client' = [client EXCEPT ![m] = "revoking"]
  /\ UNCHANGED <<coordVars, storeVars, gen, owned, position, processed, faults>>

\* complete_revoke (after revoke_threw as well): whatever was not committed is let go.
CompleteRevoke(m) ==
  /\ client[m] = "revoking"
  /\ client' = [client EXCEPT ![m] = "out"]
  /\ owned' = [owned EXCEPT ![m] = {}]
  /\ UNCHANGED <<coordVars, storeVars, gen, position, processed, faults>>

\* The coordinator loses a member: a group that was settled, or settling, starts over.
Depart(m) ==
  /\ live' = live \ {m}
  /\ IF m \in live /\ state \in {"Stable", "CompletingRebalance"} THEN Prepare(<<>>)
     ELSE UNCHANGED <<state, generation, joined, submitted, assignment, synced>>

(***************************************************************************)
(* A member lost during the join phase stays in JoinPhase.members, and     *)
(* PreparingRebalance has no edge to itself: the group starts over as soon *)
(* as GroupStateMachine lets it.                                           *)
(***************************************************************************)
StartOver ==
  /\ Loaded
  /\ state \in {"Stable", "CompletingRebalance"}
  /\ ~(JoinedSet \subseteq live)
  /\ Prepare(<<>>)
  /\ UNCHANGED <<live, storeVars, clientVars, processed, faults>>

\* ConsumerClose.close: the final offsets are sent, whether the coordinator takes them or
\* not, then the member leaves.
Close(m) ==
  /\ Loaded
  /\ client[m] \in {"joined", "owner", "revoking"}
  /\ Fault
  /\ IF Admitted(m) THEN Store(m, {p \in owned[m] : Advances(m, p)}) ELSE UNCHANGED storeVars
  /\ Depart(m)
  /\ client' = [client EXCEPT ![m] = "closed"]
  /\ owned' = [owned EXCEPT ![m] = {}]
  /\ UNCHANGED <<gen, position, processed>>

\* ProgressTracker.sweep: no heartbeat (crashed, or only slow), or no poll in time.
Evict(m) ==
  /\ Loaded
  /\ m \in live
  /\ IF client[m] \in {"owner", "joined"} /\ gen[m] = generation
     THEN Fault ELSE UNCHANGED faults
  /\ Depart(m)
  /\ UNCHANGED <<storeVars, clientVars, processed>>

Crash(m) ==
  /\ client[m] \in {"joined", "owner", "revoking"}
  /\ Fault
  /\ client' = [client EXCEPT ![m] = "crashed"]
  /\ owned' = [owned EXCEPT ![m] = {}]
  /\ UNCHANGED <<coordVars, storeVars, gen, position, processed>>

Restart(m) ==
  /\ client[m] = "crashed"
  /\ m \notin live
  /\ client' = [client EXCEPT ![m] = "out"]
  /\ UNCHANGED <<coordVars, storeVars, gen, owned, position, processed, faults>>

\* Another broker takes the group over; membership and commits are in the log it replays.
Failover ==
  /\ Loaded
  /\ store # <<>>
  /\ Fault
  /\ replayed_to' = 0
  /\ UNCHANGED <<coordVars, store, clientVars, processed>>

\* CoordinatorLoad.replay, then mark_ready at the end of the log.
Replay ==
  /\ ~Loaded
  /\ replayed_to' = replayed_to + 1
  /\ UNCHANGED <<coordVars, store, clientVars, processed, faults>>

CoordinatorStep ==
  \/ CloseWindow \/ StartOver \/ Replay
  \/ \E m \in Member : client[m] = "crashed" /\ Evict(m)

MemberStep(m) ==
  \/ Join(m) \/ Submit(m) \/ Sync(m) \/ Heartbeat(m) \/ CompleteRevoke(m) \/ Restart(m)
  \/ \E p \in Partition : Process(m, p) \/ Commit(m, p)

Next ==
  \/ CloseWindow \/ StartOver \/ Replay \/ Failover
  \/ \E m \in Member : MemberStep(m) \/ Close(m) \/ Evict(m) \/ Crash(m)

Spec == Init /\ [][Next]_vars

\* Members that run keep running, and so does the coordinator; faults owe nothing.
FairSpec ==
  /\ Spec
  /\ WF_vars(CoordinatorStep)
  /\ \A m \in Member : WF_vars(MemberStep(m))
----------------------------------------------------------------------------
States == {"Empty", "PreparingRebalance", "CompletingRebalance", "Stable"}

\* The group, its phases and every member keep their types.
TypeOK ==
  /\ state \in States
  /\ generation \in Nat
  /\ live \subseteq Member
  /\ JoinedSet \subseteq Member
  /\ assignment \in [Member -> SUBSET Partition]
  /\ synced \subseteq Member
  /\ replayed_to \in 0 .. Len(store)
  /\ gen \in [Member -> 0 .. generation]
  /\ owned \in [Member -> SUBSET Partition]
  /\ position \in [Member -> [Partition -> 0 .. LogEnd]]

\* What AssignmentValidator asks for: no partition without an owner, none with two.
PlanIsComplete == UNION Range(assignment) = Partition

PlanIsExclusive ==
  \A m \in JoinedSet : \A n \in JoinedSet \ {m} : assignment[m] \cap assignment[n] = {}

PlanIsFair ==
  \A m, n \in JoinedSet : Cardinality(assignment[m]) <= Cardinality(assignment[n]) + 1

\* A member of this generation that was handed its slice holds that slice.
PlanIsHeld ==
  \A m \in JoinedSet :
    client[m] \in {"owner", "revoking"} /\ gen[m] = generation => owned[m] = assignment[m]

(***************************************************************************)
(* Whatever members came, went or were given up, a Stable group's plan     *)
(* gives every partition to one member and is balanced, and its members    *)
(* hold exactly their slice of it.                                         *)
(***************************************************************************)
StableIsAssigned ==
  state = "Stable" => PlanIsComplete /\ PlanIsExclusive /\ PlanIsFair /\ PlanIsHeld

(***************************************************************************)
(* Progress belongs to the owner: a commit is accepted from the member the *)
(* current plan gives the partition to, in a Stable group, and from nobody *)
(* that was given up or has not heard of the rebalance.                    *)
(***************************************************************************)
OnlyOwnersCommit ==
  [][ \A i \in Len(store) + 1 .. Len(store') :
        /\ state = "Stable"
        /\ \E m \in live : /\ store'[i].partition \in assignment[m]
                           /\ store'[i].offset = position[m][store'[i].partition] ]_vars

(***************************************************************************)
(* Across rebalances, zombies and coordinator moves nothing is skipped and *)
(* nothing is taken back: each record below a committed offset has been    *)
(* processed, and a partition's commits only grow.                         *)
(***************************************************************************)
CommitsAreProgress ==
  \A i \in DOMAIN store :
    /\ 0 .. store[i].offset - 1 \subseteq processed[store[i].partition]
    /\ \A j \in 1 .. i - 1 : store[j].partition = store[i].partition =>
         store[j].offset < store[i].offset

(***************************************************************************)
(* Once members stop failing the group settles: Stable (or Empty, with     *)
(* nobody left), every running member a member or refused for size, and    *)
(* every partition consumed to its end and committed.                      *)
(***************************************************************************)
Settled ==
  \/ /\ state = "Stable"
     /\ \A p \in Partition : Committed(p) = LogEnd
  \/ \A m \in Member : client[m] = "closed"

GroupSettles == <>[]Settled
=============================================================================
