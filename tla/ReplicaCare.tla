---------------------------- MODULE ReplicaCare ----------------------------
(***************************************************************************)
(* Looking after replicas.  obj.class tells the objects apart:             *)
(*                                                                         *)
(*  "move"     a partition whose replica moves from broker 1 to broker 3   *)
(*             while it is written, read and re-led (reassignment,         *)
(*             partitionreassigncancel, stopreplica, replicalagtime,       *)
(*             logtruncation, followerfetch, followerstale);               *)
(*  "flap"     a replica that leaves and rejoins the in-sync set, damped   *)
(*             (isrflap);                                                  *)
(*  "voters"   changes of a voter set and quorum sizes (membershipchange,  *)
(*             flexiblequorum);                                            *)
(*  "placing"  round-robin placement of replicas (placement,               *)
(*             replicationfactor).                                         *)
(***************************************************************************)
EXTENDS Naturals, Integers, Sequences, SequencesExt, FiniteSets, FiniteSetsExt

CONSTANTS
  LagWindow,    \* IsrByTime.lag_window, ticks
  Throttle,     \* ReplicaMove.throttle_bytes_per_tick, records per tick
  MaxLag,       \* FollowerRead.max_lag
  FlapWindow,   \* FlapDetector.window
  FlapLimit,    \* FlapDetector.flap_threshold
  MaxEnd,       \* bound: records
  MaxNow,       \* bound: clock of the flapping replica
  MaxVoters     \* bound: size of a voter set, brokers and partitions placed

VARIABLE obj

ORIGINAL == {1, 2}
TARGET   == {2, 3}

(***************************************************************************)
(* The move.  end: log ends; seen: the watermark each replica has heard    *)
(* of; behind: ticks since a replica was level with the leader (LagWindow  *)
(* + 1: too long, or never); hw: the leader's watermark.  The move copies  *)
(* `copied` of the `total` records the log had when it began; phase is     *)
(* "none", "moving", "done" or "cancelled".  position is a consumer's.     *)
(***************************************************************************)
TooLong == LagWindow + 1

MoveInit ==
  obj = [class |-> "move", hosted |-> ORIGINAL, leader |-> 1,
         end |-> [b \in 1..3 |-> 0], seen |-> [b \in 1..3 |-> 0], hw |-> 0,
         behind |-> [b \in 1..3 |-> IF b = 3 THEN TooLong ELSE 0],
         phase |-> "none", total |-> 0, copied |-> 0, position |-> 0]

\* IsrByTime.in_sync: level within the window; the leader always is
InSync(o) == {b \in o.hosted : b = o.leader \/ o.behind[b] <= LagWindow}

\* The watermark moves up to what every in-sync replica holds.
Raised(o) == [o EXCEPT !.hw = Max({@, Min({o.end[b] : b \in InSync(o)})}),
                       !.seen[o.leader] = Max({o.hw, Min({o.end[b] : b \in InSync(o)})})]

MoveAppend ==
  /\ obj.class = "move" /\ obj.end[obj.leader] < MaxEnd
  /\ obj' = Raised([obj EXCEPT !.end[obj.leader] = @ + 1])

Follows(o, b) == b \in o.hosted \ {o.leader} /\ (b = 3 => o.copied >= o.total)

\* A follower fetches a record and the leader's watermark; level, it is
\* marked by IsrByTime.caught_up.
Follow(b) ==
  /\ obj.class = "move" /\ Follows(obj, b)
  /\ LET at == Min({obj.end[b] + 1, obj.end[obj.leader]})
     IN  obj' = Raised([obj EXCEPT !.end[b] = at, !.seen[b] = Max({@, Min({at, obj.hw})}),
                          !.behind[b] = IF at = obj.end[obj.leader] THEN 0 ELSE @])

\* Time passes for all; IsrByTime.evict is the passing of the window.
MoveTick ==
  /\ obj.class = "move" /\ \E b \in 1..3 : obj.behind[b] <= LagWindow /\ b # obj.leader
  /\ obj' = Raised([obj EXCEPT !.behind =
       [b \in 1..3 |-> IF b = obj.leader THEN 0 ELSE Min({@[b] + 1, TooLong})]])

\* ReplicaMove, with the bytes of the log as it is now
StartMove ==
  /\ obj.class = "move" /\ obj.phase = "none"
  /\ obj' = [obj EXCEPT !.phase = "moving", !.hosted = @ \cup TARGET,
                        !.total = obj.end[obj.leader], !.copied = 0]

\* ReplicaMove.advance by one tick, while the log lasts
Advance ==
  /\ obj.class = "move" /\ obj.phase = "moving" /\ obj.copied < obj.total
  /\ LET copied == Min({obj.total, obj.copied + Throttle, obj.end[obj.leader]})
     IN  /\ copied > obj.copied
         /\ obj' = [obj EXCEPT !.copied = copied, !.end[3] = copied]

EligibleForElection(o) == o.copied >= o.total /\ o.phase \in {"moving", "done"}

\* Leadership changes hands within the in-sync set; the others are cut back to
\* the new leader by LogTruncation.truncate_to.
Lead(b) ==
  /\ obj.class = "move" /\ b \in InSync(obj) \ {obj.leader}
  /\ b = 3 => EligibleForElection(obj)
  /\ obj' = [obj EXCEPT !.leader = b, !.seen[b] = obj.hw, !.behind[b] = 0,
                        !.end = [c \in 1..3 |-> Min({@[c], obj.end[b]})]]

\* A plausible slip: the replica is stopped even while it leads.
MayStopAlways(o, b) == b \in o.hosted

\* ReplicaHost.stop_replica
MayStop(o, b) == b \in o.hosted /\ b # o.leader

\* The move is complete when the newcomer is level; then broker 1 stops.
Complete ==
  /\ obj.class = "move" /\ obj.phase = "moving"
  /\ EligibleForElection(obj) /\ 3 \in InSync(obj) /\ MayStop(obj, 1)
  /\ obj' = Raised([obj EXCEPT !.phase = "done", !.hosted = TARGET, !.end[1] = 0])

\* ReassignmentCancel.cancel: back to the original replicas, the newcomer dropped
Cancel ==
  /\ obj.class = "move" /\ obj.phase = "moving" /\ MayStop(obj, 3)
  /\ obj' = Raised([obj EXCEPT !.phase = "cancelled", !.hosted = ORIGINAL, !.end[3] = 0,
                               !.behind[3] = TooLong])

\* validate_follower_read, FollowerRead.may_serve: an in-sync replica, below
\* its own watermark, not too far behind the leader's
MayServe(o, b) ==
  /\ b \in InSync(o) /\ o.position < o.seen[b]
  /\ o.hw - o.seen[b] <= MaxLag

ReadFrom(b) ==
  /\ obj.class = "move" /\ MayServe(obj, b)
  /\ obj' = [obj EXCEPT !.position = @ + 1]

MoveNext ==
  \/ MoveAppend \/ MoveTick \/ StartMove \/ Advance \/ Complete \/ Cancel
  \/ \E b \in 1..3 : Follow(b) \/ Lead(b) \/ ReadFrom(b)

(***************************************************************************)
(* A move, its completion and its cancellation never cost a committed      *)
(* record: the leader stays hosted and holds everything below the          *)
(* watermark, no replica has been told of more than the leader has (so no  *)
(* truncation is ever refused), and what a consumer read anywhere is still *)
(* there.                                                                  *)
(***************************************************************************)
MovesKeepCommitted ==
  obj.class = "move" =>
    /\ obj.leader \in obj.hosted
    /\ obj.end[obj.leader] >= obj.hw
    /\ \A b \in obj.hosted : obj.seen[b] <= obj.hw
    /\ obj.position <= obj.hw

-----------------------------------------------------------------------------
(***************************************************************************)
(* Flapping.  times: the ticks of the transitions so far, which alternate  *)
(* between leaving (first) and joining.                                    *)
(***************************************************************************)
FlapInit == obj = [class |-> "flap", now |-> 0, times |-> <<>>]

IsIn(o) == Len(o.times) % 2 = 0

\* transitions_in_window
Recent(o) == Cardinality({i \in DOMAIN o.times : o.now - o.times[i] <= FlapWindow})

FlapTick ==
  /\ obj.class = "flap" /\ obj.now < MaxNow
  /\ obj' = [obj EXCEPT !.now = @ + 1]

MayRejoin(o) == Recent(o) < FlapLimit

\* ReplicaFlapHistory.record: one transition per tick; may_rejoin guards the way in
Transition ==
  /\ obj.class = "flap"
  /\ obj.times # <<>> => obj.now > Last(obj.times)
  /\ ~ IsIn(obj) => MayRejoin(obj)
  /\ obj' = [obj EXCEPT !.times = Append(@, obj.now)]

(***************************************************************************)
(* Damping works: in any window a replica goes in and out at most one time *)
(* more than the threshold, however it is timed.                           *)
(***************************************************************************)
FlappingIsDamped ==
  obj.class = "flap" =>
    \A t \in 0..obj.now :
      Cardinality({i \in DOMAIN obj.times : obj.times[i] <= t /\ t - obj.times[i] <= FlapWindow})
        <= FlapLimit + 1

-----------------------------------------------------------------------------
\* The voter set, the one before it, and quorum sizes chosen for it.
VotersInit ==
  \E n \in 1..MaxVoters, e \in 1..MaxVoters, r \in 1..MaxVoters :
    /\ e <= n /\ r <= n
    /\ obj = [class |-> "voters", before |-> 1..n, voters |-> 1..n,
              election |-> e, replication |-> r]

\* Membership.majority
Majority(n) == n \div 2 + 1

\* Membership.change_to: one voter at a time
ChangeTo(proposed) ==
  /\ obj.class = "voters" /\ proposed # {}
  /\ Cardinality((obj.voters \ proposed) \cup (proposed \ obj.voters)) = 1
  /\ obj' = [obj EXCEPT !.before = obj.voters, !.voters = proposed]

\* FlexibleQuorum.validate
Intersects(n, e, r) == e + r > n

Sized(set, k) == {s \in SUBSET set : Cardinality(s) >= k}

(***************************************************************************)
(* Two majorities around a membership change share a voter, so no term can *)
(* be won twice across it; and with the sizes a flexible quorum accepts    *)
(* every election meets every commit.                                      *)
(***************************************************************************)
QuorumsMeet ==
  obj.class = "voters" =>
    /\ \A q \in Sized(obj.before, Majority(Cardinality(obj.before))),
          s \in Sized(obj.voters, Majority(Cardinality(obj.voters))) : q \cap s # {}
    /\ Intersects(Cardinality(obj.before), obj.election, obj.replication) =>
         \A q \in Sized(obj.before, obj.election), s \in Sized(obj.before, obj.replication) :
           q \cap s # {}

-----------------------------------------------------------------------------
\* Placement on n brokers, one partition after the other.
PlacingInit ==
  \E n \in 1..MaxVoters, factor \in 1..MaxVoters :
    factor <= n /\ obj = [class |-> "placing", n |-> n, factor |-> factor, placed |-> <<>>]

\* Placer.place, for the next partition
PlaceNext ==
  /\ obj.class = "placing" /\ Len(obj.placed) < 2 * MaxVoters
  /\ obj' = [obj EXCEPT !.placed =
       Append(@, [i \in 1..obj.factor |-> (Len(@) + i - 1) % obj.n])]

Hosts(o) ==
  [b \in 0..(o.n - 1) |-> Cardinality({p \in DOMAIN o.placed : b \in Range(o.placed[p])})]
Leads(o) ==
  [b \in 0..(o.n - 1) |-> Cardinality({p \in DOMAIN o.placed : o.placed[p][1] = b})]

\* balance_spread
Spread(counts) == Max(Range(counts)) - Min(Range(counts))

(***************************************************************************)
(* Replicas of one partition are on different brokers, leaders differ by   *)
(* at most one between brokers, and replicas by no more than the factor    *)
(* (by nothing once every broker has had its turn).                        *)
(***************************************************************************)
PlacementIsEven ==
  obj.class = "placing" =>
    /\ \A p \in DOMAIN obj.placed : IsInjective(obj.placed[p])
    /\ Spread(Leads(obj)) <= 1 /\ Spread(Hosts(obj)) <= obj.factor
    /\ Len(obj.placed) % obj.n = 0 => Spread(Hosts(obj)) = 0

-----------------------------------------------------------------------------
Init == MoveInit \/ FlapInit \/ VotersInit \/ PlacingInit

Next ==
  \/ MoveNext \/ FlapTick \/ Transition \/ PlaceNext
  \/ \E proposed \in SUBSET (1..MaxVoters) : ChangeTo(proposed)

(***************************************************************************)
(* Replicas may be moved, damped, re-voted and placed without a committed  *)
(* record or a quorum getting lost.                                        *)
(***************************************************************************)
ReplicasAreSafe ==
  MovesKeepCommitted /\ FlappingIsDamped /\ QuorumsMeet /\ PlacementIsEven
=============================================================================
