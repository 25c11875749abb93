----------------------------- MODULE PartsProofs -----------------------------
(***************************************************************************)
(* The parts around the core, for every value of their constants.  Each    *)
(* part is an instance of its own module, over the state obj of one of its *)
(* objects, and its invariant is one conjunction for each class of object. *)
(***************************************************************************)
EXTENDS BrokerParts, TypeParts, Integers, Sequences, SequenceTheorems, NaturalsOrder, TLAPS

----------------------------------------------------------------------------
(***************************************************************************)
(* The control plane.  The constants are ticks and bounds.                 *)
(***************************************************************************)
ControlConstants ==
  /\ FenceAfter \in Nat /\ HoldDown \in Nat /\ MaxEnd \in Nat /\ MaxVersion \in Nat

\* The brokers of the modelled cluster, as the control plane lists them.
Broker == 1 .. 3

\* Leadership: the in-sync replicas hold what is committed, and the leader is one.
Leadership ==
  /\ obj \in [class : {"leadership"}, allow_unclean : BOOLEAN, up : SUBSET Broker,
              fenced : SUBSET Broker, quiet : [Broker -> Nat], leader : Broker \cup {0},
              in_sync : SUBSET Broker, end : [Broker -> Nat], committed : Nat, lost : Nat,
              held : Int]
  /\ obj.in_sync # {}
  /\ obj.leader # 0 => obj.leader \in obj.in_sync
  /\ \A b \in obj.in_sync : obj.end[b] >= obj.committed
  /\ ~ obj.allow_unclean => obj.lost = 0

\* The least, as the instance writes it.
LEMMA ControlMin == ASSUME NEW S PROVE Control!Min(S) = Min(S)
BY DEF Min, Control!Min

\* The greatest, likewise.
LEMMA ControlMax == ASSUME NEW S PROVE Control!Max(S) = Max(S)
BY DEF Max, Control!Max

\* The lesser of two naturals.
LEMMA LesserIs ==
  ASSUME NEW a \in Nat, NEW b \in Nat
  PROVE  Min({a, b}) = IF a <= b THEN a ELSE b
<1>1. Min({a, b}) \in {a, b} /\ \A y \in {a, b} : Min({a, b}) <= y
  BY MinOfNaturals
<1> QED BY <1>1

\* The greater of two naturals.
LEMMA GreaterIs ==
  ASSUME NEW a \in Nat, NEW b \in Nat
  PROVE  Max({a, b}) = IF a <= b THEN b ELSE a
<1>1. \A y \in {a, b} : y <= a + b
  OBVIOUS
<1>2. Max({a, b}) \in {a, b} /\ \A y \in {a, b} : y <= Max({a, b})
  BY <1>1, MaxOfNaturals
<1> QED BY <1>2

\* What is committed is held by every replica of the in-sync set.
LEMMA CommittedIsHeld ==
  ASSUME NEW sync \in SUBSET Broker, sync # {}, NEW end \in [Broker -> Nat],
         obj.committed \in Nat, \A b \in sync : end[b] >= obj.committed
  PROVE  /\ Control!Committed(obj, sync, end) \in Nat
         /\ \A b \in sync : end[b] >= Control!Committed(obj, sync, end)
<1> DEFINE ends == {end[b] : b \in sync}
<1>1. ends \in SUBSET Nat /\ ends # {}
  OBVIOUS
<1>2. Min(ends) \in ends /\ \A y \in ends : Min(ends) <= y
  BY <1>1, MinOfNaturals
<1>3. Min(ends) \in Nat /\ Min(ends) >= obj.committed /\ \A b \in sync : end[b] >= Min(ends)
  BY <1>1, <1>2
<1>4. Control!Committed(obj, sync, end) = Max({obj.committed, Min(ends)})
  BY ControlMin, ControlMax DEF Control!Committed
<1> HIDE DEF ends
<1>5. Max({obj.committed, Min(ends)}) = Min(ends)
  BY <1>3, GreaterIs
<1> QED BY <1>3, <1>4, <1>5

\* The longest of some candidates is one of them.
LEMMA LongestIs ==
  ASSUME Leadership, NEW candidates \in SUBSET Broker, candidates # {}
  PROVE  Control!Longest(obj, candidates) \in candidates
<1> DEFINE ends    == {obj.end[b] : b \in candidates}
           longest == {b \in candidates : obj.end[b] = Max(ends)}
<1>1. \A b \in candidates : b \in Nat /\ obj.end[b] \in Nat
  BY DEF Leadership, Broker
<1>2. \E top \in Nat : \A b \in candidates : obj.end[b] <= top
  <2>1. obj.end[1] \in Nat /\ obj.end[2] \in Nat /\ obj.end[3] \in Nat
    BY DEF Leadership, Broker
  <2>2. \A b \in candidates : b = 1 \/ b = 2 \/ b = 3
    BY DEF Broker
  <2>3. obj.end[1] + obj.end[2] + obj.end[3] \in Nat
    BY <2>1
  <2> QED BY <2>1, <2>2, <2>3
<1>3. Max(ends) \in ends /\ \A y \in ends : y <= Max(ends)
  <2>1. ends \in SUBSET Nat /\ ends # {}
    BY <1>1
  <2>2. PICK top \in Nat : \A y \in ends : y <= top
    BY <1>2
  <2> HIDE DEF ends
  <2> QED BY <2>1, <2>2, MaxOfNaturals
<1>4. longest \in SUBSET Nat /\ longest # {}
  BY <1>1, <1>3
<1>5. Min(longest) \in longest /\ \A y \in longest : Min(longest) <= y
  BY <1>4, MinOfNaturals
<1>6. PICK b \in candidates : obj.end[b] = Max(ends) /\ \A c \in longest : b <= c
  BY <1>5
<1>7. \A c \in candidates : obj.end[b] > obj.end[c] \/ (obj.end[b] = obj.end[c] /\ b <= c)
  <2> SUFFICES ASSUME NEW c \in candidates
               PROVE  obj.end[b] > obj.end[c] \/ (obj.end[b] = obj.end[c] /\ b <= c)
    OBVIOUS
  <2>1. obj.end[c] <= obj.end[b]
    BY <1>3, <1>6
  <2>2. obj.end[c] = obj.end[b] => b <= c
    BY <1>6
  <2> QED BY <1>1, <2>1, <2>2
<1> QED BY <1>7 DEF Control!Longest

\* The timer of the preferred broker is a number or -1.
LEMMA HeldIs ==
  ASSUME Leadership, NEW sync \in SUBSET Broker
  PROVE  Control!Held(obj, sync) \in Int
BY DEF Control!Held, Leadership

\* A leadership object of which some fields change.
LEMMA LeadershipFields ==
  ASSUME Leadership
  PROVE  /\ obj.class = "leadership" /\ obj.allow_unclean \in BOOLEAN
         /\ obj.up \in SUBSET Broker /\ obj.fenced \in SUBSET Broker
         /\ obj.quiet \in [Broker -> Nat] /\ obj.leader \in Broker \cup {0}
         /\ obj.in_sync \in SUBSET Broker /\ obj.end \in [Broker -> Nat]
         /\ obj.committed \in Nat /\ obj.lost \in Nat /\ obj.held \in Int
BY DEF Leadership

\* The steps that move neither leadership nor the records.
LEMMA LeadershipViews ==
  ASSUME ControlConstants, Leadership, NEW b \in Broker,
         \/ Control!Die(b) \/ Control!Heartbeat(b) \/ Control!Register(b)
         \/ Control!LeadershipTick \/ Control!FenceLapsed \/ Control!Restore
  PROVE  Leadership'
<1> USE LeadershipFields
<1>1. CASE Control!Die(b)
  BY <1>1 DEF Control!Die, Leadership
<1>2. CASE Control!Heartbeat(b)
  BY <1>2 DEF Control!Heartbeat, Leadership
<1>3. CASE Control!Register(b)
  BY <1>3 DEF Control!Register, Leadership
<1>4. CASE Control!LeadershipTick
  <2>1. \A n \in Nat, m \in Nat : Control!Min({n, m}) \in Nat
    BY ControlMin, LesserIs
  <2> DEFINE quiet == [k \in Broker |-> Control!Min({obj.quiet[k] + 1, FenceAfter + 1})]
             held  == IF obj.held < 0 THEN obj.held ELSE Control!Min({obj.held + 1, HoldDown})
  <2>2. obj' = [obj EXCEPT !.quiet = quiet, !.held = held]
    BY <1>4 DEF Control!LeadershipTick, Control!BROKERS, Broker
  <2>3. quiet \in [Broker -> Nat]
    <3>1. ASSUME NEW k \in Broker PROVE Control!Min({obj.quiet[k] + 1, FenceAfter + 1}) \in Nat
      <4>1. obj.quiet[k] \in Nat /\ FenceAfter \in Nat
        BY DEF ControlConstants
      <4>2. obj.quiet[k] + 1 \in Nat /\ FenceAfter + 1 \in Nat
        BY <4>1
      <4> QED BY <2>1, <4>2
    <3> QED BY <3>1, Zenon
  <2>4. held \in Int
    <3>1. CASE obj.held < 0
      BY <3>1
    <3>2. CASE ~ (obj.held < 0)
      <4>1. obj.held + 1 \in Nat
        BY <3>2
      <4> QED BY <2>1, <3>2, <4>1 DEF ControlConstants
    <3> QED BY <3>1, <3>2
  <2> HIDE DEF quiet, held
  <2> QED BY <2>2, <2>3, <2>4 DEF Leadership
<1>5. CASE Control!FenceLapsed
  <2>1. PICK lapsed \in SUBSET Broker : obj' = [obj EXCEPT !.fenced = @ \cup lapsed]
    BY <1>5 DEF Control!FenceLapsed, Control!BROKERS, Broker
  <2> QED BY <2>1 DEF Leadership
<1>6. CASE Control!Restore
  <2>1. obj' = [obj EXCEPT !.leader = 1] /\ 1 \in obj.in_sync /\ 1 \in Broker
    BY <1>6 DEF Control!Restore, Control!PREFERRED, Broker
  <2> QED BY <2>1 DEF Leadership
<1> QED BY <1>1, <1>2, <1>3, <1>4, <1>5, <1>6

\* The steps of a serving leader and its followers.
LEMMA LeadershipRecords ==
  ASSUME ControlConstants, Leadership, NEW b \in Broker,
         Control!Produce \/ Control!Catch(b) \/ Control!DropOut(b)
  PROVE  Leadership'
<1> USE LeadershipFields
<1>1. obj.leader \in Broker /\ obj.leader # 0 /\ obj.leader \in obj.in_sync
  BY DEF Control!Produce, Control!Catch, Control!DropOut, Control!Serving, Control!NOBODY,
         Leadership
<1>2. \A k \in obj.in_sync : k \in Broker /\ obj.end[k] \in Nat /\ obj.end[k] >= obj.committed
  BY DEF Leadership
<1>3. CASE Control!Produce
  <2> DEFINE end == [obj.end EXCEPT ![obj.leader] = @ + 1]
             committed == Control!Committed(obj, obj.in_sync, end)
  <2>1. obj' = [obj EXCEPT !.end = end, !.committed = committed]
    BY <1>3 DEF Control!Produce
  <2>2. end \in [Broker -> Nat] /\ \A k \in obj.in_sync : end[k] >= obj.committed
    BY <1>1, <1>2
  <2> HIDE DEF end
  <2>3. committed \in Nat /\ \A k \in obj.in_sync : end[k] >= committed
    BY <1>1, <2>2, CommittedIsHeld
  <2> HIDE DEF committed
  <2> QED BY <2>1, <2>2, <2>3 DEF Leadership
<1>4. CASE Control!Catch(b)
  <2> DEFINE at   == Control!Min({obj.end[b] + 1, obj.end[obj.leader]})
             end  == [obj.end EXCEPT ![b] = at]
             sync == IF at = end[obj.leader] THEN obj.in_sync \cup {b} ELSE obj.in_sync
             held == Control!Held(obj, sync)
             committed == Control!Committed(obj, sync, end)
  <2>1. /\ b # obj.leader
        /\ obj' = [obj EXCEPT !.end = end, !.in_sync = sync, !.held = held,
                              !.committed = committed]
    BY <1>4 DEF Control!Catch
  <2>2. at = IF obj.end[b] + 1 <= obj.end[obj.leader] THEN obj.end[b] + 1 ELSE obj.end[obj.leader]
    BY <1>1, <1>2, ControlMin, LesserIs
  <2> HIDE DEF at
  <2>3. end \in [Broker -> Nat] /\ end[b] = at /\ \A k \in Broker \ {b} : end[k] = obj.end[k]
    BY <1>1, <1>2, <2>2
  <2>4. b \in sync => end[b] >= obj.committed
    BY <1>1, <1>2, <2>1, <2>2, <2>3
  <2>5. sync \in SUBSET Broker /\ obj.leader \in sync /\ \A k \in sync \ {b} : k \in obj.in_sync
    BY <1>1
  <2> HIDE DEF sync, end
  <2>6. \A k \in sync : end[k] >= obj.committed
    BY <1>2, <2>3, <2>4, <2>5
  <2>7. committed \in Nat /\ \A k \in sync : end[k] >= committed
    BY <2>3, <2>5, <2>6, CommittedIsHeld
  <2>8. held \in Int
    BY <2>5, HeldIs
  <2> HIDE DEF committed, held
  <2> QED BY <2>1, <2>3, <2>5, <2>7, <2>8 DEF Leadership
<1>5. CASE Control!DropOut(b)
  <2> DEFINE sync == obj.in_sync \ {b}
             held == Control!Held(obj, sync)
             committed == Control!Committed(obj, sync, obj.end)
  <2>1. /\ b # obj.leader
        /\ obj' = [obj EXCEPT !.in_sync = sync, !.held = held, !.committed = committed]
    BY <1>5 DEF Control!DropOut
  <2>2. sync \in SUBSET Broker /\ obj.leader \in sync /\ \A k \in sync : obj.end[k] >= obj.committed
    BY <1>1, <1>2, <2>1
  <2> HIDE DEF sync
  <2>3. committed \in Nat /\ \A k \in sync : obj.end[k] >= committed
    BY <2>2, CommittedIsHeld
  <2>4. held \in Int
    BY <2>2, HeldIs
  <2> HIDE DEF committed, held
  <2> QED BY <2>1, <2>2, <2>3, <2>4 DEF Leadership
<1> QED BY <1>3, <1>4, <1>5

\* An election takes an in-sync replica, or lowers what is committed to what an unclean
\* winner has.
LEMMA LeadershipElects ==
  ASSUME ControlConstants, Leadership, Control!Elect
  PROVE  Leadership'
<1> USE LeadershipFields
<1> DEFINE able == Control!Candidates(obj)
           b    == Control!Longest(obj, able)
           sync == IF b \in obj.in_sync THEN obj.in_sync \cap Control!Available(obj) ELSE {b}
           held == Control!Held(obj, sync)
           lost == IF b \in obj.in_sync THEN obj.lost
                   ELSE Control!Max({obj.lost, Control!Loss(obj, b)})
           committed == IF b \in obj.in_sync THEN obj.committed
                        ELSE Control!Min({obj.committed, obj.end[b]})
<1>1. Control!Available(obj) \in SUBSET Broker
  BY DEF Control!Available
<1>2. CASE able = {}
  <2>1. obj' = [obj EXCEPT !.leader = 0]
    BY <1>2 DEF Control!Elect, Control!NOBODY
  <2> QED BY <2>1 DEF Leadership
<1>3. CASE able # {}
  <2>1. obj' = [obj EXCEPT !.leader = b, !.in_sync = sync, !.held = held, !.lost = lost,
                           !.committed = committed]
    BY <1>3 DEF Control!Elect
  <2>2. able \in SUBSET Broker /\ able \subseteq Control!Available(obj)
    BY <1>1 DEF Control!Candidates
  <2>3. b \in able
    <3> HIDE DEF able
    <3> QED BY <1>3, <2>2, LongestIs
  <2>4. b \in Broker /\ b # 0 /\ b \in Control!Available(obj)
        /\ (b \notin obj.in_sync => obj.allow_unclean)
    <3>1. b \notin obj.in_sync => obj.allow_unclean
      <4>1. ~ obj.allow_unclean => able \subseteq obj.in_sync
        BY DEF Control!Candidates
      <4> HIDE DEF able, b
      <4> QED BY <2>3, <4>1
    <3> HIDE DEF b, able
    <3> QED BY <2>2, <2>3, <3>1 DEF Broker
  <2> HIDE DEF b
  <2>5. sync \in SUBSET Broker /\ b \in sync /\ sync # {}
    BY <1>1, <2>4
  <2>6. held \in Int
    <3> HIDE DEF sync
    <3> QED BY <2>5, HeldIs
  <2>7. CASE b \in obj.in_sync
    <3>1. lost = obj.lost /\ committed = obj.committed /\ sync \subseteq obj.in_sync
      BY <2>7
    <3> HIDE DEF sync, lost, committed, held
    <3> QED BY <2>1, <2>4, <2>5, <2>6, <3>1 DEF Leadership
  <2>8. CASE b \notin obj.in_sync
    <3>1. sync = {b} /\ obj.allow_unclean
      BY <2>4, <2>8
    <3>2. committed = IF obj.committed <= obj.end[b] THEN obj.committed ELSE obj.end[b]
      BY <2>4, <2>8, ControlMin, LesserIs
    <3>3. committed \in Nat /\ committed <= obj.end[b]
      BY <2>4, <3>2
    <3>4. Control!Loss(obj, b) \in Nat
      <4>1. Control!Loss(obj, b) = Max({0, obj.committed - obj.end[b]})
        BY ControlMax DEF Control!Loss
      <4>2. obj.committed - obj.end[b] \in Int
        BY <2>4
      <4>3. \E x \in {0, obj.committed - obj.end[b]} : \A y \in {0, obj.committed - obj.end[b]} : x >= y
        BY <4>2
      <4>4. Max({0, obj.committed - obj.end[b]}) \in {0, obj.committed - obj.end[b]}
            /\ Max({0, obj.committed - obj.end[b]}) >= 0
        BY <4>3, Zenon DEF Max
      <4> QED BY <4>1, <4>2, <4>4
    <3>5. lost \in Nat
      BY <2>8, <3>4, ControlMax, GreaterIs
    <3> HIDE DEF sync, lost, committed, held
    <3> QED BY <2>1, <2>4, <2>5, <2>6, <3>1, <3>3, <3>5 DEF Leadership
  <2> QED BY <2>7, <2>8
<1> QED BY <1>2, <1>3

\* A leader that shuts down hands over to an in-sync replica first.
LEMMA LeadershipHandsOver ==
  ASSUME ControlConstants, Leadership, NEW b \in Broker, Control!ShutDownCleanly(b)
  PROVE  Leadership'
<1> USE LeadershipFields
<1> DEFINE targets == (obj.in_sync \cap Control!Available(obj)) \ {b}
           next    == Control!Longest(obj, targets)
           sync    == obj.in_sync \ {b}
           held    == Control!Held(obj, sync)
           committed == Control!Committed(obj, sync, obj.end)
<1>1. CASE obj.leader # b
  <2>1. obj' = [obj EXCEPT !.up = @ \ {b}]
    BY <1>1 DEF Control!ShutDownCleanly
  <2> QED BY <2>1 DEF Leadership
<1>2. CASE obj.leader = b
  <2>1. /\ targets # {}
        /\ obj' = [obj EXCEPT !.leader = next, !.up = @ \ {b}, !.in_sync = sync, !.held = held,
                              !.committed = committed]
    BY <1>2 DEF Control!ShutDownCleanly
  <2>2. targets \in SUBSET Broker /\ targets \subseteq sync
    OBVIOUS
  <2>3. next \in targets
    <3> HIDE DEF targets
    <3> QED BY <2>1, <2>2, LongestIs
  <2>4. sync \in SUBSET Broker /\ next \in sync /\ next \in Broker
        /\ \A k \in sync : obj.end[k] >= obj.committed
    <3> HIDE DEF next
    <3> QED BY <2>2, <2>3 DEF Leadership
  <2> HIDE DEF sync, next
  <2>5. committed \in Nat /\ \A k \in sync : obj.end[k] >= committed
    BY <2>4, CommittedIsHeld
  <2>6. held \in Int
    BY <2>4, HeldIs
  <2> HIDE DEF committed, held, targets
  <2> QED BY <2>1, <2>4, <2>5, <2>6 DEF Leadership
<1> QED BY <1>1, <1>2

\* Every step of a leadership object keeps its invariant.
LEMMA LeadershipStep ==
  ASSUME ControlConstants, Leadership, Control!LeadershipNext
  PROVE  Leadership'
<1>1. CASE \/ Control!Produce \/ Control!LeadershipTick \/ Control!FenceLapsed \/ Control!Elect
           \/ Control!Restore
  <2>1. 1 \in Broker
    BY DEF Broker
  <2> QED BY <1>1, <2>1, LeadershipRecords, LeadershipViews, LeadershipElects
<1>2. ASSUME NEW b \in Broker,
             \/ Control!Catch(b) \/ Control!DropOut(b) \/ Control!Die(b) \/ Control!Heartbeat(b)
             \/ Control!Register(b) \/ Control!ShutDownCleanly(b)
      PROVE  Leadership'
  BY <1>2, LeadershipRecords, LeadershipViews, LeadershipHandsOver
<1> QED BY <1>1, <1>2 DEF Control!LeadershipNext, Control!BROKERS, Broker

----------------------------------------------------------------------------
\* The partitions whose leaders the metadata names.
Partition == 1 .. 2

\* A version of the metadata: every partition's leader.
Leaders == [Partition -> Broker]

\* Two maps of leaders that are one update apart.
OneApart(a, b) ==
  \E p \in Partition : a[p] # b[p] /\ \A q \in Partition \ {p} : a[q] = b[q]

\* The fields of the metadata, its broker's view and a client's cache.
MetadataRecord ==
  [class : {"metadata"}, controller_epoch : Nat, history : Seq(Leaders), applied_seq : Int,
   view : [Partition -> 0 .. 3], needs_resync : BOOLEAN, fetched : BOOLEAN, version : Int,
   cached : [Partition -> 0 .. 3], since : [Partition -> Int]]

\* Metadata: the history grows by one change at a time, the broker's view is one of its
\* versions, and each cached leader is one of a version the cache has reached.
Metadata ==
  /\ obj \in MetadataRecord
  /\ Len(obj.history) >= 1
  /\ \A i \in 1 .. Len(obj.history) - 1 : OneApart(obj.history[i], obj.history[i + 1])
  /\ -1 <= obj.applied_seq /\ obj.applied_seq < Len(obj.history)
  /\ obj.applied_seq >= 0 => obj.view = obj.history[obj.applied_seq + 1]
  /\ obj.fetched => \A p \in Partition :
       /\ 0 <= obj.since[p] /\ obj.since[p] < Len(obj.history) /\ obj.since[p] <= obj.version
       /\ obj.cached[p] = obj.history[obj.since[p] + 1][p]

\* What the invariant says of each field.
LEMMA MetadataFields ==
  ASSUME Metadata
  PROVE  /\ obj \in MetadataRecord
         /\ obj.class = "metadata" /\ obj.controller_epoch \in Nat /\ obj.history \in Seq(Leaders)
         /\ obj.applied_seq \in Int /\ obj.view \in [Partition -> 0 .. 3]
         /\ obj.needs_resync \in BOOLEAN /\ obj.fetched \in BOOLEAN /\ obj.version \in Int
         /\ obj.cached \in [Partition -> 0 .. 3] /\ obj.since \in [Partition -> Int]
         /\ Len(obj.history) \in Nat
         /\ \A i \in 1 .. Len(obj.history) : obj.history[i] \in Leaders
BY DEF Metadata, MetadataRecord

\* An update appends a map that differs in one partition; what was learnt stays true.
LEMMA MetadataUpdates ==
  ASSUME Metadata, NEW e, NEW p \in Partition, NEW b \in Broker, Control!UpdateLeader(e, p, b)
  PROVE  Metadata'
<1> USE MetadataFields
<1> DEFINE n    == Len(obj.history)
           last == obj.history[n]
           new  == [last EXCEPT ![p] = b]
           h    == Append(obj.history, new)
<1>1. last[p] # b /\ obj' = [obj EXCEPT !.history = h]
  BY DEF Control!UpdateLeader, Control!Last
<1>2. n \in Nat /\ n >= 1 /\ last \in Leaders
  BY DEF Metadata
<1>3. new \in Leaders /\ new[p] = b /\ \A q \in Partition \ {p} : new[q] = last[q]
  BY <1>2 DEF Leaders
<1>4. OneApart(last, new)
  BY <1>1, <1>3 DEF OneApart
<1> HIDE DEF new
<1>5. /\ h \in Seq(Leaders) /\ Len(h) = n + 1 /\ h[n + 1] = new
      /\ \A i \in 1 .. n : h[i] = obj.history[i]
  BY <1>2, <1>3, AppendProperties
<1>6. \A i \in 1 .. Len(h) - 1 : OneApart(h[i], h[i + 1])
  <2> SUFFICES ASSUME NEW i \in 1 .. n PROVE OneApart(h[i], h[i + 1])
    BY <1>2, <1>5
  <2>1. CASE i = n
    BY <1>2, <1>4, <1>5, <2>1
  <2>2. CASE i # n
    <3>1. i \in 1 .. n - 1 /\ i + 1 \in 1 .. n
      BY <1>2, <2>2
    <3> QED BY <1>5, <3>1 DEF Metadata
  <2> QED BY <2>1, <2>2
<1>7. obj.applied_seq >= 0 => obj.view = h[obj.applied_seq + 1]
  <2> SUFFICES ASSUME obj.applied_seq >= 0 PROVE obj.view = h[obj.applied_seq + 1]
    OBVIOUS
  <2>1. obj.applied_seq + 1 \in 1 .. n /\ obj.view = obj.history[obj.applied_seq + 1]
    BY <1>2 DEF Metadata
  <2> QED BY <1>5, <2>1
<1>8. obj.fetched => \A q \in Partition :
        /\ 0 <= obj.since[q] /\ obj.since[q] < Len(h) /\ obj.since[q] <= obj.version
        /\ obj.cached[q] = h[obj.since[q] + 1][q]
  <2> SUFFICES ASSUME obj.fetched, NEW q \in Partition
               PROVE  /\ 0 <= obj.since[q] /\ obj.since[q] < Len(h) /\ obj.since[q] <= obj.version
                      /\ obj.cached[q] = h[obj.since[q] + 1][q]
    OBVIOUS
  <2>1. /\ 0 <= obj.since[q] /\ obj.since[q] < n /\ obj.since[q] <= obj.version
        /\ obj.cached[q] = obj.history[obj.since[q] + 1][q] /\ obj.since[q] \in Int
    BY DEF Metadata
  <2>2. obj.since[q] + 1 \in 1 .. n
    BY <1>2, <2>1
  <2> QED BY <1>2, <1>5, <2>1, <2>2
<1>9. Len(h) >= 1 /\ obj.applied_seq < Len(h) /\ -1 <= obj.applied_seq
  BY <1>2, <1>5 DEF Metadata
<1> HIDE DEF h
<1>10. /\ obj' \in MetadataRecord
       /\ obj'.applied_seq = obj.applied_seq /\ obj'.view = obj.view
       /\ obj'.history = h /\ obj'.fetched = obj.fetched /\ obj'.since = obj.since
       /\ obj'.version = obj.version /\ obj'.cached = obj.cached
  BY <1>1, <1>5 DEF Metadata, MetadataRecord
<1> QED BY <1>6, <1>7, <1>8, <1>9, <1>10 DEF Metadata

\* A step of the applier touches three fields.
LEMMA AppliedFields ==
  ASSUME obj \in MetadataRecord, NEW s \in Int, NEW v \in [Partition -> 0 .. 3],
         NEW r \in BOOLEAN,
         obj' = [obj EXCEPT !.applied_seq = s, !.view = v, !.needs_resync = r]
  PROVE  /\ obj' \in MetadataRecord /\ obj'.applied_seq = s /\ obj'.view = v
         /\ obj'.history = obj.history /\ obj'.fetched = obj.fetched /\ obj'.since = obj.since
         /\ obj'.version = obj.version /\ obj'.cached = obj.cached
BY DEF MetadataRecord

\* The map of leaders after a version is the one before with the delta's change.
LEMMA MetadataApplies ==
  ASSUME Metadata, NEW seq \in Nat, Control!FullImage(seq) \/ Control!ApplyDelta(seq)
  PROVE  Metadata'
<1> USE MetadataFields
<1>0. Control!Version(obj) = Len(obj.history) - 1
  BY DEF Control!Version
<1>1. ASSUME seq \in 0 .. Len(obj.history) - 1,
             obj' \in MetadataRecord, obj'.applied_seq = seq, obj'.view = obj.history[seq + 1],
             obj'.history = obj.history, obj'.fetched = obj.fetched, obj'.since = obj.since,
             obj'.version = obj.version, obj'.cached = obj.cached
      PROVE  Metadata'
  <2>1. -1 <= seq /\ seq < Len(obj.history)
    BY <1>1
  <2> QED BY <1>1, <2>1 DEF Metadata
<1>2. CASE Control!FullImage(seq)
  <2>1. /\ seq \in 0 .. Len(obj.history) - 1
        /\ obj' = [obj EXCEPT !.applied_seq = seq, !.view = obj.history[seq + 1],
                              !.needs_resync = FALSE]
    BY <1>0, <1>2 DEF Control!FullImage
  <2>2. obj.history[seq + 1] \in [Partition -> 0 .. 3]
    BY <2>1 DEF Leaders, Broker
  <2>3. /\ obj' \in MetadataRecord /\ obj'.applied_seq = seq /\ obj'.view = obj.history[seq + 1]
        /\ obj'.history = obj.history /\ obj'.fetched = obj.fetched /\ obj'.since = obj.since
        /\ obj'.version = obj.version /\ obj'.cached = obj.cached
    <3>1. seq \in Int /\ FALSE \in BOOLEAN /\ obj \in MetadataRecord
      OBVIOUS
    <3> QED BY <2>1, <2>2, <3>1, AppliedFields, Zenon
  <2> QED BY <1>1, <2>1, <2>3
<1>3. CASE Control!ApplyDelta(seq) /\ ~ Control!InSequence(obj, seq)
  <2>1. obj' = [obj EXCEPT !.needs_resync = TRUE]
    BY <1>3 DEF Control!ApplyDelta
  <2> QED BY <2>1 DEF Metadata, MetadataRecord
<1>4. CASE Control!ApplyDelta(seq) /\ Control!InSequence(obj, seq)
  <2> DEFINE p == Control!Changed(obj, seq)
             old == obj.history[seq]
             new == obj.history[seq + 1]
  <2>1. /\ seq \in 1 .. Len(obj.history) - 1 /\ seq = obj.applied_seq + 1
        /\ obj' = [obj EXCEPT !.applied_seq = seq, !.view[p] = new[p]]
    BY <1>0, <1>4 DEF Control!ApplyDelta, Control!InSequence
  <2>2. obj.applied_seq >= 0 /\ obj.view = old
    BY <2>1 DEF Metadata
  <2>3. old \in Leaders /\ new \in Leaders
    BY <2>1
  <2>4. OneApart(old, new)
    BY <2>1 DEF Metadata
  <2>5. PICK q \in Partition : old[q] # new[q] /\ \A r \in Partition \ {q} : old[r] = new[r]
    BY <2>4 DEF OneApart
  <2>6. p = q
    <3>1. \E r \in Partition : new[r] # old[r]
      BY <2>5
    <3>2. p \in Partition /\ new[p] # old[p]
      BY <3>1 DEF Control!Changed, Control!PARTITIONS, Partition
    <3> QED BY <2>5, <3>2
  <2> HIDE DEF p, old, new
  <2>7. [obj.view EXCEPT ![p] = new[p]] = new
    BY <2>2, <2>3, <2>5, <2>6 DEF Leaders
  <2>8. obj' = [obj EXCEPT !.applied_seq = seq, !.view = new, !.needs_resync = obj.needs_resync]
    BY <2>1, <2>7 DEF MetadataRecord
  <2>9. new \in [Partition -> 0 .. 3]
    BY <2>3 DEF Leaders, Broker
  <2>10. /\ obj' \in MetadataRecord /\ obj'.applied_seq = seq /\ obj'.view = new
         /\ obj'.history = obj.history /\ obj'.fetched = obj.fetched /\ obj'.since = obj.since
         /\ obj'.version = obj.version /\ obj'.cached = obj.cached
    <3>1. seq \in Int /\ obj.needs_resync \in BOOLEAN /\ obj \in MetadataRecord
      OBVIOUS
    <3> QED BY <2>8, <2>9, <3>1, AppliedFields, Zenon
  <2>11. seq \in 0 .. Len(obj.history) - 1
    BY <2>1
  <2> QED BY <1>1, <2>10, <2>11 DEF new
<1> QED BY <1>2, <1>3, <1>4

\* What the client learns is the broker's view at its version.
LEMMA MetadataLearns ==
  ASSUME Metadata, NEW p \in Partition,
         Control!Bootstrap \/ Control!OnNewerVersionSeen \/ Control!OnNotLeader(p)
         \/ Control!TakeOver
  PROVE  Metadata'
<1> USE MetadataFields
<1>1. CASE Control!TakeOver
  <2> DEFINE next == obj.controller_epoch + 1
  <2>1. obj' = [obj EXCEPT !.controller_epoch = next] /\ next \in Nat
    BY <1>1 DEF Control!TakeOver
  <2> HIDE DEF next
  <2>2. /\ obj' \in MetadataRecord
        /\ obj'.applied_seq = obj.applied_seq /\ obj'.view = obj.view
        /\ obj'.history = obj.history /\ obj'.fetched = obj.fetched /\ obj'.since = obj.since
        /\ obj'.version = obj.version /\ obj'.cached = obj.cached
    BY <2>1 DEF MetadataRecord
  <2> QED BY <2>2 DEF Metadata
<1>2. CASE (Control!Bootstrap \/ Control!OnNewerVersionSeen) /\ obj.applied_seq >= 0
  <2> DEFINE since == [q \in Partition |-> obj.applied_seq]
  <2>1. obj' = [obj EXCEPT !.fetched = TRUE, !.version = obj.applied_seq, !.cached = obj.view,
                           !.since = since]
    <3>1. CASE Control!Bootstrap
      BY <3>1 DEF Control!Bootstrap, Control!PARTITIONS, Partition
    <3>2. CASE Control!OnNewerVersionSeen
      BY <3>2 DEF Control!OnNewerVersionSeen, Control!PARTITIONS, Partition, Metadata,
                  MetadataRecord
    <3> QED BY <1>2, <3>1, <3>2
  <2>2. /\ since \in [Partition -> Int] /\ obj.view = obj.history[obj.applied_seq + 1]
        /\ \A q \in Partition : since[q] = obj.applied_seq
    BY <1>2 DEF Metadata
  <2> HIDE DEF since
  <2>3. /\ obj' \in MetadataRecord
        /\ obj'.applied_seq = obj.applied_seq /\ obj'.view = obj.view
        /\ obj'.history = obj.history /\ obj'.since = since
        /\ obj'.version = obj.applied_seq /\ obj'.cached = obj.view
    BY <2>1, <2>2 DEF Metadata, MetadataRecord
  <2> QED BY <1>2, <2>2, <2>3 DEF Metadata
<1>3. obj.fetched => obj.version >= 0
  <2>1. 1 \in Partition
    BY DEF Partition
  <2>2. obj.since[1] \in Int
    BY <2>1
  <2> QED BY <2>1, <2>2 DEF Metadata
<1>4. CASE Control!Bootstrap \/ Control!OnNewerVersionSeen
  <2>1. obj.applied_seq >= 0
    BY <1>3, <1>4 DEF Control!Bootstrap, Control!OnNewerVersionSeen
  <2> QED BY <1>2, <1>4, <2>1
<1>5. CASE Control!OnNotLeader(p)
  <2> DEFINE cached == [obj.cached EXCEPT ![p] = obj.view[p]]
             since  == [obj.since EXCEPT ![p] = obj.applied_seq]
  <2>1. /\ obj.fetched /\ obj.applied_seq >= obj.version
        /\ obj' = [obj EXCEPT !.version = obj.applied_seq, !.cached = cached, !.since = since]
    BY <1>5 DEF Control!OnNotLeader
  <2>2. obj.applied_seq >= 0 /\ obj.view = obj.history[obj.applied_seq + 1]
    BY <1>3, <2>1 DEF Metadata
  <2>3. /\ cached \in [Partition -> 0 .. 3] /\ since \in [Partition -> Int]
        /\ cached[p] = obj.view[p] /\ since[p] = obj.applied_seq
        /\ \A q \in Partition \ {p} : cached[q] = obj.cached[q] /\ since[q] = obj.since[q]
    OBVIOUS
  <2> HIDE DEF cached, since
  <2>4. \A q \in Partition :
          /\ 0 <= since[q] /\ since[q] < Len(obj.history) /\ since[q] <= obj.applied_seq
          /\ cached[q] = obj.history[since[q] + 1][q]
    <3> SUFFICES ASSUME NEW q \in Partition
                 PROVE  /\ 0 <= since[q] /\ since[q] < Len(obj.history) /\ since[q] <= obj.applied_seq
                        /\ cached[q] = obj.history[since[q] + 1][q]
      OBVIOUS
    <3>1. CASE q = p
      BY <2>2, <2>3, <3>1 DEF Metadata
    <3>2. CASE q # p
      <4>1. since[q] = obj.since[q] /\ cached[q] = obj.cached[q]
            /\ obj.since[q] \in Int
        BY <2>3, <3>2
      <4>2. 0 <= obj.since[q] /\ obj.since[q] < Len(obj.history) /\ obj.since[q] <= obj.version
            /\ obj.cached[q] = obj.history[obj.since[q] + 1][q]
        BY <2>1 DEF Metadata
      <4> QED BY <2>1, <4>1, <4>2
    <3> QED BY <3>1, <3>2
  <2>5. /\ obj' \in MetadataRecord
        /\ obj'.applied_seq = obj.applied_seq /\ obj'.view = obj.view
        /\ obj'.history = obj.history /\ obj'.since = since
        /\ obj'.version = obj.applied_seq /\ obj'.cached = cached
    BY <2>1, <2>3 DEF Metadata, MetadataRecord
  <2> QED BY <2>2, <2>4, <2>5 DEF Metadata
<1> QED BY <1>1, <1>4, <1>5

\* Every step of a metadata object keeps its invariant.
LEMMA MetadataStep ==
  ASSUME ControlConstants, Metadata, Control!MetadataNext
  PROVE  Metadata'
<1>1. CASE Control!TakeOver \/ Control!Bootstrap \/ Control!OnNewerVersionSeen
  <2>1. 1 \in Partition
    BY DEF Partition
  <2> QED BY <1>1, <2>1, MetadataLearns
<1>2. ASSUME NEW e \in 1 .. 2, NEW p \in Partition, NEW b \in Broker, Control!UpdateLeader(e, p, b)
      PROVE  Metadata'
  BY <1>2, MetadataUpdates
<1>3. ASSUME NEW seq \in 0 .. MaxVersion, Control!FullImage(seq) \/ Control!ApplyDelta(seq)
      PROVE  Metadata'
  <2>1. seq \in Nat
    OBVIOUS
  <2> QED BY <1>3, <2>1, MetadataApplies
<1>4. ASSUME NEW p \in Partition, Control!OnNotLeader(p)
      PROVE  Metadata'
  BY <1>4, MetadataLearns
<1> QED BY <1>1, <1>2, <1>3, <1>4
        DEF Control!MetadataNext, Control!BROKERS, Broker, Control!PARTITIONS, Partition

----------------------------------------------------------------------------
\* The fields of a rolling restart, a decommission and the feature levels.
UpkeepRecord ==
  [class : {"upkeep"}, down : SUBSET Broker, restarted : SUBSET Broker,
   isr : [Partition -> SUBSET Broker], under_replicated : SUBSET Partition,
   leads : SUBSET Partition, hosts : SUBSET Partition, gone : BOOLEAN,
   level : [Broker -> {1, 2}], enabled : BOOLEAN, unreconciled : BOOLEAN]

\* Where partition p has its replicas.
Homes(p) == IF p \in obj.hosts THEN Broker \ {p} ELSE Broker \ {3}

\* Upkeep: a partition is in sync on some of its replicas, and on all of them when the
\* restart has not been told otherwise; broker 3 leaves once it hosts nothing.
Upkeep ==
  /\ obj \in UpkeepRecord
  /\ \A p \in Partition : /\ obj.isr[p] \subseteq Homes(p) /\ obj.isr[p] # {}
                          /\ p \notin obj.under_replicated => obj.isr[p] = Homes(p)
  /\ obj.gone => obj.hosts = {}
  /\ obj.enabled /\ ~ obj.unreconciled => Control!Laggards(obj) = {}

\* The fields that service depends on.
UpkeepFrame(isr, under, hosts) ==
  /\ obj' \in UpkeepRecord
  /\ obj'.isr = isr /\ obj'.under_replicated = under /\ obj'.hosts = hosts

\* The steps that leave the replicas alone.
LEMMA UpkeepFlags ==
  ASSUME Upkeep, NEW b \in Broker, NEW p \in Partition,
         \/ Control!Return(b) \/ Control!LeadershipMoved(p) \/ Control!Unregister
         \/ Control!Enable \/ Control!Downgrade(b) \/ Control!Reconcile
  PROVE  Upkeep'
<1>0. obj \in UpkeepRecord /\ obj.level \in [Broker -> {1, 2}]
  BY DEF Upkeep, UpkeepRecord
<1> DEFINE Kept == \A q \in Partition :
             /\ obj'.isr[q] \subseteq Homes(q)' /\ obj'.isr[q] # {}
             /\ q \notin obj'.under_replicated => obj'.isr[q] = Homes(q)'
<1>1. ASSUME UpkeepFrame(obj.isr, obj.under_replicated, obj.hosts) PROVE Kept
  BY <1>1 DEF UpkeepFrame, Homes, Upkeep
<1> HIDE DEF Kept
<1>2. \A o : Control!Laggards(o) =
        {k \in (IF o.gone THEN Broker \ {3} ELSE Broker) : o.level[k] < 2}
  BY DEF Control!Laggards, Control!Members, Control!BROKERS, Broker
<1>3. CASE Control!Return(b)
  <2>1. obj' = [obj EXCEPT !.down = @ \ {b}, !.level = [obj.level EXCEPT ![b] = 2]]
    BY <1>3 DEF Control!Return
  <2>2. [obj.level EXCEPT ![b] = 2] \in [Broker -> {1, 2}]
    BY <1>0
  <2>3. /\ UpkeepFrame(obj.isr, obj.under_replicated, obj.hosts)
        /\ obj'.gone = obj.gone /\ obj'.enabled = obj.enabled /\ obj'.unreconciled = obj.unreconciled
        /\ obj'.level = [obj.level EXCEPT ![b] = 2]
    BY <1>0, <2>1, <2>2 DEF UpkeepRecord, UpkeepFrame
  <2>4. Control!Laggards(obj) = {} => Control!Laggards(obj)' = {}
    BY <1>0, <1>2, <2>3
  <2> QED BY <1>1, <2>3, <2>4 DEF Upkeep, UpkeepFrame, Kept
<1>4. CASE Control!LeadershipMoved(p)
  <2>1. obj' = [obj EXCEPT !.leads = @ \ {p}]
    BY <1>4 DEF Control!LeadershipMoved
  <2>2. /\ UpkeepFrame(obj.isr, obj.under_replicated, obj.hosts)
        /\ obj'.gone = obj.gone /\ obj'.enabled = obj.enabled /\ obj'.unreconciled = obj.unreconciled
        /\ obj'.level = obj.level
    BY <1>0, <2>1 DEF UpkeepRecord, UpkeepFrame
  <2>3. Control!Laggards(obj)' = Control!Laggards(obj)
    BY <1>2, <2>2
  <2> QED BY <1>1, <2>2, <2>3 DEF Upkeep, UpkeepFrame, Kept
<1>5. CASE Control!Unregister
  <2>1. obj' = [obj EXCEPT !.gone = TRUE, !.down = @ \ {3}] /\ obj.hosts = {}
    BY <1>5 DEF Control!Unregister
  <2>2. /\ UpkeepFrame(obj.isr, obj.under_replicated, obj.hosts)
        /\ obj'.gone /\ obj'.enabled = obj.enabled /\ obj'.unreconciled = obj.unreconciled
        /\ obj'.level = obj.level
    BY <1>0, <2>1 DEF UpkeepRecord, UpkeepFrame
  <2>3. Control!Laggards(obj) = {} => Control!Laggards(obj)' = {}
    BY <1>2, <2>2
  <2> QED BY <1>1, <2>1, <2>2, <2>3 DEF Upkeep, UpkeepFrame, Kept
<1>6. CASE Control!Enable
  <2>1. obj' = [obj EXCEPT !.enabled = TRUE] /\ Control!Laggards(obj) = {}
    BY <1>6 DEF Control!Enable
  <2>2. /\ UpkeepFrame(obj.isr, obj.under_replicated, obj.hosts)
        /\ obj'.gone = obj.gone /\ obj'.level = obj.level
    BY <1>0, <2>1 DEF UpkeepRecord, UpkeepFrame
  <2>3. Control!Laggards(obj)' = {}
    BY <1>2, <2>1, <2>2
  <2> QED BY <1>1, <2>2, <2>3 DEF Upkeep, UpkeepFrame, Kept
<1>7. CASE Control!Downgrade(b)
  <2>1. obj' = [obj EXCEPT !.level = [obj.level EXCEPT ![b] = 1], !.unreconciled = TRUE]
    BY <1>7 DEF Control!Downgrade
  <2>2. [obj.level EXCEPT ![b] = 1] \in [Broker -> {1, 2}]
    BY <1>0
  <2>3. /\ UpkeepFrame(obj.isr, obj.under_replicated, obj.hosts)
        /\ obj'.gone = obj.gone /\ obj'.unreconciled
    BY <1>0, <2>1, <2>2 DEF UpkeepRecord, UpkeepFrame
  <2> QED BY <1>1, <2>3 DEF Upkeep, UpkeepFrame, Kept
<1>8. CASE Control!Reconcile
  <2> DEFINE on == obj.enabled /\ Control!Laggards(obj) = {}
  <2>1. obj' = [obj EXCEPT !.enabled = on, !.unreconciled = FALSE]
    BY <1>8 DEF Control!Reconcile
  <2>2. on \in BOOLEAN /\ (on => Control!Laggards(obj) = {})
    OBVIOUS
  <2> HIDE DEF on
  <2>3. /\ UpkeepFrame(obj.isr, obj.under_replicated, obj.hosts)
        /\ obj'.gone = obj.gone /\ obj'.level = obj.level /\ obj'.enabled = on
    BY <1>0, <2>1, <2>2 DEF UpkeepRecord, UpkeepFrame
  <2>4. obj'.enabled => Control!Laggards(obj)' = {}
    BY <1>2, <2>2, <2>3
  <2> QED BY <1>1, <2>3, <2>4 DEF Upkeep, UpkeepFrame, Kept
<1> QED BY <1>3, <1>4, <1>5, <1>6, <1>7, <1>8

\* The steps that take a broker out, bring its replicas back or move them.
LEMMA UpkeepReplicas ==
  ASSUME Upkeep, NEW b \in Broker, NEW p \in Partition,
         Control!Restart(b) \/ Control!CatchUp(p) \/ Control!ReplicaRehomed(p)
  PROVE  Upkeep'
<1>0. /\ obj \in UpkeepRecord /\ obj.isr \in [Partition -> SUBSET Broker]
      /\ obj.hosts \in SUBSET Partition /\ obj.under_replicated \in SUBSET Partition
  BY DEF Upkeep, UpkeepRecord
<1>1. \A o : Control!Laggards(o) =
        {k \in (IF o.gone THEN Broker \ {3} ELSE Broker) : o.level[k] < 2}
  BY DEF Control!Laggards, Control!Members, Control!BROKERS, Broker
<1>2. CASE Control!Restart(b)
  <2> DEFINE isr   == [q \in Partition |-> obj.isr[q] \ {b}]
             under == obj.under_replicated \cup {q \in Partition : b \in obj.isr[q]}
  <2>1. /\ obj.under_replicated = {}
        /\ obj' = [obj EXCEPT !.down = @ \cup {b}, !.restarted = @ \cup {b}, !.isr = isr,
                              !.under_replicated = under]
    BY <1>2 DEF Control!Restart, Control!MayRestart, Control!HOSTED, Partition
  <2>2. isr \in [Partition -> SUBSET Broker] /\ under \in SUBSET Partition
    BY <1>0
  <2>3. \A q \in Partition : isr[q] \subseteq Homes(q) /\ isr[q] # {}
                             /\ (q \notin under => isr[q] = Homes(q))
    <3> SUFFICES ASSUME NEW q \in Partition
                 PROVE  isr[q] \subseteq Homes(q) /\ isr[q] # {}
                        /\ (q \notin under => isr[q] = Homes(q))
      OBVIOUS
    <3>1. obj.isr[q] = Homes(q) /\ isr[q] = Homes(q) \ {b}
      BY <2>1 DEF Upkeep
    <3>2. Homes(q) \ {b} # {}
      BY DEF Homes, Broker, Partition
    <3>3. q \notin under => b \notin obj.isr[q]
      OBVIOUS
    <3> QED BY <3>1, <3>2, <3>3
  <2> HIDE DEF isr, under
  <2>4. /\ UpkeepFrame(isr, under, obj.hosts)
        /\ obj'.gone = obj.gone /\ obj'.enabled = obj.enabled /\ obj'.unreconciled = obj.unreconciled
        /\ obj'.level = obj.level
    BY <1>0, <2>1, <2>2 DEF UpkeepRecord, UpkeepFrame
  <2>5. Control!Laggards(obj)' = Control!Laggards(obj)
    BY <1>1, <2>4
  <2>6. \A q \in Partition : Homes(q)' = Homes(q)
    BY <2>4 DEF UpkeepFrame, Homes
  <2> QED BY <2>3, <2>4, <2>5, <2>6 DEF Upkeep, UpkeepFrame
<1>3. CASE Control!CatchUp(p)
  <2> DEFINE isr   == [obj.isr EXCEPT ![p] = Homes(p)]
             under == obj.under_replicated \ {p}
  <2>1. obj' = [obj EXCEPT !.under_replicated = under, !.isr = isr]
    BY <1>3 DEF Control!CatchUp, Control!Replicas, Control!BROKERS, Homes, Broker
  <2>2. Homes(p) \in SUBSET Broker /\ Homes(p) # {}
    BY DEF Homes, Broker, Partition
  <2>3. /\ isr \in [Partition -> SUBSET Broker] /\ under \in SUBSET Partition
        /\ isr[p] = Homes(p) /\ \A q \in Partition \ {p} : isr[q] = obj.isr[q]
    BY <1>0, <2>2
  <2>4. \A q \in Partition : isr[q] \subseteq Homes(q) /\ isr[q] # {}
                             /\ (q \notin under => isr[q] = Homes(q))
    BY <2>2, <2>3 DEF Upkeep
  <2> HIDE DEF isr, under
  <2>5. /\ UpkeepFrame(isr, under, obj.hosts)
        /\ obj'.gone = obj.gone /\ obj'.enabled = obj.enabled /\ obj'.unreconciled = obj.unreconciled
        /\ obj'.level = obj.level
    BY <1>0, <2>1, <2>3 DEF UpkeepRecord, UpkeepFrame
  <2>6. Control!Laggards(obj)' = Control!Laggards(obj)
    BY <1>1, <2>5
  <2>7. \A q \in Partition : Homes(q)' = Homes(q)
    BY <2>5 DEF UpkeepFrame, Homes
  <2> QED BY <2>4, <2>5, <2>6, <2>7 DEF Upkeep, UpkeepFrame
<1>4. CASE Control!ReplicaRehomed(p)
  <2> DEFINE isr   == [obj.isr EXCEPT ![p] = (obj.isr[p] \ {3}) \cup {p}]
             hosts == obj.hosts \ {p}
  <2>1. obj' = [obj EXCEPT !.hosts = hosts, !.isr = isr] /\ p \in obj.hosts
    BY <1>4 DEF Control!ReplicaRehomed
  <2>2. p \in Broker /\ p # 3
    BY DEF Partition, Broker
  <2>3. /\ isr \in [Partition -> SUBSET Broker] /\ hosts \in SUBSET Partition
        /\ isr[p] = (obj.isr[p] \ {3}) \cup {p} /\ \A q \in Partition \ {p} : isr[q] = obj.isr[q]
    BY <1>0, <2>2
  <2> HIDE DEF isr
  <2>4. /\ UpkeepFrame(isr, obj.under_replicated, hosts)
        /\ obj'.gone = obj.gone /\ obj'.enabled = obj.enabled /\ obj'.unreconciled = obj.unreconciled
        /\ obj'.level = obj.level
    BY <1>0, <2>1, <2>3 DEF UpkeepRecord, UpkeepFrame
  <2>5. Control!Laggards(obj)' = Control!Laggards(obj)
    BY <1>1, <2>4
  <2>6. \A q \in Partition \ {p} : Homes(q)' = Homes(q)
    BY <2>4 DEF UpkeepFrame, Homes
  <2>7. Homes(p)' = Broker \ {3} /\ Homes(p) = Broker \ {p}
    BY <2>1, <2>4 DEF UpkeepFrame, Homes
  <2>8. /\ obj.isr[p] \subseteq Broker \ {p}
        /\ p \notin obj.under_replicated => obj.isr[p] = Broker \ {p}
    BY <2>7 DEF Upkeep
  <2>9. /\ isr[p] \subseteq Homes(p)' /\ isr[p] # {}
        /\ p \notin obj.under_replicated => isr[p] = Homes(p)'
    BY <2>2, <2>3, <2>7, <2>8
  <2>10. \A q \in Partition : /\ obj'.isr[q] \subseteq Homes(q)' /\ obj'.isr[q] # {}
                              /\ q \notin obj'.under_replicated => obj'.isr[q] = Homes(q)'
    <3> SUFFICES ASSUME NEW q \in Partition
                 PROVE  /\ obj'.isr[q] \subseteq Homes(q)' /\ obj'.isr[q] # {}
                        /\ q \notin obj'.under_replicated => obj'.isr[q] = Homes(q)'
      OBVIOUS
    <3>1. CASE q = p
      BY <2>4, <2>9, <3>1 DEF UpkeepFrame
    <3>2. CASE q # p
      BY <2>3, <2>4, <2>6, <3>2 DEF UpkeepFrame, Upkeep
    <3> QED BY <3>1, <3>2
  <2> QED BY <2>1, <2>4, <2>5, <2>10 DEF Upkeep, UpkeepFrame
<1> QED BY <1>2, <1>3, <1>4

\* Every step of an upkeep object keeps its invariant.
LEMMA UpkeepStep ==
  ASSUME Upkeep, Control!UpkeepNext
  PROVE  Upkeep'
<1>1. 1 \in Broker /\ 1 \in Partition
  BY DEF Broker, Partition
<1>2. CASE Control!Unregister \/ Control!Enable \/ Control!Reconcile
  BY <1>1, <1>2, UpkeepFlags
<1>3. ASSUME NEW b \in Broker, Control!Restart(b) \/ Control!Return(b) \/ Control!Downgrade(b)
      PROVE  Upkeep'
  BY <1>1, <1>3, UpkeepFlags, UpkeepReplicas
<1>4. ASSUME NEW p \in Partition,
             Control!CatchUp(p) \/ Control!LeadershipMoved(p) \/ Control!ReplicaRehomed(p)
      PROVE  Upkeep'
  BY <1>1, <1>4, UpkeepFlags, UpkeepReplicas
<1> QED BY <1>2, <1>3, <1>4 DEF Control!UpkeepNext, Control!BROKERS, Broker, Control!HOSTED, Partition
----------------------------------------------------------------------------
\* The control plane's inductive invariant: that of the object at hand.
ControlInv == Leadership \/ Metadata \/ Upkeep

\* Every object starts in its invariant.
LEMMA ControlStarts ==
  ASSUME Control!Init
  PROVE  ControlInv
<1> USE DEF Control!BROKERS, Control!PARTITIONS, Control!HOSTED, Control!PREFERRED
<1>1. CASE Control!LeadershipInit
  <2>1. PICK unclean \in BOOLEAN :
          obj = [class |-> "leadership", allow_unclean |-> unclean,
                 up |-> Broker, fenced |-> {}, quiet |-> [b \in Broker |-> 0],
                 leader |-> 1, in_sync |-> Broker, end |-> [b \in Broker |-> 0],
                 committed |-> 0, lost |-> 0, held |-> 0]
    BY <1>1 DEF Control!LeadershipInit, Broker
  <2>2. 1 \in Broker
    BY DEF Broker
  <2>3. Leadership
    BY <2>1, <2>2 DEF Leadership
  <2> QED BY <2>3 DEF ControlInv
<1>2. CASE Control!MetadataInit
  <2> DEFINE first == [p \in Partition |-> 1]
             zero  == [p \in Partition |-> 0]
  <2>1. obj = [class |-> "metadata", controller_epoch |-> 1, history |-> << first >>,
               applied_seq |-> -1, view |-> zero, needs_resync |-> FALSE, fetched |-> FALSE,
               version |-> 0, cached |-> zero, since |-> zero]
    BY <1>2 DEF Control!MetadataInit, Partition
  <2>2. first \in Leaders /\ zero \in [Partition -> 0 .. 3] /\ zero \in [Partition -> Int]
    BY DEF Leaders, Broker
  <2> HIDE DEF first, zero
  <2>3. << first >> \in Seq(Leaders) /\ Len(<< first >>) = 1
    BY <2>2
  <2>4. obj \in MetadataRecord
    BY <2>1, <2>2, <2>3 DEF MetadataRecord
  <2>5. obj.history = << first >> /\ obj.applied_seq = -1 /\ obj.fetched = FALSE
    BY <2>1
  <2>6. Metadata
    BY <2>3, <2>4, <2>5 DEF Metadata
  <2> QED BY <2>6 DEF ControlInv
<1>3. CASE Control!UpkeepInit
  <2>1. obj = [class |-> "upkeep", down |-> {}, restarted |-> {},
               isr |-> [p \in Partition |-> Broker \ {p}], under_replicated |-> {},
               leads |-> {1}, hosts |-> Partition, gone |-> FALSE,
               level |-> [b \in Broker |-> 1], enabled |-> FALSE, unreconciled |-> FALSE]
    BY <1>3 DEF Control!UpkeepInit, Partition, Broker
  <2>2. {1} \in SUBSET Partition
    BY DEF Partition
  <2>3. obj \in UpkeepRecord
    BY <2>1, <2>2 DEF UpkeepRecord
  <2>4. \A p \in Partition : Broker \ {p} # {}
    BY DEF Partition, Broker
  <2>5. Upkeep
    BY <2>1, <2>3, <2>4 DEF Upkeep, Homes
  <2> QED BY <2>5 DEF ControlInv
<1> QED BY <1>1, <1>2, <1>3 DEF Control!Init

\* A step is one of the object's own.
LEMMA ControlSteps ==
  ASSUME ControlConstants, ControlInv, [Control!Next]_obj
  PROVE  ControlInv'
<1>1. CASE UNCHANGED obj
  <2>1. Leadership => Leadership'
    BY <1>1 DEF Leadership
  <2>2. Metadata => Metadata'
    BY <1>1 DEF Metadata
  <2>3. Upkeep => Upkeep'
    BY <1>1 DEF Upkeep, Homes, Control!Laggards, Control!Members
  <2> QED BY <2>1, <2>2, <2>3 DEF ControlInv
<1>2. /\ Control!LeadershipNext => obj.class = "leadership"
      /\ Control!MetadataNext => obj.class = "metadata"
      /\ Control!UpkeepNext => obj.class = "upkeep"
  <2>1. Control!LeadershipNext => obj.class = "leadership"
    <3>1. Control!Produce => obj.class = "leadership"
      BY Zenon DEF Control!Produce
    <3>2. Control!LeadershipTick => obj.class = "leadership"
      BY Zenon DEF Control!LeadershipTick
    <3>3. Control!FenceLapsed => obj.class = "leadership"
      BY Zenon DEF Control!FenceLapsed
    <3>4. Control!Elect => obj.class = "leadership"
      BY Zenon DEF Control!Elect
    <3>5. Control!Restore => obj.class = "leadership"
      BY Zenon DEF Control!Restore
    <3>6. ASSUME NEW b, Control!Catch(b) PROVE obj.class = "leadership"
      BY <3>6, Zenon DEF Control!Catch
    <3>7. ASSUME NEW b, Control!DropOut(b) PROVE obj.class = "leadership"
      BY <3>7, Zenon DEF Control!DropOut
    <3>8. ASSUME NEW b, Control!Die(b) PROVE obj.class = "leadership"
      BY <3>8, Zenon DEF Control!Die
    <3>9. ASSUME NEW b, Control!Heartbeat(b) PROVE obj.class = "leadership"
      BY <3>9, Zenon DEF Control!Heartbeat
    <3>10. ASSUME NEW b, Control!Register(b) PROVE obj.class = "leadership"
      BY <3>10, Zenon DEF Control!Register
    <3>11. ASSUME NEW b, Control!ShutDownCleanly(b) PROVE obj.class = "leadership"
      BY <3>11, Zenon DEF Control!ShutDownCleanly
    <3> QED BY <3>1, <3>2, <3>3, <3>4, <3>5, <3>6, <3>7, <3>8, <3>9, <3>10, <3>11, Zenon DEF Control!LeadershipNext
  <2>2. Control!MetadataNext => obj.class = "metadata"
    <3>1. Control!TakeOver => obj.class = "metadata"
      BY Zenon DEF Control!TakeOver
    <3>2. Control!Bootstrap => obj.class = "metadata"
      BY Zenon DEF Control!Bootstrap
    <3>3. Control!OnNewerVersionSeen => obj.class = "metadata"
      BY Zenon DEF Control!OnNewerVersionSeen
    <3>4. ASSUME NEW e, NEW p, NEW b, Control!UpdateLeader(e, p, b) PROVE obj.class = "metadata"
      BY <3>4, Zenon DEF Control!UpdateLeader
    <3>5. ASSUME NEW seq, Control!FullImage(seq) PROVE obj.class = "metadata"
      BY <3>5, Zenon DEF Control!FullImage
    <3>6. ASSUME NEW seq, Control!ApplyDelta(seq) PROVE obj.class = "metadata"
      BY <3>6, Zenon DEF Control!ApplyDelta
    <3>7. ASSUME NEW p, Control!OnNotLeader(p) PROVE obj.class = "metadata"
      BY <3>7, Zenon DEF Control!OnNotLeader
    <3> QED BY <3>1, <3>2, <3>3, <3>4, <3>5, <3>6, <3>7, Zenon DEF Control!MetadataNext
  <2>3. Control!UpkeepNext => obj.class = "upkeep"
    <3>1. Control!Unregister => obj.class = "upkeep"
      BY Zenon DEF Control!Unregister
    <3>2. Control!Enable => obj.class = "upkeep"
      BY Zenon DEF Control!Enable
    <3>3. Control!Reconcile => obj.class = "upkeep"
      BY Zenon DEF Control!Reconcile
    <3>4. ASSUME NEW b, Control!Restart(b) PROVE obj.class = "upkeep"
      BY <3>4, Zenon DEF Control!Restart
    <3>5. ASSUME NEW b, Control!Return(b) PROVE obj.class = "upkeep"
      BY <3>5, Zenon DEF Control!Return
    <3>6. ASSUME NEW b, Control!Downgrade(b) PROVE obj.class = "upkeep"
      BY <3>6, Zenon DEF Control!Downgrade
    <3>7. ASSUME NEW p, Control!CatchUp(p) PROVE obj.class = "upkeep"
      BY <3>7, Zenon DEF Control!CatchUp
    <3>8. ASSUME NEW p, Control!LeadershipMoved(p) PROVE obj.class = "upkeep"
      BY <3>8, Zenon DEF Control!LeadershipMoved
    <3>9. ASSUME NEW p, Control!ReplicaRehomed(p) PROVE obj.class = "upkeep"
      BY <3>9, Zenon DEF Control!ReplicaRehomed
    <3> QED BY <3>1, <3>2, <3>3, <3>4, <3>5, <3>6, <3>7, <3>8, <3>9, Zenon DEF Control!UpkeepNext
  <2> QED BY <2>1, <2>2, <2>3
<1>3. /\ Leadership => obj.class = "leadership"
      /\ Metadata => obj.class = "metadata"
      /\ Upkeep => obj.class = "upkeep"
  BY DEF Leadership, Metadata, MetadataRecord, Upkeep, UpkeepRecord
<1>4. CASE Leadership /\ Control!LeadershipNext
  BY <1>4, LeadershipStep DEF ControlInv
<1>5. CASE Metadata /\ Control!MetadataNext
  BY <1>5, MetadataStep DEF ControlInv
<1>6. CASE Upkeep /\ Control!UpkeepNext
  BY <1>6, UpkeepStep DEF ControlInv
<1> QED BY <1>1, <1>2, <1>3, <1>4, <1>5, <1>6 DEF Control!Next, ControlInv

\* The invariant says what the control plane promises.
LEMMA ControlPromises ==
  ASSUME ControlInv
  PROVE  Control!ControlIsSafe
<1>1. CASE Leadership
  <2>1. obj.class = "leadership"
    BY <1>1, LeadershipFields
  <2>2. Control!LeaderKeepsCommitted
    BY <1>1 DEF Leadership, Control!LeaderKeepsCommitted, Control!NOBODY
  <2> QED BY <2>1, <2>2 DEF Control!ControlIsSafe, Control!ViewsAreVersions, Control!UpkeepKeepsService
<1>2. CASE Metadata
  <2>1. obj.class = "metadata"
    BY <1>2, MetadataFields
  <2>2. Control!ViewsAreVersions
    BY <1>2 DEF Metadata, Control!ViewsAreVersions, Control!PARTITIONS, Partition
  <2> QED BY <2>1, <2>2
          DEF Control!ControlIsSafe, Control!LeaderKeepsCommitted, Control!UpkeepKeepsService
<1>3. CASE Upkeep
  <2>1. obj.class = "upkeep"
    BY <1>3 DEF Upkeep, UpkeepRecord
  <2>2. Control!UpkeepKeepsService
    BY <1>3 DEF Upkeep, Homes, Control!UpkeepKeepsService, Control!HOSTED, Partition
  <2> QED BY <2>1, <2>2
          DEF Control!ControlIsSafe, Control!LeaderKeepsCommitted, Control!ViewsAreVersions
<1> QED BY <1>1, <1>2, <1>3 DEF ControlInv

(***************************************************************************)
(* For any session timeout and hold-down, and over histories of any        *)
(* length: leadership stays with brokers that hold what is committed, only *)
(* an election allowed to be unclean loses records, every view of the      *)
(* cluster is one of its versions, and restarts mixed with a decommission  *)
(* keep every partition served.                                            *)
(***************************************************************************)
THEOREM ControlPlaneIsSafe ==
  ASSUME ControlConstants
  PROVE  Control!Init /\ [][Control!Next]_obj => []ControlIsSafe
<1>1. Control!Init => ControlInv
  BY ControlStarts
<1>2. ControlInv /\ [Control!Next]_obj => ControlInv'
  BY ControlSteps
<1>3. ControlInv => ControlIsSafe
  BY ControlPromises DEF ControlIsSafe
<1> QED BY <1>1, <1>2, <1>3, PTL

----------------------------------------------------------------------------
(***************************************************************************)
(* Administration.  The constants are ticks and bounds.                    *)
(***************************************************************************)
AdminConstants == SessionTimeout \in Nat /\ MaxLifetime \in Nat

\* The fields of a group of static members.
StaticRecord ==
  [class : {"static"}, now : Nat, joined : SUBSET (1 .. 2), connected : SUBSET (1 .. 2),
   part : [1 .. 2 -> SUBSET (1 .. 2)], last_seen : [1 .. 2 -> Nat],
   heartbeat : [1 .. 2 -> Nat], poll : [1 .. 2 -> Nat]]

\* A member at work, or away and still expected back.
Expected(m) == m \in obj.connected \/ obj.now - obj.last_seen[m] <= SessionTimeout

\* Two members that are at work or expected back share no partition, so that
\* whichever of them returns finds its own to itself.
Static ==
  /\ obj \in StaticRecord
  /\ obj.connected \subseteq obj.joined
  /\ \A m, n \in obj.joined :
       m # n /\ Expected(m) /\ Expected(n) => obj.part[m] \cap obj.part[n] = {}

\* The fields of such a group, one by one.
LEMMA StaticFields ==
  ASSUME obj \in StaticRecord
  PROVE  /\ obj.class = "static" /\ obj.now \in Nat
         /\ obj.joined \subseteq 1 .. 2 /\ obj.connected \subseteq 1 .. 2
         /\ obj.part \in [1 .. 2 -> SUBSET (1 .. 2)] /\ obj.last_seen \in [1 .. 2 -> Nat]
         /\ obj.heartbeat \in [1 .. 2 -> Nat] /\ obj.poll \in [1 .. 2 -> Nat]
BY DEF StaticRecord

\* A member joins, and is given what nobody at work or expected back has.
LEMMA JoinStep ==
  ASSUME AdminConstants, Static, NEW m \in 1 .. 2, Admin!JoinStatic(m)
  PROVE  Static'
<1>0. obj \in StaticRecord
  BY DEF Static
<1>1. PICK give \in SUBSET Admin!Free(obj, m) :
        obj' = [obj EXCEPT !.joined = @ \cup {m}, !.connected = @ \cup {m}, !.part[m] = give,
                  !.last_seen[m] = obj.now, !.heartbeat[m] = obj.now, !.poll[m] = obj.now]
  BY Zenon DEF Admin!JoinStatic
<1>2. give \subseteq 1 .. 2
  BY <1>1 DEF Admin!Free, Admin!MEMBERS
<1>3. obj' \in StaticRecord
  BY <1>0, <1>1, <1>2 DEF StaticRecord
<1>4. /\ obj'.joined = obj.joined \cup {m} /\ obj'.connected = obj.connected \cup {m}
      /\ obj'.part = [obj.part EXCEPT ![m] = give] /\ obj'.now = obj.now
      /\ obj'.last_seen = [obj.last_seen EXCEPT ![m] = obj.now]
  BY <1>0, <1>1 DEF StaticRecord
<1>5. ASSUME NEW n \in obj.joined, n # m, Expected(n) PROVE give \cap obj.part[n] = {}
  <2>1. n \in 1 .. 2 /\ obj.last_seen[n] \in Nat /\ obj.now \in Nat
    BY <1>0, StaticFields
  <2>2. ~ (n \notin obj.connected /\ Admin!TimedOut(obj, n))
    BY <1>5, <2>1 DEF Expected, Admin!TimedOut, AdminConstants
  <2> QED BY <1>1, <1>5, <2>2 DEF Admin!Free
<1>6. ASSUME NEW n \in obj.joined, n # m, Expected(n)' PROVE Expected(n) /\ obj'.part[n] = obj.part[n]
  <2>1. n \in 1 .. 2
    BY <1>0, StaticFields
  <2> QED BY <1>0, <1>4, <1>6, <2>1, StaticFields DEF Expected
<1>7. obj'.part[m] = give
  BY <1>0, <1>4, StaticFields
<1>8. ASSUME NEW n \in obj'.joined, NEW k \in obj'.joined, n # k, Expected(n)', Expected(k)'
      PROVE  obj'.part[n] \cap obj'.part[k] = {}
  <2>1. CASE n = m
    BY <1>4, <1>5, <1>6, <1>7, <1>8, <2>1
  <2>2. CASE k = m
    BY <1>4, <1>5, <1>6, <1>7, <1>8, <2>2
  <2>3. CASE n # m /\ k # m
    <3>1. n \in obj.joined /\ k \in obj.joined
      BY <1>4, <2>3
    <3> QED BY <1>6, <1>8, <2>3, <3>1 DEF Static
  <2> QED BY <2>1, <2>2, <2>3
<1>9. obj'.connected \subseteq obj'.joined
  BY <1>4 DEF Static
<1> QED BY <1>3, <1>8, <1>9 DEF Static

\* The other steps of the members and of the clock make nobody expected who was
\* not, and leave the partitions alone.
LEMMA StaticStep ==
  ASSUME AdminConstants, Static, Admin!StaticNext
  PROVE  Static'
<1>0. obj \in StaticRecord /\ SessionTimeout \in Nat
  BY DEF Static, AdminConstants
<1>1. ASSUME obj' \in StaticRecord, obj'.joined = obj.joined, obj'.part = obj.part,
             obj'.connected \subseteq obj'.joined,
             \A n \in obj.joined : Expected(n)' => Expected(n)
      PROVE  Static'
  BY <1>1 DEF Static
<1>2. CASE Admin!StaticTick
  <2>1. obj' = [obj EXCEPT !.now = @ + 1]
    BY <1>2 DEF Admin!StaticTick
  <2>2. obj' \in StaticRecord
    BY <1>0, <2>1 DEF StaticRecord
  <2>3. /\ obj'.joined = obj.joined /\ obj'.part = obj.part /\ obj'.connected = obj.connected
        /\ obj'.now = obj.now + 1 /\ obj'.last_seen = obj.last_seen
    BY <1>0, <2>1 DEF StaticRecord
  <2>4. ASSUME NEW n \in obj.joined, Expected(n)' PROVE Expected(n)
    <3>1. n \in 1 .. 2 /\ obj.last_seen[n] \in Nat /\ obj.now \in Nat
      BY <1>0, StaticFields
    <3> QED BY <1>0, <2>3, <2>4, <3>1 DEF Expected
  <2> QED BY <1>1, <2>2, <2>3, <2>4 DEF Static
<1>3. ASSUME NEW m \in 1 .. 2, Admin!Heartbeat(m) \/ Admin!PollLoop(m)
      PROVE  Static'
  <2>1. \/ obj' = [obj EXCEPT !.heartbeat[m] = obj.now]
        \/ obj' = [obj EXCEPT !.poll[m] = obj.now, !.heartbeat[m] = obj.now]
    BY <1>3 DEF Admin!Heartbeat, Admin!PollLoop
  <2>2. obj' \in StaticRecord
    <3>1. CASE obj' = [obj EXCEPT !.heartbeat[m] = obj.now]
      BY <1>0, <3>1 DEF StaticRecord
    <3>2. CASE obj' = [obj EXCEPT !.poll[m] = obj.now, !.heartbeat[m] = obj.now]
      BY <1>0, <3>2 DEF StaticRecord
    <3> QED BY <2>1, <3>1, <3>2
  <2>3. /\ obj'.joined = obj.joined /\ obj'.part = obj.part /\ obj'.connected = obj.connected
        /\ obj'.now = obj.now /\ obj'.last_seen = obj.last_seen
    BY <1>0, <2>1 DEF StaticRecord
  <2> QED BY <1>1, <2>2, <2>3 DEF Static, Expected
<1>4. ASSUME NEW m \in 1 .. 2, Admin!Disconnect(m)
      PROVE  Static'
  <2>1. obj' = [obj EXCEPT !.connected = @ \ {m}, !.last_seen[m] = obj.now] /\ m \in obj.connected
    BY <1>4 DEF Admin!Disconnect
  <2>2. obj' \in StaticRecord
    BY <1>0, <2>1 DEF StaticRecord
  <2>3. /\ obj'.joined = obj.joined /\ obj'.part = obj.part /\ obj'.connected = obj.connected \ {m}
        /\ obj'.now = obj.now /\ obj'.last_seen = [obj.last_seen EXCEPT ![m] = obj.now]
    BY <1>0, <2>1 DEF StaticRecord
  <2>4. ASSUME NEW n \in obj.joined, Expected(n)' PROVE Expected(n)
    <3>1. n \in 1 .. 2
      BY <1>0, StaticFields
    <3> QED BY <1>0, <2>1, <2>3, <2>4, <3>1, StaticFields DEF Expected
  <2> QED BY <1>1, <2>2, <2>3, <2>4 DEF Static
<1>5. ASSUME NEW m \in 1 .. 2, Admin!Reconnect(m)
      PROVE  Static'
  <2>1. /\ obj' = [obj EXCEPT !.connected = @ \cup {m}, !.last_seen[m] = obj.now,
                              !.heartbeat[m] = obj.now, !.poll[m] = obj.now]
        /\ m \in obj.joined /\ ~ Admin!TimedOut(obj, m)
    BY <1>5 DEF Admin!Reconnect
  <2>2. obj' \in StaticRecord
    BY <1>0, <2>1 DEF StaticRecord
  <2>3. /\ obj'.joined = obj.joined /\ obj'.part = obj.part /\ obj'.connected = obj.connected \cup {m}
        /\ obj'.now = obj.now /\ obj'.last_seen = [obj.last_seen EXCEPT ![m] = obj.now]
    BY <1>0, <2>1 DEF StaticRecord
  <2>4. ASSUME NEW n \in obj.joined, Expected(n)' PROVE Expected(n)
    <3>1. n \in 1 .. 2 /\ obj.last_seen[n] \in Nat /\ obj.now \in Nat
      BY <1>0, StaticFields
    <3>2. CASE n = m
      BY <1>0, <2>1, <3>1, <3>2 DEF Expected, Admin!TimedOut
    <3>3. CASE n # m
      BY <1>0, <2>3, <2>4, <3>1, <3>3, StaticFields DEF Expected
    <3> QED BY <3>2, <3>3
  <2> QED BY <1>1, <2>1, <2>2, <2>3, <2>4 DEF Static
<1>6. ASSUME NEW m \in 1 .. 2, Admin!JoinStatic(m)
      PROVE  Static'
  BY <1>6, JoinStep
<1> QED BY <1>2, <1>3, <1>4, <1>5, <1>6 DEF Admin!StaticNext, Admin!MEMBERS

\* What the invariant says of the members.
LEMMA StaticPromise ==
  ASSUME AdminConstants, Static
  PROVE  Admin!OneMemberPerPartition
<1>1. ASSUME NEW n \in obj.joined, ~ Admin!TimedOut(obj, n) PROVE Expected(n)
  <2>1. n \in 1 .. 2 /\ obj.last_seen[n] \in Nat /\ obj.now \in Nat /\ SessionTimeout \in Nat
    BY StaticFields DEF Static, AdminConstants
  <2> QED BY <1>1, <2>1 DEF Expected, Admin!TimedOut
<1> QED BY <1>1 DEF Static, Expected, Admin!OneMemberPerPartition

\* The rules a session is checked against.
Rules == {"alice", "bob", "*"} \X {"read", "write", "*"} \X BOOLEAN

\* The fields of a session.
AuthRecord ==
  [class : {"auth"}, now : Nat, expiry : Nat, revoked : BOOLEAN, horizon : Nat, session : Nat,
   rules : SUBSET Rules, shut : SUBSET {"read", "write"}, served : Int \X {"none", "read", "write"},
   wrong : BOOLEAN]

\* Among rules there is one that denies the operation.
Denied(rules, operation) ==
  \E r \in rules : r[1] \in {"alice", "*"} /\ r[2] \in {operation, "*"} /\ ~ r[3]

\* The token and the session end in time, a revoked token opens no other
\* session, and the rule that denied an operation is still there.
Auth ==
  /\ obj \in AuthRecord
  /\ obj.expiry <= MaxLifetime /\ obj.session <= MaxLifetime /\ obj.served[1] < MaxLifetime
  /\ obj.revoked => obj.session = obj.horizon
  /\ \A operation \in obj.shut : Denied(obj.rules, operation)
  /\ ~ obj.wrong

\* The fields of a session, one by one.
LEMMA AuthFields ==
  ASSUME obj \in AuthRecord
  PROVE  /\ obj.class = "auth" /\ obj.now \in Nat /\ obj.expiry \in Nat /\ obj.session \in Nat
         /\ obj.horizon \in Nat /\ obj.revoked \in BOOLEAN /\ obj.wrong \in BOOLEAN
         /\ obj.rules \subseteq Rules /\ obj.shut \subseteq {"read", "write"}
         /\ obj.served \in Int \X {"none", "read", "write"}
BY DEF AuthRecord

\* Tokens and the clock.
LEMMA TokenStep ==
  ASSUME AdminConstants, Auth,
         \/ Admin!Revoke \/ Admin!Authenticate \/ Admin!AuthTick
         \/ \E to \in 1 .. (MaxLifetime + 1) : Admin!RenewToken(to)
  PROVE  Auth'
<1>0. obj \in AuthRecord /\ MaxLifetime \in Nat
  BY DEF Auth, AdminConstants
<1>1. ASSUME obj' \in AuthRecord, obj'.rules = obj.rules, obj'.shut = obj.shut,
             obj'.served = obj.served, obj'.wrong = obj.wrong,
             obj'.expiry <= MaxLifetime, obj'.session <= MaxLifetime,
             obj'.revoked => obj'.session = obj'.horizon
      PROVE  Auth'
  BY <1>1 DEF Auth
<1>2. CASE Admin!Revoke
  <2>1. obj' = [obj EXCEPT !.revoked = TRUE, !.horizon = obj.session]
    BY <1>2 DEF Admin!Revoke
  <2>2. obj' \in AuthRecord
    BY <1>0, <2>1 DEF AuthRecord
  <2>3. /\ obj'.rules = obj.rules /\ obj'.shut = obj.shut /\ obj'.served = obj.served
        /\ obj'.wrong = obj.wrong /\ obj'.expiry = obj.expiry /\ obj'.session = obj.session
        /\ obj'.horizon = obj.session
    BY <1>0, <2>1 DEF AuthRecord
  <2> QED BY <1>1, <2>2, <2>3 DEF Auth
<1>3. CASE Admin!Authenticate
  <2>1. obj' = [obj EXCEPT !.session = obj.expiry] /\ ~ obj.revoked
    BY <1>3 DEF Admin!Authenticate, Admin!Usable
  <2>2. obj' \in AuthRecord
    BY <1>0, <2>1 DEF AuthRecord
  <2>3. /\ obj'.rules = obj.rules /\ obj'.shut = obj.shut /\ obj'.served = obj.served
        /\ obj'.wrong = obj.wrong /\ obj'.expiry = obj.expiry /\ obj'.session = obj.expiry
        /\ obj'.revoked = obj.revoked
    BY <1>0, <2>1 DEF AuthRecord
  <2> QED BY <1>1, <2>1, <2>2, <2>3 DEF Auth
<1>4. CASE Admin!AuthTick
  <2>1. obj' = [obj EXCEPT !.now = @ + 1]
    BY <1>4 DEF Admin!AuthTick
  <2>2. obj' \in AuthRecord
    BY <1>0, <2>1 DEF AuthRecord
  <2>3. /\ obj'.rules = obj.rules /\ obj'.shut = obj.shut /\ obj'.served = obj.served
        /\ obj'.wrong = obj.wrong /\ obj'.expiry = obj.expiry /\ obj'.session = obj.session
        /\ obj'.revoked = obj.revoked /\ obj'.horizon = obj.horizon
    BY <1>0, <2>1 DEF AuthRecord
  <2> QED BY <1>1, <2>2, <2>3 DEF Auth
<1>5. ASSUME NEW to \in 1 .. (MaxLifetime + 1), Admin!RenewToken(to)
      PROVE  Auth'
  <2>1. obj' = [obj EXCEPT !.expiry = to] /\ to <= MaxLifetime /\ to \in Nat
    BY <1>0, <1>5 DEF Admin!RenewToken
  <2>2. obj' \in AuthRecord
    BY <1>0, <2>1 DEF AuthRecord
  <2>3. /\ obj'.rules = obj.rules /\ obj'.shut = obj.shut /\ obj'.served = obj.served
        /\ obj'.wrong = obj.wrong /\ obj'.expiry = to /\ obj'.session = obj.session
        /\ obj'.revoked = obj.revoked /\ obj'.horizon = obj.horizon
    BY <1>0, <2>1 DEF AuthRecord
  <2> QED BY <1>1, <2>1, <2>2, <2>3 DEF Auth
<1> QED BY <1>2, <1>3, <1>4, <1>5

\* A rule is added; a denial shuts what it names and is its own witness.
LEMMA RuleStep ==
  ASSUME AdminConstants, Auth, NEW principal \in {"alice", "bob", "*"},
         NEW operation \in {"read", "write", "*"}, NEW allow \in BOOLEAN,
         Admin!AddRule(principal, operation, allow)
  PROVE  Auth'
<1> DEFINE rule == <<principal, operation, allow>>
           closes == IF allow \/ principal = "bob" THEN {}
                     ELSE IF operation = "*" THEN {"read", "write"} ELSE {operation}
           rules == obj.rules \cup {rule}
           shut == obj.shut \cup closes
<1>0. obj \in AuthRecord
  BY DEF Auth
<1>1. obj' = [obj EXCEPT !.rules = rules, !.shut = shut]
  <2>1. CASE allow \/ principal = "bob"
    <3>1. obj' = [obj EXCEPT !.rules = rules, !.shut = obj.shut]
      BY <1>0, <2>1 DEF Admin!AddRule, AuthRecord
    <3>2. shut = obj.shut
      BY <2>1
    <3> QED BY <3>1, <3>2
  <2>2. CASE ~ (allow \/ principal = "bob")
    BY <1>0, <2>2 DEF Admin!AddRule, AuthRecord, Admin!OPERATIONS
  <2> QED BY <2>1, <2>2
<1>2. rules \subseteq Rules /\ shut \subseteq {"read", "write"}
  BY <1>0, AuthFields DEF Rules
<1>3. ASSUME NEW op \in shut PROVE Denied(rules, op)
  <2>1. CASE op \in obj.shut
    BY <2>1 DEF Auth, Denied
  <2>2. CASE op \in closes
    <3>1. principal \in {"alice", "*"} /\ operation \in {op, "*"} /\ ~ allow
      BY <2>2
    <3>2. rule[1] = principal /\ rule[2] = operation /\ rule[3] = allow
      OBVIOUS
    <3> QED BY <3>1, <3>2 DEF Denied
  <2> QED BY <1>3, <2>1, <2>2
<1> HIDE DEF rules, shut
<1>4. obj' \in AuthRecord
  BY <1>0, <1>1, <1>2 DEF AuthRecord
<1>5. /\ obj'.rules = rules /\ obj'.shut = shut /\ obj'.served = obj.served
      /\ obj'.wrong = obj.wrong /\ obj'.expiry = obj.expiry /\ obj'.session = obj.session
      /\ obj'.revoked = obj.revoked /\ obj'.horizon = obj.horizon
  BY <1>0, <1>1 DEF AuthRecord
<1> QED BY <1>3, <1>4, <1>5 DEF Auth

\* A request is served within the session, and not if a rule denies it.
LEMMA ServeStep ==
  ASSUME AdminConstants, Auth, NEW operation \in {"read", "write"}, Admin!Serve(operation)
  PROVE  Auth'
<1>0. obj \in AuthRecord /\ MaxLifetime \in Nat
  BY DEF Auth, AdminConstants
<1>1. /\ obj' = [obj EXCEPT !.served = <<obj.now, operation>>, !.wrong = @ \/ operation \in obj.shut]
      /\ obj.now < obj.session
  BY DEF Admin!Serve
<1>2. operation \notin obj.shut
  <2>1. ~ \E r \in Admin!Matching(obj, operation) : ~ r[3]
    BY Zenon DEF Admin!Serve, Admin!Allowed
  <2>2. ~ Denied(obj.rules, operation)
    BY <2>1, Zenon DEF Denied, Admin!Matching
  <2> QED BY <2>2 DEF Auth
<1> DEFINE wrong == obj.wrong \/ operation \in obj.shut
           served == <<obj.now, operation>>
<1>3. wrong = FALSE
  BY <1>2 DEF Auth
<1>4. served \in Int \X {"none", "read", "write"} /\ served[1] = obj.now /\ served[1] < MaxLifetime
  <2>1. obj.now \in Nat /\ obj.session \in Nat /\ obj.session <= MaxLifetime
    BY <1>0, AuthFields DEF Auth
  <2>2. obj.now < MaxLifetime
    BY <1>0, <1>1, <2>1
  <2>3. obj.now \in Int
    BY <2>1
  <2>4. served \in Int \X {"none", "read", "write"} /\ served[1] = obj.now
    BY <2>3
  <2> QED BY <2>2, <2>4
<1>5. obj' = [obj EXCEPT !.served = served, !.wrong = FALSE]
  BY <1>0, <1>1, <1>3 DEF AuthRecord
<1> HIDE DEF served
<1>6. obj' \in AuthRecord
  BY <1>0, <1>4, <1>5 DEF AuthRecord
<1>7. /\ obj'.rules = obj.rules /\ obj'.shut = obj.shut /\ obj'.served = served
      /\ obj'.wrong = FALSE /\ obj'.expiry = obj.expiry /\ obj'.session = obj.session
      /\ obj'.revoked = obj.revoked /\ obj'.horizon = obj.horizon
  BY <1>0, <1>5 DEF AuthRecord
<1> QED BY <1>4, <1>6, <1>7 DEF Auth

\* Every step of a session.
LEMMA AuthStep ==
  ASSUME AdminConstants, Auth, Admin!AuthNext
  PROVE  Auth'
<1> DEFINE Pairs == {<<"alice", "read">>, <<"*", "write">>, <<"alice", "*">>, <<"bob", "*">>}
<1>1. ASSUME NEW rule \in Pairs, NEW allow \in BOOLEAN, Admin!AddRule(rule[1], rule[2], allow)
      PROVE  Auth'
  <2>1. rule[1] \in {"alice", "bob", "*"} /\ rule[2] \in {"read", "write", "*"}
    OBVIOUS
  <2> QED BY <1>1, <2>1, RuleStep
<1>2. ASSUME NEW operation \in {"read", "write"}, Admin!Serve(operation) PROVE Auth'
  BY <1>2, ServeStep
<1>3. \/ Admin!Revoke \/ Admin!Authenticate \/ Admin!AuthTick
      \/ \E to \in 1 .. (MaxLifetime + 1) : Admin!RenewToken(to)
      \/ \E operation \in {"read", "write"} : Admin!Serve(operation)
      \/ \E rule \in Pairs, allow \in BOOLEAN : Admin!AddRule(rule[1], rule[2], allow)
  BY Zenon DEF Admin!AuthNext, Admin!OPERATIONS
<1> HIDE DEF Pairs
<1> QED BY <1>1, <1>2, <1>3, TokenStep, Zenon

\* A record of a topic.
Sent == [key : 0 .. 2, slot : Nat, for : Nat]

\* The fields of a topic.
TopicRecord ==
  [class : {"topic"}, now : Nat, next_id : Nat, id : Nat,
   state : {"active", "marked", "removed"}, marked_at : Nat, count : Nat, round_robin : Nat,
   log : Seq(Sent), group : Nat, cached : Nat, asserted : BOOLEAN, unread : Nat]

\* Records of a key are where the present number of partitions puts them.
Routed(log, count, asserted) ==
  asserted \/ \A i \in 1 .. Len(log) : log[i].key # 0 => log[i].slot = log[i].key % count

\* Two records without a key, with none between them, are in different partitions.
Turns(log) ==
  \A i, j \in 1 .. Len(log) :
    /\ i < j /\ log[i].key = 0 /\ log[j].key = 0
    /\ \A k \in (i + 1) .. (j - 1) : log[k].key # 0
    => log[i].slot # log[j].slot

\* The last record without a key is not where the next one goes.
TurnMoved(log, next) ==
  \A i \in 1 .. Len(log) :
    log[i].key = 0 /\ (\A k \in (i + 1) .. Len(log) : log[k].key # 0) => log[i].slot # next

\* The topic's records are its own, each where it belongs, and none is lost.
Topic ==
  /\ obj \in TopicRecord
  /\ obj.unread = 0
  /\ obj.id # 0 => obj.count >= 2 /\ obj.round_robin < obj.count
  /\ \A i \in 1 .. Len(obj.log) : obj.log[i].for = obj.id
  /\ Routed(obj.log, obj.count, obj.asserted)
  /\ Turns(obj.log)
  /\ TurnMoved(obj.log, obj.round_robin)

\* The fields of a topic, one by one.
LEMMA TopicFields ==
  ASSUME obj \in TopicRecord
  PROVE  /\ obj.class = "topic" /\ obj.id \in Nat /\ obj.next_id \in Nat /\ obj.cached \in Nat
         /\ obj.count \in Nat /\ obj.round_robin \in Nat /\ obj.group \in Nat /\ obj.unread \in Nat
         /\ obj.log \in Seq(Sent) /\ Len(obj.log) \in Nat /\ DOMAIN obj.log = 1 .. Len(obj.log)
         /\ \A i \in 1 .. Len(obj.log) : obj.log[i] \in Sent
<1>1. /\ obj.class = "topic" /\ obj.id \in Nat /\ obj.next_id \in Nat /\ obj.cached \in Nat
      /\ obj.count \in Nat /\ obj.round_robin \in Nat /\ obj.group \in Nat /\ obj.unread \in Nat
      /\ obj.log \in Seq(Sent)
  BY DEF TopicRecord
<1>2. Len(obj.log) \in Nat /\ DOMAIN obj.log = 1 .. Len(obj.log)
  BY <1>1, LenProperties
<1>3. \A i \in 1 .. Len(obj.log) : obj.log[i] \in Sent
  BY <1>1, ElementOfSeq
<1> QED BY <1>1, <1>2, <1>3

\* A topic without records keeps every order.
LEMMA EmptyTopic ==
  ASSUME NEW count, NEW asserted, NEW next
  PROVE  /\ Routed(<<>>, count, asserted) /\ Turns(<<>>) /\ TurnMoved(<<>>, next)
         /\ <<>> \in Seq(Sent) /\ Len(<<>>) = 0
BY DEF Routed, Turns, TurnMoved

\* The next turn is another partition.
LEMMA NextTurn ==
  ASSUME NEW count \in Nat, NEW next \in Nat, count >= 2, next < count
  PROVE  (next + 1) % count \in Nat /\ (next + 1) % count < count /\ (next + 1) % count # next
<1>1. CASE next + 1 < count
  <2>1. next + 1 \in 0 .. count - 1 /\ count \in Nat \ {0} /\ 0 \in Nat
    BY <1>1
  <2>2. (0 * count + (next + 1)) % count = next + 1
    BY <2>1, DivisionIsUnique
  <2>3. 0 * count + (next + 1) = next + 1
    OBVIOUS
  <2> QED BY <1>1, <2>2, <2>3
<1>2. CASE next + 1 = count
  <2>1. 0 \in 0 .. count - 1 /\ count \in Nat \ {0} /\ 1 \in Nat
    OBVIOUS
  <2>2. (1 * count + 0) % count = 0
    BY <2>1, DivisionIsUnique
  <2>3. 1 * count + 0 = next + 1
    BY <1>2
  <2> QED BY <1>2, <2>2, <2>3
<1> QED BY <1>1, <1>2

\* What a record at the end does to the orders.
LEMMA OneMore ==
  ASSUME NEW log \in Seq(Sent), NEW r \in Sent, NEW count \in Nat, NEW asserted \in BOOLEAN,
         NEW next \in Nat, NEW then \in Nat,
         Routed(log, count, asserted), Turns(log), TurnMoved(log, next),
         r.key # 0 => r.slot = r.key % count /\ then = next,
         r.key = 0 => r.slot = next /\ then # next
  PROVE  /\ Routed(Append(log, r), count, asserted) /\ Turns(Append(log, r))
         /\ TurnMoved(Append(log, r), then)
<1> DEFINE app == Append(log, r)
           len == Len(log)
<1>1. /\ app \in Seq(Sent) /\ Len(app) = len + 1 /\ len \in Nat
      /\ \A i \in 1 .. len : app[i] = log[i]
      /\ app[len + 1] = r
  BY AppendProperties, LenProperties
<1> HIDE DEF app
<1>2. \A i \in 1 .. Len(app) : i \in 1 .. len \/ i = len + 1
  BY <1>1
<1> HIDE DEF len
<1>3. Routed(app, count, asserted)
  <2>1. ASSUME ~ asserted, NEW i \in 1 .. Len(app), app[i].key # 0
        PROVE  app[i].slot = app[i].key % count
    <3>1. CASE i \in 1 .. len
      BY <1>1, <2>1, <3>1 DEF Routed, len
    <3>2. CASE i = len + 1
      BY <1>1, <2>1, <3>2
    <3> QED BY <1>2, <3>1, <3>2
  <2> QED BY <2>1 DEF Routed
<1>4. Turns(app)
  <2>1. ASSUME NEW i \in 1 .. Len(app), NEW j \in 1 .. Len(app), i < j,
               app[i].key = 0, app[j].key = 0, \A k \in (i + 1) .. (j - 1) : app[k].key # 0
        PROVE  app[i].slot # app[j].slot
    <3>1. i \in 1 .. len
      BY <1>1, <2>1
    <3>2. CASE j \in 1 .. len
      <4>1. \A k \in (i + 1) .. (j - 1) : k \in 1 .. len
        BY <1>1, <3>1, <3>2
      <4>2. \A k \in (i + 1) .. (j - 1) : log[k].key # 0
        BY <1>1, <2>1, <4>1
      <4>3. app[i] = log[i] /\ app[j] = log[j]
        BY <1>1, <3>1, <3>2
      <4> QED BY <2>1, <3>1, <3>2, <4>2, <4>3 DEF Turns, len
    <3>3. CASE j = len + 1
      <4>1. \A k \in (i + 1) .. len : k \in 1 .. len /\ k \in (i + 1) .. (j - 1)
        BY <1>1, <3>1, <3>3
      <4>2. \A k \in (i + 1) .. len : log[k].key # 0
        BY <1>1, <2>1, <4>1
      <4>3. log[i].slot # next
        <5>1. app[i] = log[i]
          BY <1>1, <3>1
        <5> QED BY <2>1, <3>1, <4>2, <5>1 DEF TurnMoved, len
      <4>4. app[i] = log[i] /\ app[j] = r
        BY <1>1, <3>1, <3>3
      <4> QED BY <2>1, <4>3, <4>4
    <3> QED BY <1>2, <3>2, <3>3
  <2> QED BY <2>1 DEF Turns
<1>5. TurnMoved(app, then)
  <2>1. ASSUME NEW i \in 1 .. Len(app), app[i].key = 0,
               \A k \in (i + 1) .. Len(app) : app[k].key # 0
        PROVE  app[i].slot # then
    <3>1. CASE i = len + 1
      BY <1>1, <2>1, <3>1
    <3>2. CASE i \in 1 .. len
      <4>1. len + 1 \in (i + 1) .. Len(app) /\ \A k \in (i + 1) .. len : k \in (i + 1) .. Len(app) /\ k \in 1 .. len
        BY <1>1, <3>2
      <4>2. r.key # 0
        BY <1>1, <2>1, <4>1
      <4>3. \A k \in (i + 1) .. len : log[k].key # 0
        BY <1>1, <2>1, <4>1
      <4>4. app[i] = log[i]
        BY <1>1, <3>2
      <4>5. log[i].slot # next
        BY <2>1, <3>2, <4>3, <4>4 DEF TurnMoved, len
      <4> QED BY <4>2, <4>4, <4>5
    <3> QED BY <1>2, <3>1, <3>2
  <2> QED BY <2>1 DEF TurnMoved
<1> QED BY <1>3, <1>4, <1>5 DEF app

\* A record is sent by a client that has the topic's own id.
LEMMA SendStep ==
  ASSUME AdminConstants, Topic, NEW key \in 0 .. 2, Admin!Send(key)
  PROVE  Topic'
<1> DEFINE slot == IF key # 0 THEN key % obj.count ELSE obj.round_robin
           r == [key |-> key, slot |-> slot, for |-> obj.cached]
           then == IF key = 0 THEN (obj.round_robin + 1) % obj.count ELSE obj.round_robin
           log == Append(obj.log, r)
<1>0. obj \in TopicRecord
  BY DEF Topic
<1>1. obj' = [obj EXCEPT !.log = log, !.round_robin = then]
  <2>1. slot = Admin!Route(obj, key)
    BY DEF Admin!Route, Admin!KeySlot
  <2>2. obj' = [obj EXCEPT
          !.log = Append(@, [key |-> key, slot |-> slot, for |-> obj.cached]),
          !.round_robin = IF key = 0 THEN (@ + 1) % obj.count ELSE @]
    BY <2>1, Zenon DEF Admin!Send
  <2> HIDE DEF slot
  <2> QED BY <1>0, <2>2 DEF TopicRecord
<1>2. obj.id # 0 /\ obj.cached = obj.id
  BY DEF Admin!Send, Admin!ResolvesId
<1>3. /\ obj.count \in Nat /\ obj.round_robin \in Nat /\ obj.count >= 2
      /\ obj.round_robin < obj.count /\ obj.cached \in Nat
  BY <1>0, <1>2, TopicFields DEF Topic
<1>4. slot \in Nat
  <2>1. key \in Nat /\ obj.count \in Nat \ {0}
    BY <1>3
  <2>2. key % obj.count \in 0 .. obj.count - 1
    BY <2>1, Division
  <2> QED BY <1>3, <2>1, <2>2
<1>5. then \in Nat /\ then < obj.count /\ (key = 0 => then # obj.round_robin)
  BY <1>3, NextTurn
<1>6. r \in Sent
  BY <1>3, <1>4 DEF Sent
<1>7. r.key = key /\ r.slot = slot /\ r.for = obj.id
  BY <1>2
<1>8. /\ r.key # 0 => r.slot = r.key % obj.count /\ then = obj.round_robin
      /\ r.key = 0 => r.slot = obj.round_robin /\ then # obj.round_robin
  BY <1>5, <1>7
<1> HIDE DEF r, then, slot
<1>9. /\ Routed(log, obj.count, obj.asserted) /\ Turns(log) /\ TurnMoved(log, then)
  <2>1. /\ obj.log \in Seq(Sent) /\ obj.asserted \in BOOLEAN
        /\ Routed(obj.log, obj.count, obj.asserted) /\ Turns(obj.log)
        /\ TurnMoved(obj.log, obj.round_robin)
    BY <1>0 DEF Topic, TopicRecord
  <2> QED BY <1>3, <1>5, <1>6, <1>8, <2>1, OneMore
<1>10. log \in Seq(Sent) /\ \A i \in 1 .. Len(log) : log[i].for = obj.id
  <2>1. obj.log \in Seq(Sent) /\ Len(obj.log) \in Nat
    BY <1>0, TopicFields
  <2>2. /\ log \in Seq(Sent) /\ Len(log) = Len(obj.log) + 1
        /\ \A i \in 1 .. Len(obj.log) : log[i] = obj.log[i]
        /\ log[Len(obj.log) + 1] = r
    BY <1>6, <2>1, AppendProperties
  <2> HIDE DEF log
  <2>3. \A i \in 1 .. Len(log) : i \in 1 .. Len(obj.log) \/ i = Len(obj.log) + 1
    BY <2>1, <2>2
  <2> QED BY <1>7, <2>2, <2>3 DEF Topic
<1> HIDE DEF log
<1>11. obj' \in TopicRecord
  BY <1>0, <1>1, <1>5, <1>10 DEF TopicRecord
<1>12. /\ obj'.log = log /\ obj'.round_robin = then /\ obj'.count = obj.count /\ obj'.id = obj.id
       /\ obj'.asserted = obj.asserted /\ obj'.unread = obj.unread
  BY <1>0, <1>1 DEF TopicRecord
<1> QED BY <1>3, <1>5, <1>9, <1>10, <1>11, <1>12 DEF Topic

\* Partitions are added.
LEMMA ExpandStep ==
  ASSUME AdminConstants, Topic, NEW asserts \in BOOLEAN, Admin!Expand(asserts)
  PROVE  Topic'
<1> DEFINE keyed == \E i \in DOMAIN obj.log : obj.log[i].key # 0
           count == obj.count + 1
<1>0. obj \in TopicRecord
  BY DEF Topic
<1>1. obj' = [obj EXCEPT !.count = count, !.asserted = keyed] /\ obj.id # 0
  BY Zenon DEF Admin!Expand
<1>2. keyed \in BOOLEAN
  BY Zenon
<1>3. count \in Nat /\ obj.count >= 2 /\ count >= 2 /\ obj.round_robin < count
  BY <1>0, <1>1, TopicFields, SMTT(30) DEF Topic
<1>4. Routed(obj.log, count, keyed)
  <2>1. ASSUME ~ keyed PROVE \A i \in 1 .. Len(obj.log) : obj.log[i].key = 0
    BY <1>0, <2>1, TopicFields
  <2> QED BY <2>1 DEF Routed
<1> HIDE DEF keyed, count
<1>5. obj' \in TopicRecord
  BY <1>0, <1>1, <1>2, <1>3 DEF TopicRecord
<1>6. /\ obj'.log = obj.log /\ obj'.round_robin = obj.round_robin /\ obj'.count = count
      /\ obj'.id = obj.id /\ obj'.asserted = keyed /\ obj'.unread = obj.unread
  BY <1>0, <1>1 DEF TopicRecord
<1> QED BY <1>3, <1>4, <1>5, <1>6 DEF Topic

\* A topic is created empty, and removed once all of it is read.
LEMMA LifeStep ==
  ASSUME AdminConstants, Topic, Admin!CreateTopic \/ Admin!RemoveTopic
  PROVE  Topic'
<1>0. obj \in TopicRecord
  BY DEF Topic
<1> DEFINE none == <<>>
<1>1. /\ none \in Seq(Sent) /\ Len(none) = 0 /\ Turns(none)
      /\ \A c, a, n : Routed(none, c, a) /\ TurnMoved(none, n)
  BY EmptyTopic
<1>2. \A i \in 1 .. Len(none) : none[i].for = obj'.id
  OBVIOUS
<1> HIDE DEF none
<1>3. CASE Admin!CreateTopic
  <2> DEFINE next == obj.next_id + 1
  <2>1. obj' = [obj EXCEPT !.state = "active", !.count = 2, !.round_robin = 0, !.log = none, !.group = 0,
                           !.asserted = FALSE, !.id = obj.next_id, !.next_id = next]
    <3>1. obj' = [Admin!Fresh(obj) EXCEPT !.id = obj.next_id, !.next_id = @ + 1]
      BY <1>3, Zenon DEF Admin!CreateTopic
    <3>2. Admin!Fresh(obj).next_id = obj.next_id
      BY <1>0 DEF Admin!Fresh, TopicRecord
    <3> QED BY <1>0, <3>1, <3>2 DEF Admin!Fresh, TopicRecord, none
  <2>2. next \in Nat
    BY <1>0, TopicFields
  <2> HIDE DEF next
  <2>3. obj' \in TopicRecord
    BY <1>0, <1>1, <2>1, <2>2 DEF TopicRecord
  <2>4. /\ obj'.log = none /\ obj'.round_robin = 0 /\ obj'.count = 2 /\ obj'.unread = obj.unread
    BY <1>0, <2>1 DEF TopicRecord
  <2> QED BY <1>1, <1>2, <2>3, <2>4 DEF Topic
<1>4. CASE Admin!RemoveTopic
  <2> DEFINE unread == obj.unread + Len(obj.log) - obj.group
  <2>1. /\ obj' = [obj EXCEPT !.state = "removed", !.id = 0, !.log = none, !.group = 0,
                              !.unread = unread]
        /\ obj.group = Len(obj.log)
    BY <1>0, <1>4 DEF Admin!RemoveTopic, TopicRecord, none
  <2>2. unread = 0
    <3>1. obj.unread = 0 /\ Len(obj.log) \in Nat /\ obj.group = Len(obj.log)
      BY <1>0, <2>1, TopicFields DEF Topic
    <3> QED BY <3>1
  <2> HIDE DEF unread
  <2>3. obj' \in TopicRecord
    BY <1>0, <1>1, <2>1, <2>2 DEF TopicRecord
  <2>4. /\ obj'.log = none /\ obj'.id = 0 /\ obj'.unread = unread
    BY <1>0, <2>1 DEF TopicRecord
  <2> QED BY <1>1, <1>2, <2>2, <2>3, <2>4 DEF Topic
<1> QED BY <1>3, <1>4

\* Every step of a topic.
LEMMA TopicStep ==
  ASSUME AdminConstants, Topic, Admin!TopicNext
  PROVE  Topic'
<1>0. obj \in TopicRecord
  BY DEF Topic
<1>1. ASSUME obj' \in TopicRecord, obj'.log = obj.log, obj'.round_robin = obj.round_robin,
             obj'.count = obj.count, obj'.id = obj.id, obj'.asserted = obj.asserted,
             obj'.unread = obj.unread
      PROVE  Topic'
  BY <1>1 DEF Topic
<1>2. CASE Admin!LookUp
  <2>1. obj' = [obj EXCEPT !.cached = obj.id]
    BY <1>2 DEF Admin!LookUp
  <2>2. obj' \in TopicRecord
    BY <1>0, <2>1 DEF TopicRecord
  <2>3. /\ obj'.log = obj.log /\ obj'.round_robin = obj.round_robin /\ obj'.count = obj.count
        /\ obj'.id = obj.id /\ obj'.asserted = obj.asserted /\ obj'.unread = obj.unread
    BY <1>0, <2>1 DEF TopicRecord
  <2> QED BY <1>1, <2>2, <2>3
<1>3. CASE Admin!Consume
  <2>1. obj' = [obj EXCEPT !.group = @ + 1]
    BY <1>3 DEF Admin!Consume
  <2>2. obj' \in TopicRecord
    BY <1>0, <2>1, SMTT(30) DEF TopicRecord
  <2>3. /\ obj'.log = obj.log /\ obj'.round_robin = obj.round_robin /\ obj'.count = obj.count
        /\ obj'.id = obj.id /\ obj'.asserted = obj.asserted /\ obj'.unread = obj.unread
    BY <1>0, <2>1 DEF TopicRecord
  <2> QED BY <1>1, <2>2, <2>3
<1>4. CASE Admin!Mark \/ Admin!CancelDelete
  <2>1. \/ obj' = [obj EXCEPT !.state = "marked", !.marked_at = obj.now]
        \/ obj' = [obj EXCEPT !.state = "active"]
    BY <1>4 DEF Admin!Mark, Admin!CancelDelete
  <2>2. obj' \in TopicRecord
    <3>1. CASE obj' = [obj EXCEPT !.state = "marked", !.marked_at = obj.now]
      BY <1>0, <3>1 DEF TopicRecord
    <3>2. CASE obj' = [obj EXCEPT !.state = "active"]
      BY <1>0, <3>2 DEF TopicRecord
    <3> QED BY <2>1, <3>1, <3>2
  <2>3. /\ obj'.log = obj.log /\ obj'.round_robin = obj.round_robin /\ obj'.count = obj.count
        /\ obj'.id = obj.id /\ obj'.asserted = obj.asserted /\ obj'.unread = obj.unread
    BY <1>0, <2>1 DEF TopicRecord
  <2> QED BY <1>1, <2>2, <2>3
<1>5. CASE Admin!TopicTick
  <2>1. obj' = [obj EXCEPT !.now = @ + 1]
    BY <1>5 DEF Admin!TopicTick
  <2>2. obj' \in TopicRecord
    BY <1>0, <2>1, SMTT(30) DEF TopicRecord
  <2>3. /\ obj'.log = obj.log /\ obj'.round_robin = obj.round_robin /\ obj'.count = obj.count
        /\ obj'.id = obj.id /\ obj'.asserted = obj.asserted /\ obj'.unread = obj.unread
    BY <1>0, <2>1 DEF TopicRecord
  <2> QED BY <1>1, <2>2, <2>3
<1>6. ASSUME NEW key \in 0 .. 2, Admin!Send(key) PROVE Topic'
  BY <1>6, SendStep
<1>7. ASSUME NEW asserts \in BOOLEAN, Admin!Expand(asserts) PROVE Topic'
  BY <1>7, ExpandStep
<1>8. CASE Admin!CreateTopic \/ Admin!RemoveTopic
  BY <1>8, LifeStep
<1> QED BY <1>2, <1>3, <1>4, <1>5, <1>6, <1>7, <1>8 DEF Admin!TopicNext, Admin!KEYS

\* What the invariant says of the topic's records.
LEMMA TopicPromise ==
  ASSUME Topic
  PROVE  Admin!TopicsKeepRecords
<1>1. DOMAIN obj.log = 1 .. Len(obj.log)
  BY TopicFields DEF Topic
<1>2. obj.asserted \/ Admin!Together(obj)
  BY <1>1 DEF Topic, Routed, Admin!Together
<1>3. Admin!TakeTurns(obj)
  BY <1>1, Zenon DEF Topic, Turns, Admin!TakeTurns
<1> QED BY <1>1, <1>2, <1>3 DEF Topic, Admin!TopicsKeepRecords

\* An object is of one of the classes, and satisfies its invariant.
AdminInv == Topic \/ Static \/ Auth

\* The initial states satisfy it.
LEMMA AdminStarts ==
  ASSUME AdminConstants, Admin!Init
  PROVE  AdminInv
<1>1. CASE Admin!TopicInit
  <2> DEFINE none == <<>>
  <2>1. obj = [class |-> "topic", now |-> 0, next_id |-> 1, id |-> 0, state |-> "removed", marked_at |-> 0,
               count |-> 0, round_robin |-> 0, log |-> none, group |-> 0, cached |-> 0,
               asserted |-> FALSE, unread |-> 0]
    BY <1>1 DEF Admin!TopicInit
  <2>2. /\ none \in Seq(Sent) /\ Len(none) = 0 /\ Turns(none)
        /\ \A c, a, n : Routed(none, c, a) /\ TurnMoved(none, n)
    BY EmptyTopic
  <2>3. \A i \in 1 .. Len(none) : none[i].for = obj.id
    OBVIOUS
  <2> HIDE DEF none
  <2>4. obj \in TopicRecord
    BY <2>1, <2>2 DEF TopicRecord
  <2>5. obj.log = none /\ obj.id = 0 /\ obj.unread = 0
    BY <2>1
  <2>6. Topic
    BY <2>2, <2>3, <2>4, <2>5 DEF Topic
  <2> QED BY <2>6 DEF AdminInv
<1>2. CASE Admin!StaticInit
  <2>1. obj \in StaticRecord
    BY <1>2 DEF Admin!StaticInit, Admin!MEMBERS, StaticRecord
  <2>2. obj.joined = {} /\ obj.connected = {}
    BY <1>2 DEF Admin!StaticInit
  <2>3. Static
    BY <2>1, <2>2 DEF Static
  <2> QED BY <2>3 DEF AdminInv
<1>3. CASE Admin!AuthInit
  <2>1. PICK expiry \in 1 .. MaxLifetime :
          obj = [class |-> "auth", now |-> 0, expiry |-> expiry, revoked |-> FALSE, horizon |-> MaxLifetime,
                 session |-> 0, rules |-> {}, shut |-> {}, served |-> <<-1, "none">>, wrong |-> FALSE]
    BY <1>3 DEF Admin!AuthInit
  <2>2. MaxLifetime \in Nat /\ expiry \in Nat /\ expiry <= MaxLifetime
    BY <2>1 DEF AdminConstants
  <2> DEFINE first == <<-1, "none">>
  <2>3. first \in Int \X {"none", "read", "write"} /\ first[1] = -1
    OBVIOUS
  <2>4. first[1] < MaxLifetime
    BY <2>2, <2>3
  <2> HIDE DEF first
  <2>5. obj \in AuthRecord
    BY <2>1, <2>2, <2>3 DEF AuthRecord, first
  <2>6. /\ obj.expiry = expiry /\ obj.session = 0 /\ obj.served = first /\ obj.revoked = FALSE
        /\ obj.shut = {} /\ obj.wrong = FALSE
    BY <2>1 DEF first
  <2>7. Auth
    BY <2>2, <2>4, <2>5, <2>6 DEF Auth
  <2> QED BY <2>7 DEF AdminInv
<1> QED BY <1>1, <1>2, <1>3 DEF Admin!Init

\* The action of a class is taken by an object of that class.
LEMMA AdminClasses ==
  /\ Admin!TopicNext => obj.class = "topic"
  /\ Admin!StaticNext => obj.class = "static"
  /\ Admin!AuthNext => obj.class = "auth"
<1>1. Admin!TopicNext => obj.class = "topic"
  BY Zenon DEF Admin!TopicNext, Admin!CreateTopic, Admin!LookUp, Admin!Consume, Admin!Mark,
     Admin!CancelDelete, Admin!RemoveTopic, Admin!TopicTick, Admin!Send, Admin!Expand
<1>2. Admin!StaticNext => obj.class = "static"
  BY Zenon DEF Admin!StaticNext, Admin!StaticTick, Admin!JoinStatic, Admin!Heartbeat,
     Admin!PollLoop, Admin!Disconnect, Admin!Reconnect
<1>3. Admin!AuthNext => obj.class = "auth"
  BY Zenon DEF Admin!AuthNext, Admin!Revoke, Admin!Authenticate, Admin!AuthTick,
     Admin!RenewToken, Admin!Serve, Admin!AddRule
<1> QED BY <1>1, <1>2, <1>3

\* The class of an object that satisfies the invariant.
LEMMA AdminKinds ==
  /\ Topic => obj.class = "topic"
  /\ Static => obj.class = "static"
  /\ Auth => obj.class = "auth"
BY TopicFields, StaticFields, AuthFields DEF Topic, Static, Auth

\* A step is one of the object's own.
LEMMA AdminSteps ==
  ASSUME AdminConstants, AdminInv, [Admin!Next]_obj
  PROVE  AdminInv'
<1>1. CASE UNCHANGED obj
  <2>1. Topic => Topic'
    BY <1>1 DEF Topic
  <2>2. Static => Static'
    BY <1>1 DEF Static, Expected
  <2>3. Auth => Auth'
    BY <1>1 DEF Auth
  <2> QED BY <2>1, <2>2, <2>3 DEF AdminInv
<1>2. CASE Admin!Next
  <2>1. \/ Topic /\ Admin!TopicNext
        \/ Static /\ Admin!StaticNext
        \/ Auth /\ Admin!AuthNext
    BY <1>2, AdminClasses, AdminKinds DEF Admin!Next, AdminInv
  <2> QED BY <2>1, TopicStep, StaticStep, AuthStep DEF AdminInv
<1> QED BY <1>1, <1>2

\* The invariant says what the administration promises.
LEMMA AdminPromises ==
  ASSUME AdminConstants, AdminInv
  PROVE  AdministrationIsSound
<1>1. CASE Topic
  BY <1>1, TopicPromise, AdminKinds
     DEF AdministrationIsSound, Admin!AdministrationIsSound, Admin!OneMemberPerPartition, Admin!SessionsEnd
<1>2. CASE Static
  BY <1>2, StaticPromise, AdminKinds
     DEF AdministrationIsSound, Admin!AdministrationIsSound, Admin!TopicsKeepRecords, Admin!SessionsEnd
<1>3. CASE Auth
  BY <1>3, AdminKinds
     DEF AdministrationIsSound, Admin!AdministrationIsSound, Admin!TopicsKeepRecords,
         Admin!OneMemberPerPartition, Admin!SessionsEnd, Auth
<1> QED BY <1>1, <1>2, <1>3 DEF AdminInv

(***************************************************************************)
(* For any timeouts, lifetimes and numbers of records: a record sent for a *)
(* topic that was deleted lands in no later topic of its name, records of  *)
(* a key stay together through expansions nobody overrode and others take  *)
(* turns, none disappears unread; no partition has two static members at   *)
(* work on it, however late one comes back; a revoked or expired token     *)
(* serves nothing past its session, and what was denied stays denied.      *)
(***************************************************************************)
THEOREM AdministrationStaysSound ==
  ASSUME AdminConstants
  PROVE  Admin!Init /\ [][Admin!Next]_obj => []AdministrationIsSound
<1>1. Admin!Init => AdminInv
  BY AdminStarts
<1>2. AdminInv /\ [Admin!Next]_obj => AdminInv'
  BY AdminSteps
<1>3. AdminInv => AdministrationIsSound
  BY AdminPromises
<1> QED BY <1>1, <1>2, <1>3, PTL
----------------------------------------------------------------------------
(***************************************************************************)
(* Looking after replicas.  The constants are windows, limits and bounds.  *)
(***************************************************************************)
ReplicaConstants ==
  /\ LagWindow \in Nat /\ Throttle \in Nat /\ MaxLag \in Nat /\ FlapWindow \in Nat
  /\ FlapLimit \in Nat /\ MaxVoters \in Nat

\* The fields of a partition with a replica on the move.
MoveRecord ==
  [class : {"move"}, hosted : SUBSET (1 .. 3), leader : 1 .. 3, end : [1 .. 3 -> Nat],
   seen : [1 .. 3 -> Nat], hw : Nat, behind : [1 .. 3 -> Nat],
   phase : {"none", "moving", "done", "cancelled"}, total : Nat, copied : Nat, position : Nat]

\* Who hosts the partition in which phase; until its copy is complete the
\* newcomer neither leads nor counts as in sync.
Hosting(o) ==
  /\ o.phase = "none" => o.hosted = 1 .. 2 /\ o.behind[3] > LagWindow
  /\ o.phase = "moving" => o.hosted = 1 .. 3
  /\ o.phase = "moving" /\ o.copied < o.total => o.leader # 3 /\ o.behind[3] > LagWindow
  /\ o.phase = "done" => o.hosted = 2 .. 3
  /\ o.phase = "cancelled" => o.hosted = 1 .. 2

\* The leader is hosted, every replica in sync holds what is committed, and
\* neither a replica's nor a reader's idea of the watermark is ahead of it.
Moving(o) ==
  /\ o \in MoveRecord
  /\ Hosting(o)
  /\ o.leader \in o.hosted
  /\ \A b \in Replicas!InSync(o) : o.end[b] >= o.hw
  /\ \A b \in 1 .. 3 : o.seen[b] <= o.hw
  /\ o.position <= o.hw

\* The fields of such a partition, one by one.
LEMMA MoveFields ==
  ASSUME NEW o \in MoveRecord
  PROVE  /\ o.class = "move" /\ o.hosted \subseteq 1 .. 3 /\ o.leader \in 1 .. 3
         /\ o.end \in [1 .. 3 -> Nat] /\ o.seen \in [1 .. 3 -> Nat] /\ o.hw \in Nat
         /\ o.behind \in [1 .. 3 -> Nat] /\ o.total \in Nat /\ o.copied \in Nat
         /\ o.position \in Nat /\ o.phase \in {"none", "moving", "done", "cancelled"}
BY DEF MoveRecord

\* The least, as the instance writes it.
LEMMA ReplicaMin == ASSUME NEW S PROVE Replicas!Min(S) = Min(S)
BY DEF Min, Replicas!Min

\* The greatest, likewise.
LEMMA ReplicaMax == ASSUME NEW S PROVE Replicas!Max(S) = Max(S)
BY DEF Max, Replicas!Max

\* The lesser of two, as the instance writes it.
LEMMA ReplicaLesser ==
  ASSUME NEW a \in Nat, NEW b \in Nat
  PROVE  Replicas!Min({a, b}) = IF a <= b THEN a ELSE b
BY ReplicaMin, LesserIs

\* The greater of two, likewise.
LEMMA ReplicaGreater ==
  ASSUME NEW a \in Nat, NEW b \in Nat
  PROVE  Replicas!Max({a, b}) = IF a <= b THEN b ELSE a
BY ReplicaMax, GreaterIs

\* What every replica in sync holds.
LEMMA CommonEnd ==
  ASSUME NEW o \in MoveRecord, o.leader \in o.hosted
  PROVE  LET low == Replicas!Min({o.end[b] : b \in Replicas!InSync(o)})
         IN  low \in Nat /\ \A b \in Replicas!InSync(o) : low <= o.end[b]
<1> DEFINE S == {o.end[b] : b \in Replicas!InSync(o)}
<1>1. Replicas!InSync(o) \subseteq 1 .. 3 /\ o.leader \in Replicas!InSync(o)
  BY MoveFields DEF Replicas!InSync
<1>2. S \in SUBSET Nat /\ S # {}
  BY <1>1, MoveFields
<1>3. Min(S) \in S /\ \A y \in S : Min(S) <= y
  BY <1>2, MinOfNaturals
<1>4. Min(S) \in Nat /\ \A b \in Replicas!InSync(o) : Min(S) <= o.end[b]
  BY <1>2, <1>3
<1> QED BY <1>4, ReplicaMin

\* Raising the watermark to what every replica in sync holds.
LEMMA Raising ==
  ASSUME NEW o, Moving(o)
  PROVE  Moving(Replicas!Raised(o))
<1> DEFINE low == Replicas!Min({o.end[b] : b \in Replicas!InSync(o)})
           hw == Replicas!Max({o.hw, low})
           n == Replicas!Raised(o)
<1>0. o \in MoveRecord /\ o.leader \in o.hosted
  BY DEF Moving
<1>1. low \in Nat /\ \A b \in Replicas!InSync(o) : low <= o.end[b]
  BY <1>0, CommonEnd
<1>2. n = [o EXCEPT !.hw = hw, !.seen = [o.seen EXCEPT ![o.leader] = hw]]
  BY <1>0 DEF Replicas!Raised, MoveRecord
<1> HIDE DEF low, n
<1>3. hw \in Nat /\ o.hw <= hw /\ (hw = o.hw \/ hw = low)
  BY <1>0, <1>1, ReplicaGreater, MoveFields
<1> HIDE DEF hw
<1>4. n \in MoveRecord
  BY <1>0, <1>2, <1>3 DEF MoveRecord
<1>5. /\ n.hosted = o.hosted /\ n.leader = o.leader /\ n.end = o.end /\ n.hw = hw
      /\ n.seen = [o.seen EXCEPT ![o.leader] = hw] /\ n.behind = o.behind /\ n.phase = o.phase
      /\ n.total = o.total /\ n.copied = o.copied /\ n.position = o.position
  BY <1>0, <1>2 DEF MoveRecord
<1>6. Replicas!InSync(n) = Replicas!InSync(o)
  BY <1>5 DEF Replicas!InSync
<1>7. Hosting(n)
  BY <1>5 DEF Moving, Hosting
<1>8. \A b \in Replicas!InSync(n) : n.end[b] >= n.hw
  <2> SUFFICES ASSUME NEW b \in Replicas!InSync(o) PROVE o.end[b] >= hw
    BY <1>5, <1>6
  <2>1. b \in 1 .. 3 /\ o.end[b] \in Nat
    BY <1>0, MoveFields DEF Replicas!InSync
  <2>2. o.end[b] >= o.hw /\ low <= o.end[b]
    BY <1>1 DEF Moving
  <2> QED BY <1>1, <1>3, <2>1, <2>2
<1>9. \A b \in 1 .. 3 : n.seen[b] <= n.hw
  <2> SUFFICES ASSUME NEW b \in 1 .. 3 PROVE n.seen[b] <= hw
    BY <1>5
  <2>1. o.seen[b] \in Nat /\ o.hw \in Nat /\ o.seen[b] <= o.hw
    BY <1>0, MoveFields DEF Moving
  <2>2. CASE b = o.leader
    BY <1>0, <1>3, <1>5, <2>2, MoveFields
  <2>3. CASE b # o.leader
    <3>1. n.seen[b] = o.seen[b]
      BY <1>0, <1>5, <2>3, MoveFields
    <3> QED BY <1>3, <2>1, <3>1
  <2> QED BY <2>2, <2>3
<1>10. n.position <= n.hw
  <2>1. o.position \in Nat /\ o.hw \in Nat /\ o.position <= o.hw
    BY <1>0, MoveFields DEF Moving
  <2> QED BY <1>3, <1>5, <2>1
<1>11. n.leader \in n.hosted
  BY <1>0, <1>5
<1>12. Moving(n)
  BY <1>4, <1>7, <1>8, <1>9, <1>10, <1>11 DEF Moving
<1> QED BY <1>12 DEF n

\* The leader takes a record.
LEMMA MoveAppendStep ==
  ASSUME ReplicaConstants, Moving(obj), Replicas!MoveAppend
  PROVE  Moving(obj')
<1> DEFINE end == [obj.end EXCEPT ![obj.leader] = @ + 1]
           o == [obj EXCEPT !.end = end]
<1>0. obj \in MoveRecord
  BY DEF Moving
<1>1. obj' = Replicas!Raised(o)
  BY <1>0 DEF Replicas!MoveAppend, MoveRecord
<1>2. end \in [1 .. 3 -> Nat] /\ \A b \in 1 .. 3 : end[b] >= obj.end[b]
  BY <1>0, MoveFields
<1> HIDE DEF end
<1>3. o \in MoveRecord
  BY <1>0, <1>2 DEF MoveRecord
<1>4. /\ o.hosted = obj.hosted /\ o.leader = obj.leader /\ o.end = end /\ o.hw = obj.hw
      /\ o.seen = obj.seen /\ o.behind = obj.behind /\ o.phase = obj.phase
      /\ o.total = obj.total /\ o.copied = obj.copied /\ o.position = obj.position
  BY <1>0 DEF MoveRecord
<1> HIDE DEF o
<1>5. Replicas!InSync(o) = Replicas!InSync(obj) /\ Replicas!InSync(obj) \subseteq 1 .. 3
  BY <1>0, <1>4, MoveFields DEF Replicas!InSync
<1>6. \A b \in Replicas!InSync(o) : o.end[b] >= o.hw
  <2> SUFFICES ASSUME NEW b \in Replicas!InSync(obj) PROVE end[b] >= obj.hw
    BY <1>4, <1>5
  <2>1. obj.end[b] \in Nat /\ end[b] \in Nat /\ obj.hw \in Nat /\ end[b] >= obj.end[b] /\ obj.end[b] >= obj.hw
    BY <1>0, <1>2, <1>5, MoveFields DEF Moving
  <2> QED BY <2>1
<1>7. Moving(o)
  BY <1>3, <1>4, <1>6 DEF Moving, Hosting
<1> QED BY <1>1, <1>7, Raising

\* A follower takes a record; level with the leader, it is in sync.
LEMMA FollowStep ==
  ASSUME ReplicaConstants, Moving(obj), NEW b \in 1 .. 3, Replicas!Follow(b)
  PROVE  Moving(obj')
<1> DEFINE at == Replicas!Min({obj.end[b] + 1, obj.end[obj.leader]})
           told == Replicas!Max({obj.seen[b], Replicas!Min({at, obj.hw})})
           late == IF at = obj.end[obj.leader] THEN 0 ELSE obj.behind[b]
           end == [obj.end EXCEPT ![b] = at]
           seen == [obj.seen EXCEPT ![b] = told]
           behind == [obj.behind EXCEPT ![b] = late]
           o == [obj EXCEPT !.end = end, !.seen = seen, !.behind = behind]
<1>0. obj \in MoveRecord /\ obj.leader \in obj.hosted
  BY DEF Moving
<1>1. obj' = Replicas!Raised(o)
  BY <1>0 DEF Replicas!Follow, MoveRecord
<1>2. b \in obj.hosted /\ b # obj.leader /\ (b = 3 => obj.copied >= obj.total)
  BY DEF Replicas!Follow, Replicas!Follows
<1>3. /\ obj.end[b] \in Nat /\ obj.end[obj.leader] \in Nat /\ obj.hw \in Nat /\ obj.seen[b] \in Nat
      /\ obj.behind[b] \in Nat /\ obj.seen[b] <= obj.hw
      /\ obj.leader \in Replicas!InSync(obj) /\ obj.end[obj.leader] >= obj.hw
      /\ Replicas!InSync(obj) \subseteq 1 .. 3
  BY <1>0, MoveFields DEF Moving, Replicas!InSync
<1>4. at \in Nat /\ (at = obj.end[b] + 1 \/ at = obj.end[obj.leader])
  BY <1>3, ReplicaLesser
<1> HIDE DEF at
<1>5. told \in Nat /\ told <= obj.hw
  <2>1. Replicas!Min({at, obj.hw}) \in Nat /\ Replicas!Min({at, obj.hw}) <= obj.hw
    BY <1>3, <1>4, ReplicaLesser
  <2> QED BY <1>3, <2>1, ReplicaGreater
<1>6. late \in Nat
  BY <1>3
<1> HIDE DEF told, late
<1>7. /\ end \in [1 .. 3 -> Nat] /\ seen \in [1 .. 3 -> Nat] /\ behind \in [1 .. 3 -> Nat]
      /\ end[b] = at /\ seen[b] = told /\ behind[b] = late
      /\ \A c \in 1 .. 3 : c # b => end[c] = obj.end[c] /\ seen[c] = obj.seen[c] /\ behind[c] = obj.behind[c]
  BY <1>0, <1>4, <1>5, <1>6, MoveFields
<1> HIDE DEF end, seen, behind
<1>8. o \in MoveRecord
  BY <1>0, <1>7 DEF MoveRecord
<1>9. /\ o.hosted = obj.hosted /\ o.leader = obj.leader /\ o.end = end /\ o.hw = obj.hw
      /\ o.seen = seen /\ o.behind = behind /\ o.phase = obj.phase
      /\ o.total = obj.total /\ o.copied = obj.copied /\ o.position = obj.position
  BY <1>0 DEF MoveRecord
<1> HIDE DEF o
<1>10. ASSUME NEW c \in Replicas!InSync(o) PROVE o.end[c] >= o.hw
  <2>1. c \in 1 .. 3 /\ c \in obj.hosted /\ (c = obj.leader \/ behind[c] <= LagWindow)
    BY <1>0, <1>9, MoveFields DEF Replicas!InSync
  <2>2. CASE c # b
    <3>1. c \in Replicas!InSync(obj)
      BY <1>7, <2>1, <2>2 DEF Replicas!InSync
    <3> QED BY <1>7, <1>9, <2>1, <2>2, <3>1 DEF Moving
  <2>3. CASE c = b
    <3>1. CASE at = obj.end[obj.leader]
      BY <1>3, <1>7, <1>9, <2>3, <3>1
    <3>2. CASE at # obj.end[obj.leader]
      <4>1. late = obj.behind[b] /\ at = obj.end[b] + 1
        BY <1>4, <3>2 DEF late
      <4>2. b \in Replicas!InSync(obj)
        BY <1>2, <1>7, <2>1, <2>3, <4>1 DEF Replicas!InSync
      <4>3. obj.end[b] >= obj.hw
        BY <4>2 DEF Moving
      <4>4. at >= obj.hw
        BY <1>3, <4>1, <4>3
      <4> QED BY <1>7, <1>9, <2>3, <4>4
    <3> QED BY <3>1, <3>2
  <2> QED BY <2>2, <2>3
<1>11. Hosting(o)
  <2>1. Hosting(obj) /\ obj.copied \in Nat /\ obj.total \in Nat
    BY <1>0, MoveFields DEF Moving
  <2>2. obj.phase = "none" => b # 3
    BY <1>2, <2>1 DEF Hosting
  <2>3. obj.copied < obj.total => b # 3
    BY <1>2, <2>1
  <2>4. b # 3 => behind[3] = obj.behind[3]
    BY <1>7
  <2> QED BY <1>9, <2>1, <2>2, <2>3, <2>4 DEF Hosting
<1>12. \A c \in 1 .. 3 : o.seen[c] <= o.hw
  BY <1>5, <1>7, <1>9 DEF Moving
<1>13. Moving(o)
  BY <1>0, <1>8, <1>9, <1>10, <1>11, <1>12 DEF Moving
<1> QED BY <1>1, <1>13, Raising

\* Time passes: replicas only leave the in-sync set.
LEMMA MoveTickStep ==
  ASSUME ReplicaConstants, Moving(obj), Replicas!MoveTick
  PROVE  Moving(obj')
<1> DEFINE later(b) == Replicas!Min({obj.behind[b] + 1, LagWindow + 1})
           behind == [b \in 1 .. 3 |-> IF b = obj.leader THEN 0 ELSE later(b)]
           o == [obj EXCEPT !.behind = behind]
<1>0. obj \in MoveRecord /\ obj.leader \in obj.hosted /\ LagWindow \in Nat
  BY DEF Moving, ReplicaConstants
<1>1. obj' = Replicas!Raised(o)
  BY <1>0 DEF Replicas!MoveTick, Replicas!TooLong, MoveRecord
<1>2. \A b \in 1 .. 3 : later(b) \in Nat /\ (later(b) <= LagWindow => obj.behind[b] <= LagWindow)
  <2> SUFFICES ASSUME NEW b \in 1 .. 3
               PROVE  later(b) \in Nat /\ (later(b) <= LagWindow => obj.behind[b] <= LagWindow)
    OBVIOUS
  <2>1. obj.behind[b] \in Nat
    BY <1>0, MoveFields
  <2>2. obj.behind[b] + 1 \in Nat /\ LagWindow + 1 \in Nat
    BY <1>0, <2>1
  <2>3. later(b) = IF obj.behind[b] + 1 <= LagWindow + 1 THEN obj.behind[b] + 1 ELSE LagWindow + 1
    BY <2>2, ReplicaLesser
  <2> HIDE DEF later
  <2> QED BY <1>0, <2>1, <2>3
<1> HIDE DEF later
<1>3. /\ behind \in [1 .. 3 -> Nat] /\ behind[obj.leader] = 0
      /\ \A b \in 1 .. 3 : b # obj.leader => behind[b] = later(b)
  BY <1>0, <1>2, MoveFields
<1> HIDE DEF behind
<1>4. o \in MoveRecord
  BY <1>0, <1>3 DEF MoveRecord
<1>5. /\ o.hosted = obj.hosted /\ o.leader = obj.leader /\ o.end = obj.end /\ o.hw = obj.hw
      /\ o.seen = obj.seen /\ o.behind = behind /\ o.phase = obj.phase
      /\ o.total = obj.total /\ o.copied = obj.copied /\ o.position = obj.position
  BY <1>0 DEF MoveRecord
<1> HIDE DEF o
<1>6. Replicas!InSync(o) \subseteq Replicas!InSync(obj)
  BY <1>0, <1>2, <1>3, <1>5, MoveFields DEF Replicas!InSync
<1>7. Hosting(o)
  <2>1. Hosting(obj) /\ obj.behind[3] \in Nat /\ 3 \in 1 .. 3
    BY <1>0, MoveFields DEF Moving
  <2>2. obj.phase = "none" => obj.leader # 3
    BY <1>0, <2>1 DEF Hosting
  <2>3. obj.leader # 3 /\ obj.behind[3] > LagWindow => behind[3] > LagWindow
    <3>1. behind[3] \in Nat /\ (obj.leader # 3 /\ behind[3] <= LagWindow => obj.behind[3] <= LagWindow)
      BY <1>2, <1>3, <2>1
    <3> QED BY <1>0, <2>1, <3>1
  <2> QED BY <1>5, <2>1, <2>2, <2>3 DEF Hosting
<1>8. Moving(o)
  BY <1>4, <1>5, <1>6, <1>7 DEF Moving
<1> QED BY <1>1, <1>8, Raising

\* The move begins, with a newcomer that is not in sync.
LEMMA StartMoveStep ==
  ASSUME ReplicaConstants, Moving(obj), Replicas!StartMove
  PROVE  Moving(obj')
<1> DEFINE total == obj.end[obj.leader]
           hosted == obj.hosted \cup {2, 3}
<1>0. obj \in MoveRecord /\ obj.leader \in obj.hosted /\ LagWindow \in Nat
  BY DEF Moving, ReplicaConstants
<1>1. /\ obj' = [obj EXCEPT !.phase = "moving", !.hosted = hosted, !.total = total, !.copied = 0]
      /\ obj.phase = "none"
  BY DEF Replicas!StartMove, Replicas!TARGET
<1>2. obj.hosted = 1 .. 2 /\ obj.behind[3] > LagWindow /\ obj.behind[3] \in Nat
  BY <1>0, <1>1, MoveFields DEF Moving, Hosting
<1>3. total \in Nat /\ hosted = 1 .. 3
  BY <1>0, <1>2, MoveFields
<1> HIDE DEF total, hosted
<1>4. obj' \in MoveRecord
  BY <1>0, <1>1, <1>3 DEF MoveRecord
<1>5. /\ obj'.hosted = 1 .. 3 /\ obj'.leader = obj.leader /\ obj'.end = obj.end /\ obj'.hw = obj.hw
      /\ obj'.seen = obj.seen /\ obj'.behind = obj.behind /\ obj'.phase = "moving"
      /\ obj'.total = total /\ obj'.copied = 0 /\ obj'.position = obj.position
  BY <1>0, <1>1, <1>3 DEF MoveRecord
<1>6. obj.leader # 3
  BY <1>0, <1>2
<1>7. Replicas!InSync(obj') \subseteq Replicas!InSync(obj)
  BY <1>0, <1>2, <1>5, <1>6 DEF Replicas!InSync
<1>8. Hosting(obj')
  BY <1>2, <1>5, <1>6 DEF Hosting
<1>9. obj'.leader \in obj'.hosted
  BY <1>0, <1>5, MoveFields
<1> QED BY <1>4, <1>5, <1>7, <1>8, <1>9 DEF Moving

\* The least of three naturals.
LEMMA LeastOfThree ==
  ASSUME NEW a \in Nat, NEW b \in Nat, NEW c \in Nat
  PROVE  Replicas!Min({a, b, c}) \in Nat
<1>1. Min({a, b, c}) \in {a, b, c}
  BY MinOfNaturals
<1> QED BY <1>1, ReplicaMin

\* A part of the log is copied, to a newcomer that is not in sync.
LEMMA AdvanceStep ==
  ASSUME ReplicaConstants, Moving(obj), Replicas!Advance
  PROVE  Moving(obj')
<1> DEFINE copied == Replicas!Min({obj.total, obj.copied + Throttle, obj.end[obj.leader]})
           end == [obj.end EXCEPT ![3] = copied]
<1>0. obj \in MoveRecord /\ obj.leader \in obj.hosted /\ LagWindow \in Nat /\ Throttle \in Nat
  BY DEF Moving, ReplicaConstants
<1>1. /\ obj' = [obj EXCEPT !.copied = copied, !.end = end]
      /\ obj.phase = "moving" /\ obj.copied < obj.total
  BY <1>0 DEF Replicas!Advance, MoveRecord
<1>2. /\ obj.hosted = 1 .. 3 /\ obj.leader # 3 /\ obj.behind[3] > LagWindow /\ obj.behind[3] \in Nat
  BY <1>0, <1>1, MoveFields DEF Moving, Hosting
<1>3. copied \in Nat
  <2>1. obj.total \in Nat /\ obj.copied + Throttle \in Nat /\ obj.end[obj.leader] \in Nat
    BY <1>0, MoveFields
  <2> QED BY <2>1, LeastOfThree
<1> HIDE DEF copied
<1>4. end \in [1 .. 3 -> Nat] /\ \A b \in 1 .. 3 : b # 3 => end[b] = obj.end[b]
  BY <1>0, <1>3, MoveFields
<1> HIDE DEF end
<1>5. obj' \in MoveRecord
  BY <1>0, <1>1, <1>3, <1>4 DEF MoveRecord
<1>6. /\ obj'.hosted = obj.hosted /\ obj'.leader = obj.leader /\ obj'.end = end /\ obj'.hw = obj.hw
      /\ obj'.seen = obj.seen /\ obj'.behind = obj.behind /\ obj'.phase = obj.phase
      /\ obj'.total = obj.total /\ obj'.position = obj.position
  BY <1>0, <1>1 DEF MoveRecord
<1>7. Replicas!InSync(obj') = Replicas!InSync(obj) /\ 3 \notin Replicas!InSync(obj)
      /\ Replicas!InSync(obj) \subseteq 1 .. 3
  BY <1>0, <1>2, <1>6, MoveFields DEF Replicas!InSync
<1>8. Hosting(obj')
  BY <1>1, <1>2, <1>6 DEF Hosting
<1>9. \A b \in Replicas!InSync(obj') : obj'.end[b] >= obj'.hw
  BY <1>4, <1>6, <1>7 DEF Moving
<1> QED BY <1>0, <1>5, <1>6, <1>8, <1>9 DEF Moving

\* Another replica in sync leads, and all logs are cut back to its.
LEMMA LeadStep ==
  ASSUME ReplicaConstants, Moving(obj), NEW b \in 1 .. 3, Replicas!Lead(b)
  PROVE  Moving(obj')
<1> DEFINE end == [c \in 1 .. 3 |-> Replicas!Min({obj.end[c], obj.end[b]})]
           seen == [obj.seen EXCEPT ![b] = obj.hw]
           behind == [obj.behind EXCEPT ![b] = 0]
<1>0. obj \in MoveRecord /\ obj.leader \in obj.hosted /\ LagWindow \in Nat
  BY DEF Moving, ReplicaConstants
<1>1. obj' = [obj EXCEPT !.leader = b, !.seen = seen, !.behind = behind, !.end = end]
  BY <1>0 DEF Replicas!Lead, MoveRecord
<1>2. b \in Replicas!InSync(obj) /\ b # obj.leader /\ (b = 3 => obj.copied >= obj.total)
  BY DEF Replicas!Lead, Replicas!EligibleForElection
<1>3. b \in obj.hosted /\ obj.behind[b] <= LagWindow /\ obj.end[b] >= obj.hw
      /\ Replicas!InSync(obj) \subseteq 1 .. 3
  BY <1>0, <1>2, MoveFields DEF Moving, Replicas!InSync
<1>4. /\ end \in [1 .. 3 -> Nat]
      /\ \A c \in 1 .. 3 : obj.end[c] >= obj.hw => end[c] >= obj.hw
  <2>1. \A c \in 1 .. 3 : /\ obj.end[c] \in Nat /\ end[c] \in Nat
                          /\ (end[c] = obj.end[c] \/ end[c] = obj.end[b])
    BY <1>0, ReplicaLesser, MoveFields
  <2>2. end \in [1 .. 3 -> Nat]
    BY <2>1
  <2> HIDE DEF end
  <2> QED BY <1>3, <2>1, <2>2
<1>5. /\ seen \in [1 .. 3 -> Nat] /\ behind \in [1 .. 3 -> Nat] /\ seen[b] = obj.hw
      /\ \A c \in 1 .. 3 : c # b => seen[c] = obj.seen[c] /\ behind[c] = obj.behind[c]
  BY <1>0, MoveFields
<1> HIDE DEF end, seen, behind
<1>6. obj' \in MoveRecord
  BY <1>0, <1>1, <1>4, <1>5 DEF MoveRecord
<1>7. /\ obj'.hosted = obj.hosted /\ obj'.leader = b /\ obj'.end = end /\ obj'.hw = obj.hw
      /\ obj'.seen = seen /\ obj'.behind = behind /\ obj'.phase = obj.phase
      /\ obj'.total = obj.total /\ obj'.copied = obj.copied /\ obj'.position = obj.position
  BY <1>0, <1>1 DEF MoveRecord
<1>8. Replicas!InSync(obj') \subseteq Replicas!InSync(obj)
  BY <1>0, <1>2, <1>5, <1>7, MoveFields DEF Replicas!InSync
<1>9. \A c \in Replicas!InSync(obj') : obj'.end[c] >= obj'.hw
  BY <1>3, <1>4, <1>7, <1>8 DEF Moving
<1>10. Hosting(obj')
  <2>1. Hosting(obj) /\ obj.copied \in Nat /\ obj.total \in Nat /\ obj.behind[3] \in Nat
    BY <1>0, MoveFields DEF Moving
  <2>2. (obj.phase = "none" => b # 3) /\ (obj.copied < obj.total => b # 3)
    BY <1>2, <1>3, <2>1 DEF Hosting
  <2>3. b # 3 => behind[3] = obj.behind[3]
    BY <1>5
  <2> QED BY <1>7, <2>1, <2>2, <2>3 DEF Hosting
<1>11. \A c \in 1 .. 3 : obj'.seen[c] <= obj'.hw
  <2>1. obj.hw \in Nat
    BY <1>0, MoveFields
  <2> QED BY <1>5, <1>7, <2>1 DEF Moving
<1> QED BY <1>3, <1>6, <1>7, <1>9, <1>10, <1>11 DEF Moving

\* The move ends, either way: a replica that does not lead is dropped.
LEMMA EndMoveStep ==
  ASSUME ReplicaConstants, Moving(obj), Replicas!Complete \/ Replicas!Cancel
  PROVE  Moving(obj')
<1>0. obj \in MoveRecord /\ obj.leader \in obj.hosted /\ LagWindow \in Nat
  BY DEF Moving, ReplicaConstants
<1>1. CASE Replicas!Complete
  <2> DEFINE end == [obj.end EXCEPT ![1] = 0]
             o == [obj EXCEPT !.phase = "done", !.hosted = {2, 3}, !.end = end]
  <2>1. obj' = Replicas!Raised(o) /\ obj.phase = "moving" /\ obj.leader # 1
    BY <1>0, <1>1 DEF Replicas!Complete, Replicas!MayStop, Replicas!TARGET, MoveRecord
  <2>2. end \in [1 .. 3 -> Nat] /\ \A c \in {2, 3} : end[c] = obj.end[c]
    BY <1>0, MoveFields
  <2> HIDE DEF end
  <2>3. o \in MoveRecord
    <3> DEFINE hosted == {2, 3}
    <3>1. hosted \in SUBSET (1 .. 3)
      OBVIOUS
    <3> HIDE DEF hosted
    <3> QED BY <1>0, <2>2, <3>1 DEF MoveRecord, hosted
  <2>4. /\ o.hosted = {2, 3} /\ o.leader = obj.leader /\ o.end = end /\ o.hw = obj.hw
        /\ o.seen = obj.seen /\ o.behind = obj.behind /\ o.phase = "done" /\ o.position = obj.position
    BY <1>0 DEF MoveRecord
  <2> HIDE DEF o
  <2>5. obj.hosted = 1 .. 3 /\ o.leader \in o.hosted
    BY <1>0, <2>1, <2>4 DEF Moving, Hosting
  <2>6. Replicas!InSync(o) \subseteq Replicas!InSync(obj) /\ Replicas!InSync(o) \subseteq {2, 3}
    BY <2>4, <2>5 DEF Replicas!InSync
  <2>7. \A c \in Replicas!InSync(o) : o.end[c] >= o.hw
    BY <2>2, <2>4, <2>6 DEF Moving
  <2>8. Hosting(o)
    BY <2>4 DEF Hosting
  <2>9. Moving(o)
    BY <2>3, <2>4, <2>5, <2>7, <2>8 DEF Moving
  <2> QED BY <2>1, <2>9, Raising
<1>2. CASE Replicas!Cancel
  <2> DEFINE end == [obj.end EXCEPT ![3] = 0]
             behind == [obj.behind EXCEPT ![3] = LagWindow + 1]
             o == [obj EXCEPT !.phase = "cancelled", !.hosted = {1, 2}, !.end = end, !.behind = behind]
  <2>1. obj' = Replicas!Raised(o) /\ obj.phase = "moving" /\ obj.leader # 3
    BY <1>0, <1>2 DEF Replicas!Cancel, Replicas!MayStop, Replicas!ORIGINAL, Replicas!TooLong, MoveRecord
  <2>2. /\ end \in [1 .. 3 -> Nat] /\ behind \in [1 .. 3 -> Nat]
        /\ \A c \in {1, 2} : end[c] = obj.end[c] /\ behind[c] = obj.behind[c]
    BY <1>0, MoveFields
  <2> HIDE DEF end, behind
  <2>3. o \in MoveRecord
    <3> DEFINE hosted == {1, 2}
    <3>1. hosted \in SUBSET (1 .. 3)
      OBVIOUS
    <3> HIDE DEF hosted
    <3> QED BY <1>0, <2>2, <3>1 DEF MoveRecord, hosted
  <2>4. /\ o.hosted = {1, 2} /\ o.leader = obj.leader /\ o.end = end /\ o.hw = obj.hw
        /\ o.seen = obj.seen /\ o.behind = behind /\ o.phase = "cancelled" /\ o.position = obj.position
    BY <1>0 DEF MoveRecord
  <2> HIDE DEF o
  <2>5. obj.hosted = 1 .. 3 /\ o.leader \in o.hosted
    BY <1>0, <2>1, <2>4 DEF Moving, Hosting
  <2>6. Replicas!InSync(o) \subseteq Replicas!InSync(obj) /\ Replicas!InSync(o) \subseteq {1, 2}
    BY <2>2, <2>4, <2>5 DEF Replicas!InSync
  <2>7. \A c \in Replicas!InSync(o) : o.end[c] >= o.hw
    BY <2>2, <2>4, <2>6 DEF Moving
  <2>8. Hosting(o)
    BY <2>4 DEF Hosting
  <2>9. Moving(o)
    BY <2>3, <2>4, <2>5, <2>7, <2>8 DEF Moving
  <2> QED BY <2>1, <2>9, Raising
<1> QED BY <1>1, <1>2

\* A reader is served below the watermark its replica has heard of.
LEMMA ReadStep ==
  ASSUME ReplicaConstants, Moving(obj), NEW b \in 1 .. 3, Replicas!ReadFrom(b)
  PROVE  Moving(obj')
<1>0. obj \in MoveRecord
  BY DEF Moving
<1> DEFINE position == obj.position + 1
<1>1. obj' = [obj EXCEPT !.position = position] /\ obj.position < obj.seen[b]
  BY <1>0 DEF Replicas!ReadFrom, Replicas!MayServe, MoveRecord
<1>2. position \in Nat /\ position <= obj.hw
  <2>1. obj.position \in Nat /\ obj.seen[b] \in Nat /\ obj.hw \in Nat /\ obj.seen[b] <= obj.hw
    BY <1>0, MoveFields DEF Moving
  <2> QED BY <1>1, <2>1
<1> HIDE DEF position
<1>3. obj' \in MoveRecord
  BY <1>0, <1>1, <1>2 DEF MoveRecord
<1>4. /\ obj'.hosted = obj.hosted /\ obj'.leader = obj.leader /\ obj'.end = obj.end /\ obj'.hw = obj.hw
      /\ obj'.seen = obj.seen /\ obj'.behind = obj.behind /\ obj'.phase = obj.phase
      /\ obj'.total = obj.total /\ obj'.copied = obj.copied /\ obj'.position = position
  BY <1>0, <1>1 DEF MoveRecord
<1>5. Replicas!InSync(obj') = Replicas!InSync(obj)
  BY <1>4 DEF Replicas!InSync
<1>6. Hosting(obj')
  BY <1>4 DEF Moving, Hosting
<1> QED BY <1>2, <1>3, <1>4, <1>5, <1>6 DEF Moving

\* Every step of a move.
LEMMA MoveStep ==
  ASSUME ReplicaConstants, Moving(obj), Replicas!MoveNext
  PROVE  Moving(obj')
<1>1. ASSUME NEW b \in 1 .. 3, Replicas!Follow(b) \/ Replicas!Lead(b) \/ Replicas!ReadFrom(b)
      PROVE  Moving(obj')
  BY <1>1, FollowStep, LeadStep, ReadStep
<1> QED BY <1>1, MoveAppendStep, MoveTickStep, StartMoveStep, AdvanceStep, EndMoveStep
        DEF Replicas!MoveNext

\* What the invariant says of the move.
LEMMA MovePromise ==
  ASSUME Moving(obj)
  PROVE  Replicas!MovesKeepCommitted
<1>1. obj.leader \in Replicas!InSync(obj) /\ obj.hosted \subseteq 1 .. 3
  BY MoveFields DEF Moving, Replicas!InSync
<1> QED BY <1>1 DEF Moving, Replicas!MovesKeepCommitted

\* The number of elements as the instance writes it.
LEMMA ReplicaCount == ASSUME NEW S PROVE Replicas!Cardinality(S) = Cardinality(S)
BY Zenon DEF Cardinality, Replicas!Cardinality

\* The fields of a voter set under change.
VotersRecord ==
  [class : {"voters"}, before : SUBSET (1 .. MaxVoters), voters : SUBSET (1 .. MaxVoters),
   election : Nat, replication : Nat]

\* The set before the last change differs by one voter at most.
OneVoterApart(a, b) == a = b \/ (\E x : a = b \cup {x}) \/ (\E x : b = a \cup {x})

\* The voters: a change adds or removes one at most.
Voters == obj \in VotersRecord /\ OneVoterApart(obj.before, obj.voters)

\* A set of voters is finite.
LEMMA VotersAreFinite ==
  ASSUME ReplicaConstants, NEW S \in SUBSET (1 .. MaxVoters)
  PROVE  IsFiniteSet(S)
<1>1. 1 \in Int /\ MaxVoters \in Int
  BY DEF ReplicaConstants
<1>2. IsFiniteSet(1 .. MaxVoters)
  BY <1>1, FS_Interval
<1> QED BY <1>2, FS_Subset

\* Majorities of a set and of the set with one more voter meet.
LEMMA NextMajorityMeets ==
  ASSUME NEW a, NEW x, IsFiniteSet(a), NEW q \in SUBSET a, NEW s \in SUBSET (a \cup {x}),
         Cardinality(q) >= Cardinality(a) \div 2 + 1,
         Cardinality(s) >= Cardinality(a \cup {x}) \div 2 + 1
  PROVE  q \cap s # {}
<1> DEFINE b == a \cup {x}
           n == Cardinality(a)
           k == Cardinality(b)
<1>1. IsFiniteSet(b) /\ k = (IF x \in a THEN n ELSE n + 1)
  BY FS_AddElement
<1>2. n \in Nat /\ k \in Nat /\ (k = n \/ k = n + 1)
  BY <1>1, FS_CardinalityType
<1>3. IsFiniteSet(q) /\ IsFiniteSet(s) /\ q \in SUBSET b
  BY <1>1, FS_Subset
<1>4. Cardinality(q) \in Nat /\ Cardinality(s) \in Nat
  BY <1>3, FS_CardinalityType
<1>5. Cardinality(q) + Cardinality(s) > k
  <2> DEFINE c == Cardinality(q)
             d == Cardinality(s)
  <2>1. c \in Nat /\ d \in Nat /\ c >= n \div 2 + 1 /\ d >= k \div 2 + 1
    BY <1>4
  <2> HIDE DEF c, d, n, k
  <2>2. c + d > k
    BY <1>2, <2>1
  <2> QED BY <2>2 DEF c, d
<1> HIDE DEF k
<1> QED BY <1>1, <1>3, <1>5, LargeSetsMeet DEF k

\* A change replaces the set by one that differs by one voter.
LEMMA VotersStep ==
  ASSUME ReplicaConstants, Voters, NEW proposed \in SUBSET (1 .. MaxVoters), Replicas!ChangeTo(proposed)
  PROVE  Voters'
<1>0. obj \in VotersRecord /\ MaxVoters \in Nat
  BY DEF Voters, ReplicaConstants
<1>1. obj' = [obj EXCEPT !.before = obj.voters, !.voters = proposed]
  BY DEF Replicas!ChangeTo
<1>2. obj' \in VotersRecord /\ obj'.before = obj.voters /\ obj'.voters = proposed
  BY <1>0, <1>1 DEF VotersRecord
<1> DEFINE D == (obj.voters \ proposed) \cup (proposed \ obj.voters)
<1>3. Cardinality(D) = 1
  BY ReplicaCount DEF Replicas!ChangeTo
<1>4. IsFiniteSet(D)
  <2>1. D \in SUBSET (1 .. MaxVoters)
    BY <1>0 DEF VotersRecord
  <2> QED BY <2>1, VotersAreFinite
<1>5. PICK x : D = {x}
  <2> HIDE DEF D
  <2> QED BY <1>3, <1>4, FS_Singleton
<1>6. proposed = obj.voters \cup {x} \/ obj.voters = proposed \cup {x}
  BY <1>5
<1> QED BY <1>2, <1>6 DEF Voters, OneVoterApart

\* What the invariant says of quorums.
LEMMA VotersPromise ==
  ASSUME ReplicaConstants, Voters
  PROVE  Replicas!QuorumsMeet
<1> DEFINE a == obj.before
           b == obj.voters
<1>0. /\ a \in SUBSET (1 .. MaxVoters) /\ b \in SUBSET (1 .. MaxVoters) /\ MaxVoters \in Nat
      /\ obj.election \in Nat /\ obj.replication \in Nat
  BY DEF Voters, VotersRecord, ReplicaConstants
<1>1. IsFiniteSet(a) /\ IsFiniteSet(b)
  BY <1>0, VotersAreFinite
<1>2. ASSUME NEW q \in SUBSET a, NEW s \in SUBSET b,
             Cardinality(q) >= Cardinality(a) \div 2 + 1, Cardinality(s) >= Cardinality(b) \div 2 + 1
      PROVE  q \cap s # {}
  <2> HIDE DEF a, b
  <2>1. CASE a = b
    <3>1. a = {} \/ \E x \in a : a = a \cup {x}
      OBVIOUS
    <3>2. CASE a = {}
      <4>1. q = {} /\ Cardinality({}) = 0
        BY <3>2, FS_EmptySet
      <4> QED BY <1>2, <3>2, <4>1
    <3>3. CASE \E x \in a : a = a \cup {x}
      BY <1>1, <1>2, <2>1, <3>3, NextMajorityMeets
    <3> QED BY <3>1, <3>2, <3>3
  <2>2. ASSUME NEW x, a = b \cup {x} PROVE q \cap s # {}
    <3>1. s \cap q # {}
      BY <1>1, <1>2, <2>2, NextMajorityMeets
    <3> QED BY <3>1
  <2>3. ASSUME NEW x, b = a \cup {x} PROVE q \cap s # {}
    BY <1>1, <1>2, <2>3, NextMajorityMeets
  <2>4. OneVoterApart(a, b)
    BY DEF Voters, a, b
  <2> QED BY <2>1, <2>2, <2>3, <2>4 DEF OneVoterApart
<1>3. ASSUME obj.election + obj.replication > Cardinality(a), NEW q \in SUBSET a, NEW s \in SUBSET a,
             Cardinality(q) >= obj.election, Cardinality(s) >= obj.replication
      PROVE  q \cap s # {}
  <2> HIDE DEF a
  <2>1. Cardinality(q) \in Nat /\ Cardinality(s) \in Nat /\ Cardinality(a) \in Nat
    BY <1>1, FS_Subset, FS_CardinalityType
  <2>2. Cardinality(q) + Cardinality(s) > Cardinality(a)
    BY <1>0, <1>3, <2>1
  <2> QED BY <1>1, <2>2, LargeSetsMeet
<1>4. ASSUME NEW q \in Replicas!Sized(obj.before, Replicas!Majority(Replicas!Cardinality(obj.before))),
             NEW s \in Replicas!Sized(obj.voters, Replicas!Majority(Replicas!Cardinality(obj.voters)))
      PROVE  q \cap s # {}
  <2>1. /\ q \in SUBSET a /\ Cardinality(q) >= Cardinality(a) \div 2 + 1
        /\ s \in SUBSET b /\ Cardinality(s) >= Cardinality(b) \div 2 + 1
    BY <1>4, ReplicaCount DEF Replicas!Sized, Replicas!Majority
  <2> QED BY <1>2, <2>1
<1>5. ASSUME Replicas!Intersects(Replicas!Cardinality(obj.before), obj.election, obj.replication),
             NEW q \in Replicas!Sized(obj.before, obj.election),
             NEW s \in Replicas!Sized(obj.before, obj.replication)
      PROVE  q \cap s # {}
  <2>1. /\ q \in SUBSET a /\ Cardinality(q) >= obj.election
        /\ s \in SUBSET a /\ Cardinality(s) >= obj.replication
        /\ obj.election + obj.replication > Cardinality(a)
    BY <1>5, ReplicaCount DEF Replicas!Sized, Replicas!Intersects
  <2> QED BY <1>3, <2>1
<1> QED BY <1>4, <1>5, Zenon DEF Replicas!QuorumsMeet

\* One element more.
LEMMA AddedOne ==
  ASSUME NEW S, IsFiniteSet(S), NEW x
  PROVE  /\ IsFiniteSet(S \cup {x}) /\ Cardinality(S) \in Nat /\ Cardinality(S \cup {x}) \in Nat
         /\ Cardinality(S \cup {x}) <= Cardinality(S) + 1
<1>1. /\ IsFiniteSet(S \cup {x}) /\ Cardinality(S) \in Nat
      /\ Cardinality(S \cup {x}) = IF x \in S THEN Cardinality(S) ELSE Cardinality(S) + 1
  BY FS_AddElement, FS_CardinalityType
<1> QED BY <1>1

\* A number and the next one are not both even.
LEMMA Parity ==
  ASSUME NEW n \in Nat, (n + 1) % 2 = 0
  PROVE  n % 2 # 0
<1>1. /\ n \div 2 \in Nat /\ n = (n \div 2) * 2 + (n % 2)
      /\ (n + 1) \div 2 \in Nat /\ n + 1 = ((n + 1) \div 2) * 2 + ((n + 1) % 2)
  BY Division
<1> DEFINE a == n \div 2
           b == (n + 1) \div 2
           c == n % 2
           d == (n + 1) % 2
<1>2. a \in Nat /\ b \in Nat /\ n = a * 2 + c /\ n + 1 = b * 2 + d /\ d = 0
  BY <1>1
<1> HIDE DEF a, b, c, d
<1>3. c # 0
  BY <1>2
<1> QED BY <1>3 DEF c

\* The fields of a replica that leaves and rejoins.
FlapRecord == [class : {"flap"}, now : Nat, times : Seq(Nat)]

\* The transitions less than a window before transition m.
Shortly(times, m) == {k \in 1 .. m - 1 : times[m] - times[k] <= FlapWindow}

\* Transitions are in order, and before each way in there were fewer than the limit.
Flap ==
  /\ obj \in FlapRecord
  /\ \A i, j \in 1 .. Len(obj.times) : i < j => obj.times[i] < obj.times[j]
  /\ \A i \in 1 .. Len(obj.times) : obj.times[i] <= obj.now
  /\ \A m \in 1 .. Len(obj.times) : m % 2 = 0 => Cardinality(Shortly(obj.times, m)) < FlapLimit

\* The fields, one by one.
LEMMA FlapFields ==
  ASSUME obj \in FlapRecord
  PROVE  /\ obj.class = "flap" /\ obj.now \in Nat /\ obj.times \in Seq(Nat)
         /\ Len(obj.times) \in Nat /\ DOMAIN obj.times = 1 .. Len(obj.times)
         /\ \A i \in 1 .. Len(obj.times) : obj.times[i] \in Nat
<1>1. obj.class = "flap" /\ obj.now \in Nat /\ obj.times \in Seq(Nat)
  BY DEF FlapRecord
<1>2. Len(obj.times) \in Nat /\ DOMAIN obj.times = 1 .. Len(obj.times)
  BY <1>1, LenProperties
<1>3. \A i \in 1 .. Len(obj.times) : obj.times[i] \in Nat
  BY <1>1, ElementOfSeq
<1> QED BY <1>1, <1>2, <1>3

\* Time passes.
LEMMA FlapTickStep ==
  ASSUME Flap, Replicas!FlapTick
  PROVE  Flap'
<1>0. obj \in FlapRecord
  BY DEF Flap
<1>1. obj' = [obj EXCEPT !.now = @ + 1]
  BY DEF Replicas!FlapTick
<1>2. obj' \in FlapRecord /\ obj'.times = obj.times /\ obj'.now = obj.now + 1
  BY <1>0, <1>1 DEF FlapRecord
<1>3. \A i \in 1 .. Len(obj.times) : obj.times[i] <= obj.now + 1
  BY <1>0, FlapFields DEF Flap
<1> QED BY <1>2, <1>3 DEF Flap

\* A transition, out at will and in only if there were few lately.
LEMMA TransitionStep ==
  ASSUME ReplicaConstants, Flap, Replicas!Transition
  PROVE  Flap'
<1> DEFINE n == Len(obj.times)
           times == Append(obj.times, obj.now)
<1>0. obj \in FlapRecord
  BY DEF Flap
<1>1. obj' = [obj EXCEPT !.times = times]
  BY <1>0 DEF Replicas!Transition, FlapRecord
<1>2. /\ n \in Nat /\ obj.now \in Nat /\ obj.times \in Seq(Nat) /\ DOMAIN obj.times = 1 .. n
      /\ \A i \in 1 .. n : obj.times[i] \in Nat
  BY <1>0, FlapFields
<1>3. /\ times \in Seq(Nat) /\ Len(times) = n + 1 /\ times[n + 1] = obj.now
      /\ \A i \in 1 .. n : times[i] = obj.times[i]
  BY <1>2, AppendProperties
<1>4. n # 0 => obj.times[n] < obj.now
  <2>1. n # 0 => obj.times # <<>>
    BY <1>2
  <2>2. n # 0 => obj.now > obj.times[n]
    BY <2>1 DEF Replicas!Transition, Replicas!Last
  <2>3. n # 0 => n \in 1 .. n
    BY <1>2
  <2> QED BY <1>2, <2>2, <2>3
<1>5. n % 2 # 0 => Cardinality({i \in 1 .. n : obj.now - obj.times[i] <= FlapWindow}) < FlapLimit
  BY <1>2, ReplicaCount DEF Replicas!Transition, Replicas!IsIn, Replicas!MayRejoin, Replicas!Recent
<1> HIDE DEF times, n
<1>6. obj' \in FlapRecord /\ obj'.times = times /\ obj'.now = obj.now
  BY <1>0, <1>1, <1>3 DEF FlapRecord
<1>7. \A i \in 1 .. n : obj.times[i] < obj.now
  <2> SUFFICES ASSUME NEW i \in 1 .. n PROVE obj.times[i] < obj.now
    OBVIOUS
  <2>1. n # 0 /\ n \in 1 .. n /\ (i = n \/ i < n)
    BY <1>2
  <2>2. i < n => obj.times[i] < obj.times[n]
    BY <2>1 DEF Flap, n
  <2>3. obj.times[i] \in Nat /\ obj.times[n] \in Nat
    BY <1>2, <2>1
  <2> QED BY <1>2, <1>4, <2>1, <2>2, <2>3
<1>8. \A i \in 1 .. n + 1 : i \in 1 .. n \/ i = n + 1
  BY <1>2
<1>9. ASSUME NEW i \in 1 .. n + 1, NEW j \in 1 .. n + 1, i < j PROVE times[i] < times[j]
  <2>1. i \in 1 .. n
    BY <1>2, <1>9
  <2>2. CASE j \in 1 .. n
    BY <1>3, <1>9, <2>1, <2>2 DEF Flap, n
  <2>3. CASE j = n + 1
    BY <1>3, <1>7, <2>1, <2>3
  <2> QED BY <1>8, <2>2, <2>3
<1>10. \A i \in 1 .. n + 1 : times[i] <= obj.now
  <2> SUFFICES ASSUME NEW i \in 1 .. n + 1 PROVE times[i] <= obj.now
    OBVIOUS
  <2>1. CASE i \in 1 .. n
    <3>1. times[i] = obj.times[i] /\ obj.times[i] < obj.now /\ obj.times[i] \in Nat
      BY <1>2, <1>3, <1>7, <2>1
    <3> QED BY <1>2, <3>1
  <2>2. CASE i = n + 1
    BY <1>2, <1>3, <2>2
  <2> QED BY <1>8, <2>1, <2>2
<1>11. ASSUME NEW m \in 1 .. n + 1, m % 2 = 0 PROVE Cardinality(Shortly(times, m)) < FlapLimit
  <2>1. CASE m \in 1 .. n
    <3>1. \A k \in 1 .. m - 1 : k \in 1 .. n
      BY <1>2, <2>1
    <3>2. Shortly(times, m) = Shortly(obj.times, m)
      BY <1>3, <2>1, <3>1 DEF Shortly
    <3> QED BY <1>11, <2>1, <3>2 DEF Flap, n
  <2>2. CASE m = n + 1
    <3>1. n % 2 # 0
      BY <1>2, <1>11, <2>2, Parity
    <3>2. m - 1 = n
      BY <1>2, <2>2
    <3>3. Shortly(times, m) = {i \in 1 .. n : obj.now - obj.times[i] <= FlapWindow}
      BY <1>3, <2>2, <3>2 DEF Shortly
    <3> QED BY <1>5, <3>1, <3>3
  <2> QED BY <1>8, <2>1, <2>2
<1> QED BY <1>3, <1>6, <1>9, <1>10, <1>11 DEF Flap

\* What the invariant says of a window: its last way in had few before it, and
\* one way out at most follows.
LEMMA FlapPromise ==
  ASSUME ReplicaConstants, Flap
  PROVE  Replicas!FlappingIsDamped
<1> DEFINE n == Len(obj.times)
           In(t) == {i \in 1 .. n : obj.times[i] <= t /\ t - obj.times[i] <= FlapWindow}
<1>0. /\ obj \in FlapRecord /\ FlapLimit \in Nat /\ FlapWindow \in Nat
  BY DEF Flap, ReplicaConstants
<1>1. /\ n \in Nat /\ obj.now \in Nat /\ DOMAIN obj.times = 1 .. n
      /\ \A i \in 1 .. n : obj.times[i] \in Nat
  BY <1>0, FlapFields
<1>2. ASSUME NEW m \in 1 .. n
      PROVE  IsFiniteSet(Shortly(obj.times, m)) /\ Cardinality(Shortly(obj.times, m)) \in Nat
  <2>1. Shortly(obj.times, m) \in SUBSET (1 .. m - 1) /\ 1 \in Int /\ m - 1 \in Int
    BY <1>1 DEF Shortly
  <2>2. IsFiniteSet(Shortly(obj.times, m))
    BY <2>1, FS_Interval, FS_Subset
  <2> QED BY <2>2, FS_CardinalityType
<1>3. ASSUME NEW t \in 0 .. obj.now PROVE Cardinality(In(t)) <= FlapLimit + 1
  <2>1. CASE In(t) = {}
    <3>1. Cardinality(In(t)) = 0
      BY <2>1, FS_EmptySet
    <3> QED BY <1>0, <3>1
  <2>2. CASE In(t) # {}
    <3>1. In(t) \in SUBSET Nat /\ \A y \in In(t) : y <= n
      BY <1>1
    <3>2. PICK m \in In(t) : \A y \in In(t) : y <= m
      BY <1>1, <2>2, <3>1, MaxOfNaturals
    <3>3. m \in 1 .. n /\ obj.times[m] <= t /\ t \in Nat /\ t - obj.times[m] <= FlapWindow
      BY <1>1, <3>2
    <3>4. CASE m % 2 = 0
      <4>1. In(t) \subseteq Shortly(obj.times, m) \cup {m}
        <5> SUFFICES ASSUME NEW k \in In(t), k # m PROVE k \in Shortly(obj.times, m)
          OBVIOUS
        <5>1. k \in 1 .. n /\ k \in 1 .. m - 1 /\ t - obj.times[k] <= FlapWindow
          BY <1>1, <3>2, <3>3
        <5>2. obj.times[m] - obj.times[k] <= FlapWindow
          <6> DEFINE a == obj.times[m]
                     c == obj.times[k]
          <6>1. a \in Nat /\ c \in Nat /\ a <= t /\ t - c <= FlapWindow
            BY <1>1, <3>3, <5>1
          <6> HIDE DEF a, c
          <6>2. a - c <= FlapWindow
            BY <1>0, <3>3, <6>1
          <6> QED BY <6>2 DEF a, c
        <5> QED BY <5>1, <5>2 DEF Shortly
      <4>2. /\ IsFiniteSet(Shortly(obj.times, m) \cup {m})
            /\ Cardinality(Shortly(obj.times, m) \cup {m}) <= Cardinality(Shortly(obj.times, m)) + 1
        BY <1>2, <3>3, AddedOne
      <4>3. Cardinality(Shortly(obj.times, m)) < FlapLimit
        BY <3>3, <3>4 DEF Flap
      <4>4. /\ Cardinality(In(t)) <= Cardinality(Shortly(obj.times, m) \cup {m})
            /\ Cardinality(In(t)) \in Nat /\ Cardinality(Shortly(obj.times, m) \cup {m}) \in Nat
        <5> HIDE DEF In
        <5> QED BY <4>1, <4>2, FS_Subset, FS_CardinalityType
      <4>5. Cardinality(Shortly(obj.times, m)) \in Nat
        BY <1>2, <3>3
      <4> HIDE DEF In
      <4> QED BY <1>0, <4>2, <4>3, <4>4, <4>5
    <3>5. CASE m % 2 # 0 /\ m = 1
      <4>1. In(t) = {1}
        BY <1>1, <3>2, <3>5
      <4>2. Cardinality(In(t)) = 1
        BY <4>1, FS_Singleton
      <4> QED BY <1>0, <4>2
    <3>6. CASE m % 2 # 0 /\ m # 1
      <4> DEFINE p == m - 1
                 A == Shortly(obj.times, p) \cup {p}
      <4>1. p \in 1 .. n /\ p < m /\ p % 2 = 0
        BY <1>1, <3>3, <3>6
      <4>2. In(t) \subseteq A \cup {m}
        <5> SUFFICES ASSUME NEW k \in In(t), k # m, k # p PROVE k \in Shortly(obj.times, p)
          OBVIOUS
        <5>1. k \in 1 .. n /\ k \in 1 .. p - 1 /\ t - obj.times[k] <= FlapWindow
          BY <1>1, <3>2, <3>3, <4>1
        <5>2. obj.times[p] < obj.times[m] /\ obj.times[p] \in Nat /\ obj.times[m] \in Nat
              /\ obj.times[k] \in Nat
          BY <1>1, <3>3, <4>1, <5>1 DEF Flap
        <5> HIDE DEF p
        <5>3. obj.times[p] - obj.times[k] <= FlapWindow
          <6> DEFINE a == obj.times[p]
                     c == obj.times[k]
                     e == obj.times[m]
          <6>1. /\ a \in Nat /\ c \in Nat /\ e \in Nat /\ a < e /\ e <= t /\ t - c <= FlapWindow
                /\ t \in Nat
            BY <3>3, <5>1, <5>2
          <6> HIDE DEF a, c, e
          <6>2. a - c <= FlapWindow
            BY <1>0, <6>1
          <6> QED BY <6>2 DEF a, c
        <5> QED BY <5>1, <5>3 DEF Shortly
      <4> HIDE DEF p
      <4>3. IsFiniteSet(A) /\ Cardinality(A) <= Cardinality(Shortly(obj.times, p)) + 1
        BY <1>2, <4>1, AddedOne
      <4>4. Cardinality(Shortly(obj.times, p)) < FlapLimit /\ Cardinality(Shortly(obj.times, p)) \in Nat
        BY <1>2, <4>1 DEF Flap
      <4> HIDE DEF A, In
      <4>5. Cardinality(A) \in Nat /\ Cardinality(A) <= FlapLimit
        BY <1>0, <4>3, <4>4, FS_CardinalityType
      <4>6. IsFiniteSet(A \cup {m}) /\ Cardinality(A \cup {m}) <= Cardinality(A) + 1
        BY <4>3, AddedOne
      <4>7. /\ Cardinality(In(t)) <= Cardinality(A \cup {m}) /\ Cardinality(In(t)) \in Nat
            /\ Cardinality(A \cup {m}) \in Nat
        BY <4>2, <4>6, FS_Subset, FS_CardinalityType
      <4> QED BY <1>0, <4>5, <4>6, <4>7
    <3> QED BY <3>4, <3>5, <3>6
  <2> QED BY <2>1, <2>2
<1>4. \A t \in 0 .. obj.now :
        Replicas!Cardinality({i \in DOMAIN obj.times :
          obj.times[i] <= t /\ t - obj.times[i] <= FlapWindow}) <= FlapLimit + 1
  BY <1>1, <1>3, ReplicaCount
<1> QED BY <1>4, Zenon DEF Replicas!FlappingIsDamped

\* Whole turns change no remainder.
LEMMA WholeTurns ==
  ASSUME NEW n \in Nat \ {0}, NEW k \in Nat, NEW y \in Nat
  PROVE  (k * n + y) % n = y % n
<1> DEFINE a == y \div n
           c == y % n
<1>1. a \in Nat /\ c \in 0 .. n - 1 /\ y = a * n + c
  BY Division
<1> HIDE DEF a, c
<1>2. k * n + y = (k + a) * n + c /\ k + a \in Nat
  BY <1>1
<1>3. ((k + a) * n + c) % n = c
  BY <1>1, <1>2, DivisionIsUnique
<1> QED BY <1>2, <1>3 DEF c

\* Two numbers less than a turn apart with the same remainder are the same.
LEMMA SameInTurn ==
  ASSUME NEW n \in Nat \ {0}, NEW x \in Nat, NEW y \in Nat, x % n = y % n, x - y < n, y - x < n
  PROVE  x = y
<1> DEFINE a == x \div n
           b == y \div n
           c == x % n
<1>1. a \in Nat /\ b \in Nat /\ c \in 0 .. n - 1 /\ x = a * n + c /\ y = b * n + c
  BY Division
<1>2. /\ a * n \in Nat /\ b * n \in Nat
      /\ a < b => a * n + n <= b * n
      /\ b < a => b * n + n <= a * n
  BY <1>1, Multiples
<1> HIDE DEF a, b, c
<1> DEFINE an == a * n
           bn == b * n
<1>3. a = b => an = bn
  OBVIOUS
<1>4. /\ an \in Nat /\ bn \in Nat /\ x = an + c /\ y = bn + c
      /\ a < b => an + n <= bn
      /\ b < a => bn + n <= an
  BY <1>1, <1>2
<1> HIDE DEF an, bn
<1> QED BY <1>1, <1>3, <1>4

\* Counting from one and counting from zero.
LEMMA CountFromZero ==
  ASSUME NEW N \in Nat, NEW S
  PROVE  Cardinality({p \in 1 .. N : p - 1 \in S}) = Cardinality({x \in 0 .. N - 1 : x \in S})
<1> DEFINE A == {p \in 1 .. N : p - 1 \in S}
           B == {x \in 0 .. N - 1 : x \in S}
           f == [p \in A |-> p - 1]
<1>1. f \in [A -> B]
  OBVIOUS
<1>2. \A p, k \in A : f[p] = f[k] => p = k
  OBVIOUS
<1>3. \A x \in B : \E p \in A : f[p] = x
  <2> SUFFICES ASSUME NEW x \in B PROVE \E p \in A : f[p] = x
    OBVIOUS
  <2>1. x + 1 \in 1 .. N /\ (x + 1) - 1 = x
    OBVIOUS
  <2>2. x + 1 \in A
    BY <2>1
  <2> QED BY <2>1, <2>2
<1>4. f \in Bijection(A, B)
  <2> HIDE DEF A, B, f
  <2> QED BY <1>1, <1>2, <1>3 DEF Bijection, Injection, Surjection, IsInjective
<1>5. IsFiniteSet(A)
  <2>1. A \in SUBSET (1 .. N) /\ 1 \in Int /\ N \in Int
    OBVIOUS
  <2> HIDE DEF A
  <2> QED BY <2>1, FS_Interval, FS_Subset
<1> HIDE DEF A, B, f
<1>6. Cardinality(B) = Cardinality(A)
  BY <1>4, <1>5, FS_Bijection DEF ExistsBijection
<1> QED BY <1>6 DEF A, B

\* How many of the first c numbers have their remainder in S.
LEMMA PeriodicCount ==
  ASSUME NEW n \in Nat \ {0}, NEW S \in SUBSET (0 .. n - 1), NEW c \in Nat
  PROVE  Cardinality({x \in 0 .. c - 1 : x % n \in S})
           = (c \div n) * Cardinality(S) + Cardinality({x \in S : x < c % n})
<1> DEFINE F(k) == {x \in 0 .. k - 1 : x % n \in S}
           T(k) == {x \in S : x < k}
           s == Cardinality(S)
           Good(k) == Cardinality(F(k)) = (k \div n) * s + Cardinality(T(k % n))
           Bad == {k \in Nat : ~ Good(k)}
<1>1. IsFiniteSet(S) /\ s \in Nat
  <2>1. 0 \in Int /\ n - 1 \in Int
    OBVIOUS
  <2>2. IsFiniteSet(S)
    BY <2>1, FS_Interval, FS_Subset
  <2> QED BY <2>2, FS_CardinalityType
<1>2. \A k \in Nat : IsFiniteSet(T(k)) /\ Cardinality(T(k)) \in Nat
  BY <1>1, FS_Subset, FS_CardinalityType
<1>3. \A k \in Nat : IsFiniteSet(F(k)) /\ Cardinality(F(k)) \in Nat
  <2> SUFFICES ASSUME NEW k \in Nat PROVE IsFiniteSet(F(k)) /\ Cardinality(F(k)) \in Nat
    OBVIOUS
  <2>1. F(k) \in SUBSET (0 .. k - 1) /\ 0 \in Int /\ k - 1 \in Int
    OBVIOUS
  <2> HIDE DEF F
  <2>2. IsFiniteSet(F(k))
    BY <2>1, FS_Interval, FS_Subset
  <2> QED BY <2>2, FS_CardinalityType
<1>4. T(0) = {} /\ Cardinality(T(0)) = 0 /\ T(n) = S
  <2>0. \A x \in S : ~ (x < 0) /\ x < n
    OBVIOUS
  <2>1. T(0) = {} /\ T(n) = S
    BY <2>0, Zenon
  <2> HIDE DEF T
  <2> QED BY <2>1, FS_EmptySet
<1>5. Good(0)
  <2>1. F(0) = {}
    OBVIOUS
  <2>2. Cardinality(F(0)) = 0
    BY <2>1, FS_EmptySet
  <2>3. 0 \in 0 .. n - 1 /\ 0 * n + 0 = 0
    OBVIOUS
  <2>4. (0 * n + 0) % n = 0 /\ (0 * n + 0) \div n = 0
    BY <2>3, DivisionIsUnique
  <2>5. 0 % n = 0 /\ 0 \div n = 0
    BY <2>3, <2>4
  <2> HIDE DEF F, T, s
  <2>6. 0 * s = 0
    BY <1>1
  <2> QED BY <1>4, <2>2, <2>5, <2>6
<1>6. ASSUME NEW k \in Nat, Good(k) PROVE Good(k + 1)
  <2> DEFINE q == k \div n
             r == k % n
             one == IF r \in S THEN 1 ELSE 0
  <2>0. q \in Nat /\ r \in 0 .. n - 1 /\ k = q * n + r
    BY Division
  <2>1. q \in Nat /\ r \in 0 .. n - 1 /\ k = q * n + r /\ r \in Nat
    <3> HIDE DEF q, r
    <3> QED BY <2>0
  <2>2. Cardinality(F(k + 1)) = Cardinality(F(k)) + one
    <3>1. k \notin F(k)
      OBVIOUS
    <3>2. F(k + 1) = IF r \in S THEN F(k) \cup {k} ELSE F(k)
      OBVIOUS
    <3> HIDE DEF F, r
    <3> QED BY <1>3, <3>1, <3>2, FS_AddElement
  <2>3. Cardinality(T(r + 1)) = Cardinality(T(r)) + one
    <3>1. r \notin T(r)
      BY <2>1
    <3>2. T(r + 1) = IF r \in S THEN T(r) \cup {r} ELSE T(r)
      <4> HIDE DEF r
      <4>1. \A x \in S : x \in Int /\ (x < r + 1 <=> x < r \/ x = r)
        BY <2>1
      <4>2. T(r + 1) = {x \in S : x < r \/ x = r}
        BY <4>1
      <4> QED BY <4>2
    <3>3. IsFiniteSet(T(r)) /\ Cardinality(T(r)) \in Nat
      BY <1>2, <2>1
    <3>4. CASE r \in S
      <4> HIDE DEF T, r
      <4>1. Cardinality(T(r) \cup {r}) = Cardinality(T(r)) + 1
        BY <3>1, <3>3, FS_AddElement
      <4> QED BY <3>2, <3>4, <4>1
    <3>5. CASE r \notin S
      <4> HIDE DEF T, r
      <4> QED BY <3>2, <3>3, <3>5
    <3> QED BY <3>4, <3>5
  <2>4. Cardinality(F(k)) = q * s + Cardinality(T(r))
    BY <1>6
  <2>5. one \in Nat /\ Cardinality(T(r)) \in Nat /\ q * s \in Nat
    <3>1. one \in Nat
      OBVIOUS
    <3>2. Cardinality(T(r)) \in Nat
      BY <1>2, <2>1
    <3> HIDE DEF q, s
    <3> QED BY <1>1, <2>1, <3>1, <3>2
  <2> HIDE DEF F, T, s, q, r, one
  <2>6. CASE r + 1 # n
    <3>1. r + 1 \in 0 .. n - 1 /\ k + 1 = q * n + (r + 1)
      BY <2>1, <2>6
    <3>2. (k + 1) % n = r + 1 /\ (k + 1) \div n = q
      BY <2>1, <3>1, DivisionIsUnique
    <3> QED BY <2>2, <2>3, <2>4, <2>5, <3>2
  <2>7. CASE r + 1 = n
    <3>1. 0 \in 0 .. n - 1 /\ k + 1 = (q + 1) * n + 0 /\ q + 1 \in Nat
      BY <2>1, <2>7
    <3>9. ((q + 1) * n + 0) % n = 0 /\ ((q + 1) * n + 0) \div n = q + 1
      BY <3>1, DivisionIsUnique
    <3>2. (k + 1) % n = 0 /\ (k + 1) \div n = q + 1
      BY <3>1, <3>9
    <3>3. (q + 1) * s = q * s + s
      BY <1>1, <2>1
    <3>4. s = Cardinality(T(r)) + one
      BY <1>4, <2>3, <2>7 DEF s
    <3>5. Cardinality(F(k + 1)) = (q + 1) * s + 0
      BY <1>1, <2>2, <2>4, <2>5, <3>3, <3>4
    <3> QED BY <1>4, <3>2, <3>5
  <2> QED BY <2>6, <2>7
<1> HIDE DEF Good
<1>7. Bad = {}
  <2> SUFFICES ASSUME Bad # {} PROVE FALSE
    OBVIOUS
  <2>1. PICK k \in Bad : \A y \in Bad : k <= y
    BY LeastNatural
  <2>2. k # 0 /\ k \in Nat
    BY <1>5, <2>1
  <2>3. k - 1 \in Nat /\ k - 1 \notin Bad /\ (k - 1) + 1 = k
    BY <2>1, <2>2
  <2>4. Good(k - 1)
    BY <2>3
  <2>5. Good((k - 1) + 1)
    BY <1>6, <2>3, <2>4
  <2> QED BY <2>1, <2>3, <2>5
<1>8. Good(c)
  BY <1>7
<1> QED BY <1>8 DEF Good

\* The replicas of a partition, in any number.
Chosen == UNION {[1 .. f -> Nat] : f \in Nat}

\* The fields of a placement.
PlacingRecord == [class : {"placing"}, n : Nat, factor : Nat, placed : Seq(Chosen)]

\* The replicas of the partition placed after c others.
TurnOf(n, f, c) == [i \in 1 .. f |-> (c + i - 1) % n]

\* Every partition placed so far starts where its number says.
Placing ==
  /\ obj \in PlacingRecord
  /\ 1 <= obj.factor /\ obj.factor <= obj.n
  /\ \A p \in 1 .. Len(obj.placed) : obj.placed[p] = TurnOf(obj.n, obj.factor, p - 1)

\* The fields of a placement, one by one.
LEMMA PlacingFields ==
  ASSUME NEW o \in PlacingRecord
  PROVE  o.class = "placing" /\ o.n \in Nat /\ o.factor \in Nat /\ o.placed \in Seq(Chosen)
BY DEF PlacingRecord

\* A turn chooses replicas, each of them a broker.
LEMMA TurnIsChosen ==
  ASSUME NEW n \in Nat \ {0}, NEW f \in Nat, NEW c \in Nat
  PROVE  TurnOf(n, f, c) \in Chosen /\ \A i \in 1 .. f : TurnOf(n, f, c)[i] \in 0 .. n - 1
<1>1. ASSUME NEW i \in 1 .. f PROVE (c + i - 1) % n \in 0 .. n - 1 /\ (c + i - 1) % n \in Nat
  <2>1. c + i - 1 \in Nat
    OBVIOUS
  <2>2. (c + i - 1) % n \in 0 .. n - 1
    BY <2>1, Division
  <2> DEFINE r == (c + i - 1) % n
  <2>3. r \in 0 .. n - 1
    BY <2>2
  <2> HIDE DEF r
  <2>4. r \in Nat
    BY <2>3
  <2> QED BY <2>3, <2>4 DEF r
<1>2. TurnOf(n, f, c) \in [1 .. f -> Nat]
  BY <1>1 DEF TurnOf
<1>3. TurnOf(n, f, c) \in Chosen
  BY <1>2 DEF Chosen
<1> QED BY <1>1, <1>3 DEF TurnOf

\* Placing one more partition.
LEMMA PlaceNextStep ==
  ASSUME Placing, Replicas!PlaceNext
  PROVE  Placing'
<1>0. obj \in PlacingRecord /\ obj.n \in Nat \ {0} /\ obj.factor \in Nat /\ obj.placed \in Seq(Chosen)
  BY PlacingFields DEF Placing
<1> DEFINE t == TurnOf(obj.n, obj.factor, Len(obj.placed))
           new == Append(obj.placed, t)
<1>1. Len(obj.placed) \in Nat
  BY <1>0
<1>2. t \in Chosen
  BY <1>0, <1>1, TurnIsChosen
<1>3. obj' = [obj EXCEPT !.placed = new]
  BY Zenon DEF Replicas!PlaceNext, TurnOf
<1> HIDE DEF t
<1>4. /\ new \in Seq(Chosen) /\ Len(new) = Len(obj.placed) + 1
      /\ \A p \in 1 .. Len(obj.placed) : new[p] = obj.placed[p]
      /\ new[Len(obj.placed) + 1] = t
  BY <1>0, <1>2
<1> HIDE DEF new
<1>5. obj' \in PlacingRecord /\ obj'.n = obj.n /\ obj'.factor = obj.factor /\ obj'.placed = new
  BY <1>0, <1>3, <1>4 DEF PlacingRecord
<1>6. ASSUME NEW p \in 1 .. Len(new) PROVE new[p] = TurnOf(obj.n, obj.factor, p - 1)
  <2>1. CASE p \in 1 .. Len(obj.placed)
    BY <1>4, <2>1 DEF Placing
  <2>2. CASE p = Len(obj.placed) + 1
    <3>1. p - 1 = Len(obj.placed)
      BY <1>1, <2>2
    <3>2. new[p] = t
      BY <1>4, <2>2
    <3> QED BY <3>1, <3>2 DEF t
  <2> QED BY <1>1, <1>4, <2>1, <2>2
<1> QED BY <1>5, <1>6 DEF Placing

\* The replicas of one partition are on different brokers.
LEMMA TurnsAreInjective ==
  ASSUME NEW n \in Nat \ {0}, NEW f \in Nat, f <= n, NEW c \in Nat,
         NEW i \in 1 .. f, NEW j \in 1 .. f, TurnOf(n, f, c)[i] = TurnOf(n, f, c)[j]
  PROVE  i = j
<1> DEFINE x == c + i - 1
           y == c + j - 1
<1>1. x \in Nat /\ y \in Nat /\ x - y < n /\ y - x < n
  OBVIOUS
<1>2. x % n = y % n
  BY DEF TurnOf
<1> HIDE DEF x, y
<1>3. x = y
  BY <1>1, <1>2, SameInTurn
<1> QED BY <1>3 DEF x, y

\* Numbers all within w of each other have a spread of no more than w.
LEMMA SpreadIsWithin ==
  ASSUME NEW S, S # {}, NEW f \in [S -> Nat], NEW lo \in Nat, NEW w \in Nat,
         \A b \in S : lo <= f[b] /\ f[b] <= lo + w
  PROVE  Replicas!Spread(f) \in Nat /\ Replicas!Spread(f) <= w
<1> DEFINE R == {f[b] : b \in S}
<1>1. Replicas!Range(f) = R
  BY Zenon DEF Replicas!Range
<1>2. R \in SUBSET Nat /\ R # {} /\ lo + w \in Nat /\ \A y \in R : lo <= y /\ y <= lo + w
  OBVIOUS
<1> HIDE DEF R
<1>3. Max(R) \in R /\ Min(R) \in R /\ Min(R) <= Max(R)
  BY <1>2, MaxOfNaturals, MinOfNaturals
<1>4. Replicas!Spread(f) = Max(R) - Min(R)
  BY <1>1, ReplicaMin, ReplicaMax DEF Replicas!Spread
<1> DEFINE a == Max(R)
           c == Min(R)
<1>5. a \in Nat /\ c \in Nat /\ lo <= c /\ a <= lo + w /\ c <= a
  BY <1>2, <1>3
<1> HIDE DEF a, c
<1>6. a - c \in Nat /\ a - c <= w
  BY <1>5
<1> QED BY <1>4, <1>6 DEF a, c

\* A number short of a turn, and the same number one turn on.
LEMMA WithinTwoTurns ==
  ASSUME NEW n \in Nat \ {0}, NEW y \in 0 .. n - 1
  PROVE  y % n = y /\ (n + y) % n = y
<1>1. (0 * n + y) % n = y /\ 0 * n + y = y
  BY DivisionIsUnique
<1>2. (1 * n + y) % n = y /\ 1 * n + y = n + y
  BY DivisionIsUnique
<1> QED BY <1>1, <1>2

\* The places in a turn from which broker b gets a replica.
Places(n, f, b) == {j \in 0 .. n - 1 : \E i \in 1 .. f : (j + i - 1) % n = b}

\* There are as many of them as replicas.
LEMMA PlacesAreAsMany ==
  ASSUME NEW n \in Nat \ {0}, NEW f \in Nat, f <= n, NEW b \in 0 .. n - 1
  PROVE  Cardinality(Places(n, f, b)) = f
<1> DEFINE P == Places(n, f, b)
           G(i) == IF i - 1 <= b THEN b - (i - 1) ELSE b - (i - 1) + n
           g == [i \in 1 .. f |-> G(i)]
<1>1. ASSUME NEW i \in 1 .. f PROVE G(i) \in P
  <2>1. G(i) \in 0 .. n - 1
    OBVIOUS
  <2>2. G(i) + i - 1 = b \/ G(i) + i - 1 = n + b
    OBVIOUS
  <2> HIDE DEF G
  <2>3. (G(i) + i - 1) % n = b
    BY <2>2, WithinTwoTurns
  <2> QED BY <2>1, <2>3 DEF Places
<1>2. \A i, j \in 1 .. f : G(i) = G(j) => i = j
  OBVIOUS
<1>3. ASSUME NEW j \in P PROVE \E i \in 1 .. f : G(i) = j
  <2>1. PICK i \in 1 .. f : (j + i - 1) % n = b
    BY DEF Places
  <2>2. j \in 0 .. n - 1
    BY DEF Places
  <2> HIDE DEF P
  <2>3. CASE j + i - 1 < n
    <3>1. j + i - 1 \in 0 .. n - 1
      BY <2>2, <2>3
    <3>2. j + i - 1 = b
      BY <2>1, <3>1, WithinTwoTurns
    <3>3. G(i) = j
      BY <2>2, <3>2
    <3> QED BY <3>3
  <2>4. CASE ~ (j + i - 1 < n)
    <3> DEFINE y == j + i - 1 - n
    <3>1. y \in 0 .. n - 1 /\ n + y = j + i - 1
      BY <2>2, <2>4
    <3> HIDE DEF y
    <3>2. y = b
      BY <2>1, <3>1, WithinTwoTurns
    <3>3. G(i) = j
      BY <2>2, <3>1, <3>2
    <3> QED BY <3>3
  <2> QED BY <2>3, <2>4
<1> HIDE DEF P, G
<1>4. g \in Bijection(1 .. f, P)
  <2>1. g \in [1 .. f -> P] /\ \A i \in 1 .. f : g[i] = G(i)
    BY <1>1
  <2> HIDE DEF g
  <2>2. \A i, j \in 1 .. f : g[i] = g[j] => i = j
    BY <1>2, <2>1
  <2>3. \A j \in P : \E i \in 1 .. f : g[i] = j
    BY <1>3, <2>1
  <2> QED BY <2>1, <2>2, <2>3, Fun_IsBij, Zenon
<1>5. ExistsBijection(1 .. f, P)
  BY <1>4, Fun_ExistsBij
<1>6. Cardinality(P) = f
  BY <1>5, FS_CountingElements
<1> QED BY <1>6 DEF P

\* Which partitions have a replica on broker b.
LEMMA HostedInTurn ==
  ASSUME NEW n \in Nat \ {0}, NEW f \in Nat, NEW b \in 0 .. n - 1, NEW c \in Nat
  PROVE  (\E i \in 1 .. f : TurnOf(n, f, c)[i] = b) <=> c % n \in Places(n, f, b)
<1> DEFINE q == c \div n
           r == c % n
<1>1. q \in Nat /\ r \in 0 .. n - 1 /\ c = q * n + r
  BY Division
<1> HIDE DEF q, r
<1>2. ASSUME NEW i \in 1 .. f PROVE TurnOf(n, f, c)[i] = (r + i - 1) % n
  <2> DEFINE y == r + i - 1
             qn == q * n
  <2>1. y \in Nat
    BY <1>1
  <2>2. (q * n + y) % n = y % n
    BY <1>1, <2>1, WholeTurns
  <2>3. qn \in Nat /\ c = qn + r
    BY <1>1, Multiples
  <2> HIDE DEF qn
  <2>4. c + i - 1 = qn + (r + i - 1)
    BY <1>1, <2>3
  <2>5. c + i - 1 = q * n + y
    BY <2>4 DEF qn
  <2> HIDE DEF y
  <2>6. TurnOf(n, f, c)[i] = (q * n + y) % n
    BY <2>5 DEF TurnOf
  <2> QED BY <2>2, <2>6 DEF y
<1>3. r \in Places(n, f, b) <=> \E i \in 1 .. f : (r + i - 1) % n = b
  BY <1>1 DEF Places
<1> QED BY <1>2, <1>3 DEF r

\* How many partitions have a replica on broker b, and how many are led by it.
LEMMA HostedAre ==
  ASSUME Placing, NEW b \in 0 .. obj.n - 1
  PROVE  LET c == Len(obj.placed)
             P == Places(obj.n, obj.factor, b)
         IN  /\ Replicas!Hosts(obj)[b]
                  = (c \div obj.n) * obj.factor + Cardinality({x \in P : x < c % obj.n})
             /\ Replicas!Leads(obj)[b] = c \div obj.n + (IF b < c % obj.n THEN 1 ELSE 0)
<1> DEFINE c == Len(obj.placed)
           n == obj.n
           f == obj.factor
           P == Places(n, f, b)
<1>0. /\ obj \in PlacingRecord /\ n \in Nat \ {0} /\ f \in Nat /\ f <= n /\ 1 \in 1 .. f
      /\ obj.placed \in Seq(Chosen) /\ c \in Nat /\ b \in 0 .. n - 1
  BY PlacingFields DEF Placing
<1>1. DOMAIN obj.placed = 1 .. c /\ \A p \in 1 .. c : obj.placed[p] = TurnOf(n, f, p - 1)
  BY <1>0 DEF Placing
<1>2. Replicas!Hosts(obj)[b] = Cardinality({p \in 1 .. c : b \in Replicas!Range(obj.placed[p])})
  BY <1>1, ReplicaCount DEF Replicas!Hosts
<1>3. Replicas!Leads(obj)[b] = Cardinality({p \in 1 .. c : obj.placed[p][1] = b})
  BY <1>1, ReplicaCount DEF Replicas!Leads
<1> HIDE DEF n, f, c, P
<1> DEFINE InPlace == {x \in Nat : x % n \in P}
           AtHead == {x \in Nat : x % n = b}
<1>4. ASSUME NEW p \in 1 .. c
      PROVE  /\ b \in Replicas!Range(obj.placed[p]) <=> p - 1 \in InPlace
             /\ obj.placed[p][1] = b <=> p - 1 \in AtHead
  <2>1. p - 1 \in Nat
    BY <1>0
  <2>2. DOMAIN TurnOf(n, f, p - 1) = 1 .. f
    BY DEF TurnOf
  <2>3. b \in Replicas!Range(TurnOf(n, f, p - 1)) <=> \E i \in 1 .. f : TurnOf(n, f, p - 1)[i] = b
    BY <2>2, Zenon DEF Replicas!Range
  <2>4. b \in Replicas!Range(TurnOf(n, f, p - 1)) <=> (p - 1) % n \in P
    <3> DEFINE k == p - 1
    <3>1. k \in Nat
      BY <2>1
    <3> HIDE DEF k
    <3>2. (\E i \in 1 .. f : TurnOf(n, f, k)[i] = b) <=> k % n \in Places(n, f, b)
      BY <1>0, <3>1, HostedInTurn
    <3> QED BY <2>3, <3>2 DEF P, k
  <2>5. (p - 1) + 1 - 1 = p - 1
    BY <1>0
  <2>6. TurnOf(n, f, p - 1)[1] = (p - 1) % n
    BY <1>0, <2>5 DEF TurnOf
  <2> QED BY <1>1, <2>1, <2>4, <2>6
<1> HIDE DEF InPlace, AtHead
<1>5. /\ {p \in 1 .. c : b \in Replicas!Range(obj.placed[p])} = {p \in 1 .. c : p - 1 \in InPlace}
      /\ {p \in 1 .. c : obj.placed[p][1] = b} = {p \in 1 .. c : p - 1 \in AtHead}
  BY <1>4
<1>6. /\ Cardinality({p \in 1 .. c : p - 1 \in InPlace}) = Cardinality({x \in 0 .. c - 1 : x \in InPlace})
      /\ Cardinality({p \in 1 .. c : p - 1 \in AtHead}) = Cardinality({x \in 0 .. c - 1 : x \in AtHead})
  BY <1>0, CountFromZero
<1>7. /\ {x \in 0 .. c - 1 : x \in InPlace} = {x \in 0 .. c - 1 : x % n \in P}
      /\ {x \in 0 .. c - 1 : x \in AtHead} = {x \in 0 .. c - 1 : x % n = b}
  <2>1. \A x \in 0 .. c - 1 : x \in Nat
    BY <1>0
  <2> QED BY <2>1, Zenon DEF InPlace, AtHead
<1>8. P \in SUBSET (0 .. n - 1) /\ Cardinality(P) = f
  BY <1>0, PlacesAreAsMany DEF P, Places
<1>9. Cardinality({x \in 0 .. c - 1 : x % n \in P})
        = (c \div n) * f + Cardinality({x \in P : x < c % n})
  BY <1>0, <1>8, PeriodicCount
<1>10. Cardinality({x \in 0 .. c - 1 : x % n = b}) = c \div n + (IF b < c % n THEN 1 ELSE 0)
  BY <1>0, Remainders
<1>11. /\ Replicas!Hosts(obj)[b] = (c \div n) * f + Cardinality({x \in P : x < c % n})
       /\ Replicas!Leads(obj)[b] = c \div n + (IF b < c % n THEN 1 ELSE 0)
  BY <1>2, <1>3, <1>5, <1>6, <1>7, <1>9, <1>10
<1> QED BY <1>11 DEF c, n, f, P

\* Placement is even.
LEMMA PlacingPromise ==
  ASSUME Placing
  PROVE  Replicas!PlacementIsEven
<1> DEFINE c == Len(obj.placed)
           n == obj.n
           f == obj.factor
           q == c \div n
           r == c % n
           H == Replicas!Hosts(obj)
           L == Replicas!Leads(obj)
           T(b) == Cardinality({x \in Places(n, f, b) : x < r})
<1>0. /\ obj \in PlacingRecord /\ n \in Nat \ {0} /\ f \in Nat /\ f <= n
      /\ obj.placed \in Seq(Chosen) /\ c \in Nat
  BY PlacingFields DEF Placing
<1>1. DOMAIN obj.placed = 1 .. c /\ \A p \in 1 .. c : obj.placed[p] = TurnOf(n, f, p - 1)
  BY <1>0 DEF Placing
<1>2. ASSUME NEW p \in DOMAIN obj.placed PROVE Replicas!IsInjective(obj.placed[p])
  <2> DEFINE t == TurnOf(n, f, p - 1)
  <2>1. p - 1 \in Nat /\ obj.placed[p] = t /\ DOMAIN t = 1 .. f
    BY <1>0, <1>1 DEF TurnOf
  <2> HIDE DEF n, f
  <2>2. \A i, j \in 1 .. f : t[i] = t[j] => i = j
    BY <1>0, <2>1, TurnsAreInjective
  <2> HIDE DEF t
  <2> QED BY <2>1, <2>2, Zenon DEF Replicas!IsInjective
<1>3. \A b \in 0 .. n - 1 : H[b] = q * f + T(b) /\ L[b] = q + (IF b < r THEN 1 ELSE 0)
  BY HostedAre
<1>4. DOMAIN H = 0 .. n - 1 /\ DOMAIN L = 0 .. n - 1
      /\ H = [b \in 0 .. n - 1 |-> H[b]] /\ L = [b \in 0 .. n - 1 |-> L[b]]
  BY DEF Replicas!Hosts, Replicas!Leads
<1> HIDE DEF c, n, f, H, L
<1>5. q \in Nat /\ r \in 0 .. n - 1
  BY <1>0, Division
<1> HIDE DEF q, r
<1>6. ASSUME NEW b \in 0 .. n - 1
      PROVE  T(b) \in Nat /\ T(b) <= f /\ (r = 0 => T(b) = 0)
  <2> DEFINE P == Places(n, f, b)
             U == {x \in P : x < r}
  <2>0. P \in SUBSET (0 .. n - 1)
    BY DEF Places
  <2>1. P \in SUBSET (0 .. n - 1) /\ Cardinality(P) = f /\ 0 \in Int /\ n - 1 \in Int
    BY <1>0, <2>0, PlacesAreAsMany
  <2>2. \A x \in P : ~ (x < 0)
    BY <1>0, <2>1
  <2>3. r = 0 => U = {}
    BY <2>2
  <2> HIDE DEF P
  <2>4. IsFiniteSet(P)
    BY <2>1, FS_Interval, FS_Subset
  <2>5. U \in SUBSET P
    OBVIOUS
  <2> HIDE DEF U
  <2>6. Cardinality(U) \in Nat /\ Cardinality(U) <= f
    BY <2>1, <2>4, <2>5, FS_Subset, FS_CardinalityType
  <2>7. r = 0 => Cardinality(U) = 0
    BY <2>3, FS_EmptySet
  <2> QED BY <2>6, <2>7 DEF U, P
<1> HIDE DEF T
<1> DEFINE qf == q * f
<1>7. qf \in Nat
  BY <1>0, <1>5
<1> HIDE DEF qf
<1>8. /\ \A b \in 0 .. n - 1 : H[b] \in Nat /\ qf <= H[b] /\ H[b] <= qf + f
      /\ r = 0 => \A b \in 0 .. n - 1 : qf <= H[b] /\ H[b] <= qf + 0
      /\ \A b \in 0 .. n - 1 : L[b] \in Nat /\ q <= L[b] /\ L[b] <= q + 1
  <2>1. \A b \in 0 .. n - 1 : H[b] = qf + T(b)
    BY <1>3 DEF qf
  <2>2. ASSUME NEW b \in 0 .. n - 1
        PROVE  /\ H[b] \in Nat /\ qf <= H[b] /\ H[b] <= qf + f
               /\ r = 0 => H[b] <= qf + 0
    <3>1. H[b] = qf + T(b) /\ T(b) \in Nat /\ T(b) <= f /\ (r = 0 => T(b) = 0)
      BY <1>6, <2>1
    <3> QED BY <1>0, <1>7, <3>1
  <2>3. ASSUME NEW b \in 0 .. n - 1
        PROVE  L[b] \in Nat /\ q <= L[b] /\ L[b] <= q + 1
    <3>1. L[b] = q \/ L[b] = q + 1
      BY <1>3, <1>5
    <3> QED BY <1>5, <3>1
  <2> QED BY <2>2, <2>3
<1>9. H \in [0 .. n - 1 -> Nat] /\ L \in [0 .. n - 1 -> Nat] /\ 0 .. n - 1 # {}
  <2>1. 0 \in 0 .. n - 1
    BY <1>0
  <2> QED BY <1>4, <1>8, <2>1
<1>10. Replicas!Spread(H) <= f
  BY <1>0, <1>7, <1>8, <1>9, SpreadIsWithin
<1>11. Replicas!Spread(L) <= 1
  BY <1>5, <1>8, <1>9, SpreadIsWithin
<1>12. r = 0 => Replicas!Spread(H) = 0
  <2> SUFFICES ASSUME r = 0 PROVE Replicas!Spread(H) = 0
    OBVIOUS
  <2>1. Replicas!Spread(H) \in Nat /\ Replicas!Spread(H) <= 0
    BY <1>7, <1>8, <1>9, SpreadIsWithin
  <2> QED BY <2>1
<1> QED BY <1>2, <1>10, <1>11, <1>12 DEF Replicas!PlacementIsEven, H, L, r, c, n, f

\* The invariant of replica housekeeping, one disjunct per class of object.
ReplicaInv == Moving(obj) \/ Flap \/ Voters \/ Placing

\* It holds in every initial state.
LEMMA ReplicaStarts ==
  ASSUME ReplicaConstants, Replicas!Init
  PROVE  ReplicaInv
<1>1. CASE Replicas!MoveInit
  <2> DEFINE zero == [b \in 1 .. 3 |-> 0]
             late == [b \in 1 .. 3 |-> IF b = 3 THEN LagWindow + 1 ELSE 0]
  <2>1. zero \in [1 .. 3 -> Nat] /\ late \in [1 .. 3 -> Nat] /\ late[3] > LagWindow
    BY DEF ReplicaConstants
  <2>2. \A b \in 1 .. 3 : zero[b] = 0
    OBVIOUS
  <2>3. obj = [class |-> "move", hosted |-> {1, 2}, leader |-> 1, end |-> zero, seen |-> zero,
               hw |-> 0, behind |-> late, phase |-> "none", total |-> 0, copied |-> 0,
               position |-> 0]
    BY <1>1 DEF Replicas!MoveInit, Replicas!ORIGINAL, Replicas!TooLong
  <2> HIDE DEF zero, late
  <2>4. {1, 2} = 1 .. 2 /\ {1, 2} \subseteq 1 .. 3
    OBVIOUS
  <2>5. obj \in MoveRecord
    BY <2>1, <2>3, <2>4 DEF MoveRecord
  <2>6. /\ obj.hosted = {1, 2} /\ obj.leader = 1 /\ obj.end = zero /\ obj.seen = zero /\ obj.hw = 0
        /\ obj.behind = late /\ obj.phase = "none" /\ obj.position = 0
    BY <2>3
  <2>7. Hosting(obj)
    BY <2>1, <2>4, <2>6 DEF Hosting
  <2>8. \A b \in Replicas!InSync(obj) : b \in 1 .. 3
    BY <2>4, <2>6 DEF Replicas!InSync
  <2>9. Moving(obj)
    BY <2>2, <2>5, <2>6, <2>7, <2>8 DEF Moving
  <2> QED BY <2>9 DEF ReplicaInv
<1>2. CASE Replicas!FlapInit
  <2> DEFINE none == <<>>
  <2>1. none \in Seq(Nat) /\ Len(none) = 0
    OBVIOUS
  <2>2. obj = [class |-> "flap", now |-> 0, times |-> none]
    BY <1>2 DEF Replicas!FlapInit
  <2> HIDE DEF none
  <2>3. obj \in FlapRecord /\ obj.times = none
    BY <2>1, <2>2 DEF FlapRecord
  <2>4. 1 .. Len(obj.times) = {}
    BY <2>1, <2>3
  <2>5. Flap
    BY <2>3, <2>4, Zenon DEF Flap
  <2> QED BY <2>5 DEF ReplicaInv
<1>3. CASE Replicas!VotersInit
  <2>1. PICK n \in 1 .. MaxVoters, e \in 1 .. MaxVoters, r \in 1 .. MaxVoters :
          obj = [class |-> "voters", before |-> 1 .. n, voters |-> 1 .. n,
                 election |-> e, replication |-> r]
    BY <1>3 DEF Replicas!VotersInit
  <2> DEFINE all == 1 .. n
  <2>2. all \subseteq 1 .. MaxVoters /\ e \in Nat /\ r \in Nat
    BY DEF ReplicaConstants
  <2>3. obj = [class |-> "voters", before |-> all, voters |-> all, election |-> e, replication |-> r]
    BY <2>1
  <2> HIDE DEF all
  <2>4. Voters
    BY <2>2, <2>3 DEF Voters, VotersRecord, OneVoterApart
  <2> QED BY <2>4 DEF ReplicaInv
<1>4. CASE Replicas!PlacingInit
  <2> DEFINE none == <<>>
  <2>1. none \in Seq(Chosen) /\ Len(none) = 0
    OBVIOUS
  <2>2. PICK n \in 1 .. MaxVoters, f \in 1 .. MaxVoters :
          f <= n /\ obj = [class |-> "placing", n |-> n, factor |-> f, placed |-> none]
    BY <1>4 DEF Replicas!PlacingInit
  <2>3. n \in Nat /\ f \in Nat /\ 1 <= f
    BY DEF ReplicaConstants
  <2> HIDE DEF none
  <2>4. obj \in PlacingRecord /\ obj.placed = none /\ obj.n = n /\ obj.factor = f
    BY <2>1, <2>2, <2>3 DEF PlacingRecord
  <2>5. 1 .. Len(obj.placed) = {}
    BY <2>1, <2>4
  <2>6. Placing
    BY <2>2, <2>3, <2>4, <2>5, Zenon DEF Placing
  <2> QED BY <2>6 DEF ReplicaInv
<1> QED BY <1>1, <1>2, <1>3, <1>4 DEF Replicas!Init

\* The action of a class is taken by an object of that class.
LEMMA ReplicaClasses ==
  /\ Replicas!MoveNext => obj.class = "move"
  /\ Replicas!FlapTick \/ Replicas!Transition => obj.class = "flap"
  /\ Replicas!PlaceNext => obj.class = "placing"
  /\ \A s \in SUBSET (1 .. MaxVoters) : Replicas!ChangeTo(s) => obj.class = "voters"
<1>1. Replicas!MoveNext => obj.class = "move"
  BY Zenon DEF Replicas!MoveNext, Replicas!MoveAppend, Replicas!MoveTick, Replicas!StartMove,
     Replicas!Advance, Replicas!Complete, Replicas!Cancel, Replicas!Follow, Replicas!Lead,
     Replicas!ReadFrom
<1>2. /\ Replicas!FlapTick \/ Replicas!Transition => obj.class = "flap"
      /\ Replicas!PlaceNext => obj.class = "placing"
      /\ \A s \in SUBSET (1 .. MaxVoters) : Replicas!ChangeTo(s) => obj.class = "voters"
  BY Zenon DEF Replicas!FlapTick, Replicas!Transition, Replicas!PlaceNext, Replicas!ChangeTo
<1> QED BY <1>1, <1>2

\* The class of an object that satisfies the invariant.
LEMMA ReplicaKinds ==
  /\ Moving(obj) => obj.class = "move"
  /\ Flap => obj.class = "flap"
  /\ Voters => obj.class = "voters"
  /\ Placing => obj.class = "placing"
BY DEF Moving, MoveRecord, Flap, FlapRecord, Voters, VotersRecord, Placing, PlacingRecord

\* A step is one of the object's own.
LEMMA ReplicaSteps ==
  ASSUME ReplicaConstants, ReplicaInv, [Replicas!Next]_obj
  PROVE  ReplicaInv'
<1>1. CASE UNCHANGED obj
  <2>1. Moving(obj) => Moving(obj')
    BY <1>1
  <2>2. Flap => Flap'
    BY <1>1 DEF Flap
  <2>3. Voters => Voters'
    BY <1>1 DEF Voters
  <2>4. Placing => Placing'
    BY <1>1 DEF Placing
  <2> QED BY <2>1, <2>2, <2>3, <2>4 DEF ReplicaInv
<1>2. CASE Replicas!Next
  <2>1. \/ Moving(obj) /\ Replicas!MoveNext
        \/ Flap /\ (Replicas!FlapTick \/ Replicas!Transition)
        \/ Placing /\ Replicas!PlaceNext
        \/ \E s \in SUBSET (1 .. MaxVoters) : Voters /\ Replicas!ChangeTo(s)
    BY <1>2, ReplicaClasses, ReplicaKinds DEF Replicas!Next, ReplicaInv
  <2>2. Moving(obj) /\ Replicas!MoveNext => Moving(obj')
    BY MoveStep
  <2>3. Flap /\ (Replicas!FlapTick \/ Replicas!Transition) => Flap'
    BY FlapTickStep, TransitionStep
  <2>4. Placing /\ Replicas!PlaceNext => Placing'
    BY PlaceNextStep
  <2>5. \A s \in SUBSET (1 .. MaxVoters) : Voters /\ Replicas!ChangeTo(s) => Voters'
    BY VotersStep
  <2> QED BY <2>1, <2>2, <2>3, <2>4, <2>5 DEF ReplicaInv
<1> QED BY <1>1, <1>2

\* The invariant says what housekeeping promises.
LEMMA ReplicaPromises ==
  ASSUME ReplicaConstants, ReplicaInv
  PROVE  ReplicasAreSafe
<1> USE DEF ReplicasAreSafe, Replicas!ReplicasAreSafe
<1>1. CASE Moving(obj)
  BY <1>1, MovePromise, ReplicaKinds
     DEF Replicas!FlappingIsDamped, Replicas!QuorumsMeet, Replicas!PlacementIsEven
<1>2. CASE Flap
  BY <1>2, FlapPromise, ReplicaKinds
     DEF Replicas!MovesKeepCommitted, Replicas!QuorumsMeet, Replicas!PlacementIsEven
<1>3. CASE Voters
  BY <1>3, VotersPromise, ReplicaKinds
     DEF Replicas!MovesKeepCommitted, Replicas!FlappingIsDamped, Replicas!PlacementIsEven
<1>4. CASE Placing
  BY <1>4, PlacingPromise, ReplicaKinds
     DEF Replicas!MovesKeepCommitted, Replicas!FlappingIsDamped, Replicas!QuorumsMeet
<1> QED BY <1>1, <1>2, <1>3, <1>4 DEF ReplicaInv

(***************************************************************************)
(* For any windows, limits, lags and throttles, and any number of voters,  *)
(* brokers, partitions and transitions: moving a replica, cancelling the   *)
(* move and electing in between cost no committed record; a flapping       *)
(* replica changes sides at most once more than its threshold in any       *)
(* window; quorums around a change of one voter meet; and placement is     *)
(* even, exactly so after every full turn.                                 *)
(***************************************************************************)
THEOREM ReplicasStaySafe ==
  ASSUME ReplicaConstants
  PROVE  Replicas!Init /\ [][Replicas!Next]_obj => []ReplicasAreSafe
<1>1. Replicas!Init => ReplicaInv
  BY ReplicaStarts
<1>2. ReplicaInv /\ [Replicas!Next]_obj => ReplicaInv'
  BY ReplicaSteps
<1>3. ReplicaInv => ReplicasAreSafe
  BY ReplicaPromises
<1> QED BY <1>1, <1>2, <1>3, PTL

----------------------------------------------------------------------------
(***************************************************************************)
(* Replicated types and clocks, for any finite set of nodes.               *)
(***************************************************************************)
TypeConstants ==
  IsFiniteSet(Nodes) /\ Nodes \subseteq Nat /\ MaxOps \in Nat /\ MaxEvents \in Nat /\ MaxWall \in Nat

\* The increments a replica reflects whose entries are e: of each node in s
\* the first e[m].
Tokens(s, e) == {t \in s \X Nat : 1 <= t[2] /\ t[2] <= e[t[1]]}

\* The increments of one node.
LEMMA TokensOfOne ==
  ASSUME NEW x, NEW e, e[x] \in Nat
  PROVE  IsFiniteSet(Tokens({x}, e)) /\ Cardinality(Tokens({x}, e)) = e[x]
<1> DEFINE k == e[x]
           A == Tokens({x}, e)
           f == [i \in 1 .. k |-> <<x, i>>]
<1>1. \A i \in 1 .. k : <<x, i>> \in A
  BY DEF Tokens
<1>2. \A t \in A : \E i \in 1 .. k : <<x, i>> = t
  <2> SUFFICES ASSUME NEW t \in A PROVE \E i \in 1 .. k : <<x, i>> = t
    OBVIOUS
  <2>1. t \in {x} \X Nat /\ 1 <= t[2] /\ t[2] <= e[t[1]]
    BY DEF Tokens
  <2>2. t = <<x, t[2]>> /\ t[1] = x /\ t[2] \in Nat
    BY <2>1
  <2>3. t[2] \in 1 .. k
    BY <2>1, <2>2
  <2> QED BY <2>2, <2>3
<1> HIDE DEF A
<1>3. f \in [1 .. k -> A] /\ \A i \in 1 .. k : f[i] = <<x, i>>
  BY <1>1
<1> HIDE DEF f
<1>4. \A i, j \in 1 .. k : f[i] = f[j] => i = j
  BY <1>3
<1>5. \A t \in A : \E i \in 1 .. k : f[i] = t
  BY <1>2, <1>3
<1>6. f \in Bijection(1 .. k, A)
  BY <1>3, <1>4, <1>5, Fun_IsBij, Zenon
<1>7. ExistsBijection(1 .. k, A) /\ k \in Nat
  BY <1>6, Fun_ExistsBij
<1>8. Cardinality(A) = k /\ IsFiniteSet(A)
  <2>1. IsFiniteSet(1 .. k)
    BY <1>7, FS_Interval
  <2> QED BY <1>7, <2>1, FS_CountingElements, FS_Bijection
<1> QED BY <1>8 DEF A

\* The increments of one node more.
LEMMA TokensGrow ==
  ASSUME NEW s, NEW e, NEW x \in s, e[x] \in Nat, IsFiniteSet(Tokens(s \ {x}, e))
  PROVE  /\ IsFiniteSet(Tokens(s, e))
         /\ Cardinality(Tokens(s, e)) = Cardinality(Tokens(s \ {x}, e)) + e[x]
<1> DEFINE A == Tokens(s \ {x}, e)
           B == Tokens({x}, e)
<1>1. Tokens(s, e) = A \cup B
  BY DEF Tokens
<1>2. A \cap B = {}
  BY DEF Tokens
<1>3. IsFiniteSet(B) /\ Cardinality(B) = e[x]
  BY TokensOfOne
<1> HIDE DEF A, B
<1>4. IsFiniteSet(A) /\ Cardinality(A) \in Nat
  BY FS_CardinalityType DEF A
<1>5. /\ IsFiniteSet(A \cup B)
      /\ Cardinality(A \cup B) = Cardinality(A) + Cardinality(B) - Cardinality(A \cap B)
  BY <1>3, <1>4, FS_Union
<1>6. Cardinality(A \cap B) = 0
  BY <1>2, FS_EmptySet
<1>7. Cardinality(A \cup B) = Cardinality(A) + e[x]
  BY <1>3, <1>4, <1>5, <1>6
<1> QED BY <1>1, <1>5, <1>7 DEF A

\* There are finitely many of them.
LEMMA TokensAreFinite ==
  ASSUME NEW S, IsFiniteSet(S), NEW e \in [S -> Nat], NEW s \in SUBSET S
  PROVE  IsFiniteSet(Tokens(s, e))
<1> DEFINE Bad == {u \in SUBSET S : ~ IsFiniteSet(Tokens(u, e))}
           Sizes == {k \in Nat : \E u \in Bad : Cardinality(u) = k}
<1>1. \A u \in SUBSET S : IsFiniteSet(u) /\ Cardinality(u) \in Nat
  BY FS_Subset, FS_CardinalityType
<1> SUFFICES ASSUME Bad # {} PROVE FALSE
  OBVIOUS
<1>2. Sizes \in SUBSET Nat /\ Sizes # {}
  BY <1>1
<1>3. PICK k \in Sizes : \A y \in Sizes : k <= y
  BY <1>2, LeastNatural
<1>4. PICK u \in Bad : Cardinality(u) = k
  BY <1>3
<1>5. u # {}
  <2>1. Tokens({}, e) = {}
    BY DEF Tokens
  <2>2. IsFiniteSet(Tokens({}, e))
    BY <2>1, FS_EmptySet
  <2> QED BY <1>4, <2>2
<1>6. PICK x \in u : TRUE
  BY <1>5
<1>7. Cardinality(u \ {x}) = k - 1 /\ u \ {x} \in SUBSET S
  <2>1. IsFiniteSet(u)
    BY <1>1, <1>4
  <2> QED BY <1>4, <1>6, <2>1, FS_RemoveElement
<1>8. u \ {x} \notin Bad
  <2>1. Cardinality(u \ {x}) \in Nat /\ k \in Nat
    BY <1>1, <1>3, <1>7
  <2> QED BY <1>3, <1>7, <2>1
<1>9. IsFiniteSet(Tokens(u \ {x}, e)) /\ e[x] \in Nat
  BY <1>4, <1>6, <1>7, <1>8
<1>10. IsFiniteSet(Tokens(u, e))
  BY <1>6, <1>9, TokensGrow
<1> QED BY <1>4, <1>10

\* The value of a counter is the number of increments it reflects.
LEMMA ValueIsCount ==
  ASSUME IsFiniteSet(Nodes), NEW r, r.entries \in [Nodes -> Nat]
  PROVE  Types!Value(r) = Cardinality(Tokens(Nodes, r.entries))
<1> DEFINE e == r.entries
           One(s) == CHOOSE x \in s : TRUE
           Is(f) == f = [s \in SUBSET Nodes |->
                           IF s = {} THEN 0 ELSE f[s \ {CHOOSE x \in s : TRUE}] + e[CHOOSE x \in s : TRUE]]
           g == [s \in SUBSET Nodes |-> Cardinality(Tokens(s, e))]
           iter == CHOOSE f : Is(f)
<1>1. Types!Value(r) = iter[Nodes]
  BY Zenon DEF Types!Value, Types!FoldSet, Types!MapThenFoldSet
<1>2. ASSUME NEW s \in SUBSET Nodes
      PROVE  /\ g[s] \in Nat
             /\ s = {} => g[s] = 0
             /\ s # {} => /\ One(s) \in s /\ s \ {One(s)} \in SUBSET Nodes
                          /\ g[s] = g[s \ {One(s)}] + e[One(s)]
  <2>1. IsFiniteSet(Tokens(s, e)) /\ g[s] \in Nat
    BY TokensAreFinite, FS_CardinalityType
  <2>2. ASSUME s = {} PROVE g[s] = 0
    <3>1. Tokens({}, e) = {}
      BY DEF Tokens
    <3> QED BY <2>2, <3>1, FS_EmptySet
  <2>3. ASSUME s # {} PROVE One(s) \in s /\ s \ {One(s)} \in SUBSET Nodes
    BY <2>3
  <2>4. ASSUME s # {} PROVE g[s] = g[s \ {One(s)}] + e[One(s)]
    <3> DEFINE x == One(s)
    <3>1. x \in s /\ s \ {x} \in SUBSET Nodes
      BY <2>3, <2>4
    <3> HIDE DEF x
    <3>2. e[x] \in Nat /\ IsFiniteSet(Tokens(s \ {x}, e))
      BY <3>1, TokensAreFinite
    <3>3. Cardinality(Tokens(s, e)) = Cardinality(Tokens(s \ {x}, e)) + e[x]
      BY <3>1, <3>2, TokensGrow
    <3>4. g[s] = g[s \ {x}] + e[x]
      BY <3>1, <3>3
    <3> QED BY <3>4 DEF x
  <2> QED BY <2>1, <2>2, <2>3, <2>4
<1>3. Is(g)
  <2>1. g = [s \in SUBSET Nodes |-> g[s]]
    OBVIOUS
  <2> HIDE DEF g
  <2> QED BY <1>2, <2>1
<1>4. Is(iter)
  <2> HIDE DEF g
  <2>1. \E f : Is(f)
    BY <1>3
  <2> HIDE DEF Is
  <2> QED BY <2>1
<1> HIDE DEF iter, g
<1>5. \A s \in SUBSET Nodes : iter[s] = IF s = {} THEN 0 ELSE iter[s \ {One(s)}] + e[One(s)]
  BY <1>4
<1> DEFINE Bad == {s \in SUBSET Nodes : iter[s] # g[s]}
           Sizes == {k \in Nat : \E u \in Bad : Cardinality(u) = k}
<1>6. \A u \in SUBSET Nodes : IsFiniteSet(u) /\ Cardinality(u) \in Nat
  BY FS_Subset, FS_CardinalityType
<1>7. Bad = {}
  <2> SUFFICES ASSUME Bad # {} PROVE FALSE
    OBVIOUS
  <2>1. Sizes \in SUBSET Nat /\ Sizes # {}
    BY <1>6
  <2>2. PICK k \in Sizes : \A y \in Sizes : k <= y
    BY <2>1, LeastNatural
  <2>3. PICK u \in Bad : Cardinality(u) = k
    BY <2>2
  <2>4. u # {}
    BY <1>2, <1>5, <2>3
  <2>5. PICK x : x = One(u)
    OBVIOUS
  <2> HIDE DEF One
  <2>6. x \in u /\ u \ {x} \in SUBSET Nodes /\ g[u] = g[u \ {x}] + e[x]
    BY <1>2, <2>3, <2>4, <2>5
  <2>7. iter[u] = iter[u \ {x}] + e[x]
    BY <1>5, <2>3, <2>4, <2>5
  <2>8. Cardinality(u \ {x}) = k - 1 /\ Cardinality(u \ {x}) \in Nat /\ k \in Nat
    <3>1. IsFiniteSet(u)
      BY <1>6, <2>3
    <3> QED BY <1>6, <2>1, <2>3, <2>6, <3>1, FS_RemoveElement
  <2>9. u \ {x} \notin Bad
    BY <2>2, <2>6, <2>8
  <2>10. iter[u \ {x}] = g[u \ {x}]
    BY <2>6, <2>9
  <2> QED BY <2>3, <2>6, <2>7, <2>10
<1>8. iter[Nodes] = g[Nodes]
  BY <1>7
<1> QED BY <1>1, <1>8 DEF g

----------------------------------------------------------------------------
\* A replica of the counter, with the increments it reflects.
CounterReplica == [entries : [Nodes -> Nat], seen : SUBSET (Nodes \X Nat)]

\* The counter at every replica, with a state under way.
CounterRecord ==
  [class : {"counter"}, at : [Nodes -> CounterReplica], mail : CounterReplica, made : Nat]

\* Every state, at a replica or under way, says which increments it reflects.
Counter ==
  /\ obj \in CounterRecord
  /\ \A n \in Nodes : obj.at[n].seen = Tokens(Nodes, obj.at[n].entries)
  /\ obj.mail.seen = Tokens(Nodes, obj.mail.entries)

\* A new state for one replica, in agreement with itself.
LEMMA CounterReplaced ==
  ASSUME Counter, NEW n \in Nodes, NEW r \in CounterReplica, r.seen = Tokens(Nodes, r.entries),
         obj' \in CounterRecord, obj'.mail = obj.mail,
         \A m \in Nodes : obj'.at[m] = IF m = n THEN r ELSE obj.at[m]
  PROVE  Counter'
BY DEF Counter

\* An increment, of one or two.
LEMMA IncrementStep ==
  ASSUME TypeConstants, Counter, NEW n \in Nodes, NEW amount \in 1 .. 2, Types!Increment(n, amount)
  PROVE  Counter'
<1> DEFINE r == obj.at[n]
           mine == r.entries[n]
           new == [r.entries EXCEPT ![n] = mine + amount]
           more == {<<n, i>> : i \in (mine + 1) .. (mine + amount)}
           next == [entries |-> new, seen |-> r.seen \cup more]
<1>0. /\ obj \in CounterRecord /\ r \in CounterReplica /\ r.entries \in [Nodes -> Nat]
      /\ r.seen \subseteq Nodes \X Nat /\ obj.made \in Nat /\ mine \in Nat
      /\ r.seen = Tokens(Nodes, r.entries)
  BY DEF Counter, CounterRecord, CounterReplica
<1> DEFINE at == [obj.at EXCEPT ![n] = next]
           made == obj.made + amount
<1>1. obj' = [obj EXCEPT !.at = at, !.made = made]
  <2> DEFINE one == [obj.at EXCEPT ![n].entries[n] = @ + amount]
             two == [one EXCEPT ![n].seen = @ \cup more]
  <2>1. obj.at \in [Nodes -> CounterReplica] /\ r = [entries |-> r.entries, seen |-> r.seen]
    BY <1>0 DEF CounterRecord, CounterReplica
  <2>2. one = [obj.at EXCEPT ![n] = [entries |-> new, seen |-> r.seen]]
    BY <2>1
  <2>3. obj' = [obj EXCEPT !.at = two, !.made = made]
    BY <1>0, ZenonT(30) DEF Types!Increment
  <2>4. two = at
    <3> HIDE DEF one, new, more
    <3>1. one[n] = [entries |-> new, seen |-> r.seen] /\ n \in DOMAIN one
      BY <2>1, <2>2
    <3> DEFINE q == one[n]
    <3>3. q = [entries |-> new, seen |-> r.seen]
      BY <3>1
    <3>4. two = [one EXCEPT ![n] = [q EXCEPT !.seen = q.seen \cup more]]
      OBVIOUS
    <3> HIDE DEF q
    <3>5. [q EXCEPT !.seen = q.seen \cup more] = [entries |-> new, seen |-> r.seen \cup more]
      BY <3>3
    <3>2. two = [one EXCEPT ![n] = [entries |-> new, seen |-> r.seen \cup more]]
      BY <3>4, <3>5
    <3> QED BY <2>1, <2>2, <3>2
  <2> QED BY <2>3, <2>4
<1>2. new \in [Nodes -> Nat] /\ \A m \in Nodes : new[m] = IF m = n THEN mine + amount ELSE r.entries[m]
  BY <1>0
<1>3. more \subseteq Nodes \X Nat
  BY <1>0
<1>4. r.seen \cup more = Tokens(Nodes, new)
  <2>1. ASSUME NEW t \in Nodes \X Nat PROVE t \in r.seen \cup more <=> t \in Tokens(Nodes, new)
    <3>1. t = <<t[1], t[2]>> /\ t[1] \in Nodes /\ t[2] \in Nat
      OBVIOUS
    <3>2. t \in more <=> t[1] = n /\ t[2] \in (mine + 1) .. (mine + amount)
      BY <3>1
    <3> HIDE DEF new, more, mine
    <3>3. CASE t[1] = n
      BY <1>0, <1>2, <3>1, <3>2, <3>3 DEF Tokens, mine
    <3>4. CASE t[1] # n
      BY <1>0, <1>2, <3>1, <3>2, <3>4 DEF Tokens
    <3> QED BY <3>3, <3>4
  <2>2. Tokens(Nodes, new) \subseteq Nodes \X Nat
    BY DEF Tokens
  <2> QED BY <1>0, <1>3, <2>1, <2>2
<1>5. next \in CounterReplica /\ next.entries = new /\ next.seen = r.seen \cup more
  <2> HIDE DEF new, more
  <2> QED BY <1>0, <1>2, <1>3 DEF CounterReplica
<1> HIDE DEF next
<1>6. /\ made \in Nat /\ at \in [Nodes -> CounterReplica]
      /\ \A m \in Nodes : at[m] = IF m = n THEN next ELSE obj.at[m]
  BY <1>0, <1>5 DEF CounterRecord
<1> HIDE DEF made, at
<1>7. obj' \in CounterRecord /\ obj'.at = at /\ obj'.mail = obj.mail
  BY <1>0, <1>1, <1>6 DEF CounterRecord
<1> QED BY <1>4, <1>5, <1>6, <1>7, CounterReplaced

\* The greatest as the instance writes it.
LEMMA TypesGreater ==
  ASSUME NEW a \in Nat, NEW b \in Nat
  PROVE  Types!Max({a, b}) = IF a <= b THEN b ELSE a
<1>1. Types!Max({a, b}) = Max({a, b})
  BY DEF Max, Types!Max
<1>2. \A y \in {a, b} : y <= a + b
  OBVIOUS
<1>3. Max({a, b}) \in {a, b} /\ \A y \in {a, b} : y <= Max({a, b})
  BY <1>2, MaxOfNaturals
<1> QED BY <1>1, <1>3

\* Merging what is in the mail.
LEMMA MergeCounterStep ==
  ASSUME Counter, NEW n \in Nodes, Types!MergeCounter(n)
  PROVE  Counter'
<1> DEFINE r == obj.at[n]
           mail == obj.mail
           new == Types!Merged(r.entries, mail.entries)
           next == [entries |-> new, seen |-> r.seen \cup mail.seen]
<1>0. /\ obj \in CounterRecord /\ r \in CounterReplica /\ mail \in CounterReplica
      /\ r.entries \in [Nodes -> Nat] /\ mail.entries \in [Nodes -> Nat] /\ obj.made \in Nat
      /\ r.seen \subseteq Nodes \X Nat /\ mail.seen \subseteq Nodes \X Nat
      /\ r.seen = Tokens(Nodes, r.entries) /\ mail.seen = Tokens(Nodes, mail.entries)
  BY DEF Counter, CounterRecord, CounterReplica
<1> DEFINE at == [obj.at EXCEPT ![n] = next]
<1>1. obj' = [obj EXCEPT !.at = at]
  BY <1>0 DEF Types!MergeCounter
<1>2. new \in [Nodes -> Nat] /\ \A m \in Nodes :
        new[m] = IF r.entries[m] <= mail.entries[m] THEN mail.entries[m] ELSE r.entries[m]
  BY <1>0, TypesGreater DEF Types!Merged
<1> HIDE DEF new
<1>3. r.seen \cup mail.seen = Tokens(Nodes, new)
  <2>1. ASSUME NEW t \in Nodes \X Nat
        PROVE  t \in r.seen \cup mail.seen <=> t \in Tokens(Nodes, new)
    <3>1. t[1] \in Nodes /\ t[2] \in Nat
      OBVIOUS
    <3>2. r.entries[t[1]] \in Nat /\ mail.entries[t[1]] \in Nat
      BY <1>0, <3>1
    <3> QED BY <1>0, <1>2, <3>1, <3>2 DEF Tokens
  <2>2. Tokens(Nodes, new) \subseteq Nodes \X Nat
    BY DEF Tokens
  <2> QED BY <1>0, <2>1, <2>2
<1>4. next \in CounterReplica /\ next.entries = new /\ next.seen = r.seen \cup mail.seen
  BY <1>0, <1>2 DEF CounterReplica
<1> HIDE DEF next
<1>5. /\ at \in [Nodes -> CounterReplica]
      /\ \A m \in Nodes : at[m] = IF m = n THEN next ELSE obj.at[m]
  BY <1>0, <1>4 DEF CounterRecord
<1> HIDE DEF at
<1>6. obj' \in CounterRecord /\ obj'.at = at /\ obj'.mail = obj.mail
  BY <1>0, <1>1, <1>5 DEF CounterRecord
<1> QED BY <1>3, <1>4, <1>5, <1>6, CounterReplaced

\* Posting a replica's state.
LEMMA PostCounterStep ==
  ASSUME Counter, NEW n \in Nodes, Types!Post(n)
  PROVE  Counter'
<1>0. obj \in CounterRecord /\ obj.at[n] \in CounterReplica
  BY DEF Counter, CounterRecord
<1>1. obj' = [obj EXCEPT !.mail = obj.at[n]]
  BY DEF Types!Post
<1>2. obj' \in CounterRecord /\ obj'.at = obj.at /\ obj'.mail = obj.at[n]
  BY <1>0, <1>1 DEF CounterRecord
<1> QED BY <1>2 DEF Counter

\* Replicas that reflect the same increments have the same entries.
LEMMA SameTokens ==
  ASSUME NEW a \in [Nodes -> Nat], NEW b \in [Nodes -> Nat], Tokens(Nodes, a) = Tokens(Nodes, b)
  PROVE  a = b
<1> SUFFICES ASSUME NEW m \in Nodes PROVE a[m] = b[m]
  OBVIOUS
<1>1. \A i \in Nat : 1 <= i => (i <= a[m] <=> i <= b[m])
  <2> SUFFICES ASSUME NEW i \in Nat, 1 <= i PROVE i <= a[m] <=> i <= b[m]
    OBVIOUS
  <2>1. <<m, i>> \in Tokens(Nodes, a) <=> i <= a[m]
    BY DEF Tokens
  <2>2. <<m, i>> \in Tokens(Nodes, b) <=> i <= b[m]
    BY DEF Tokens
  <2> QED BY <2>1, <2>2
<1>2. a[m] \in Nat /\ b[m] \in Nat
  OBVIOUS
<1> QED BY <1>1, <1>2

\* The number of elements as the instance writes it.
LEMMA TypesCount == ASSUME NEW S PROVE Types!Cardinality(S) = Cardinality(S)
BY Zenon DEF Cardinality, Types!Cardinality

\* What the invariant says of the counter.
LEMMA CounterPromise ==
  ASSUME TypeConstants, Counter
  PROVE  Types!ReplicasConverge
<1>0. /\ obj \in CounterRecord /\ obj.class = "counter"
      /\ \A n \in Nodes : /\ obj.at[n] \in CounterReplica /\ obj.at[n].entries \in [Nodes -> Nat]
                          /\ obj.at[n].seen = Tokens(Nodes, obj.at[n].entries)
                          /\ obj.at[n] = [entries |-> obj.at[n].entries, seen |-> obj.at[n].seen]
  BY DEF Counter, CounterRecord, CounterReplica
<1>1. ASSUME NEW n \in Nodes, NEW m \in Nodes, obj.at[n].seen = obj.at[m].seen
      PROVE  obj.at[n] = obj.at[m]
  <2> DEFINE a == obj.at[n].entries
             b == obj.at[m].entries
  <2>1. a \in [Nodes -> Nat] /\ b \in [Nodes -> Nat] /\ Tokens(Nodes, a) = Tokens(Nodes, b)
    BY <1>0, <1>1
  <2> HIDE DEF a, b
  <2>2. a = b
    BY <2>1, SameTokens
  <2> QED BY <1>0, <1>1, <2>2 DEF a, b
<1>2. ASSUME NEW n \in Nodes PROVE Types!Value(obj.at[n]) = Types!Cardinality(obj.at[n].seen)
  <2>1. Types!Value(obj.at[n]) = Cardinality(Tokens(Nodes, obj.at[n].entries))
    BY <1>0, ValueIsCount DEF TypeConstants
  <2> QED BY <1>0, <2>1, TypesCount
<1> QED BY <1>0, <1>1, <1>2 DEF Types!ReplicasConverge

----------------------------------------------------------------------------
\* A write of the register.
Written == [value : Nat, ts : Nat, node : Nat]

\* The register before any write.
NoWrite == [value |-> 0, ts |-> 0, node |-> 0]

\* A replica of the register, with the writes it reflects.
RegisterReplica == [reg : Written, seen : SUBSET Written]

\* The register at every replica, with a state under way.
RegisterRecord ==
  [class : {"register"}, at : [Nodes -> RegisterReplica], mail : RegisterReplica, made : Nat,
   tied : BOOLEAN]

\* A state of the register has one of the writes it reflects, none with a newer
\* stamp.
HasNewest(r) ==
  /\ \A w \in r.seen : w.node \in Nodes /\ w.ts >= 1 /\ w.ts <= r.reg.ts
  /\ r.reg \in r.seen \/ (r.seen = {} /\ r.reg = NoWrite)

\* None of the writes outranks the register, here or at its writer.
Outranks(r, at) ==
  \A w \in r.seen : ~ Types!Later(w, r.reg) /\ ~ Types!Later(w, at[w.node].reg)

\* No two writes that two states reflect have the same stamp.
Distinct(r, q) ==
  \A w \in r.seen, v \in q.seen : w.ts = v.ts /\ w.node = v.node => w = v

\* The states that are about, at replicas and under way.
StatesOf(o) == {o.mail} \cup {o.at[n] : n \in Nodes}

\* Every state has a write with the newest stamp; and until a write ties it is the
\* latest, and stamps tell writes apart.
Register ==
  /\ obj \in RegisterRecord
  /\ \A r \in StatesOf(obj) : HasNewest(r)
  /\ ~ obj.tied => /\ \A r \in StatesOf(obj) : Outranks(r, obj.at)
                   /\ \A r, q \in StatesOf(obj) : Distinct(r, q)

\* The fields of the register.
LEMMA RegisterFields ==
  ASSUME obj \in RegisterRecord
  PROVE  /\ obj.class = "register" /\ obj.at \in [Nodes -> RegisterReplica]
         /\ obj.mail \in RegisterReplica /\ obj.made \in Nat /\ obj.tied \in BOOLEAN
         /\ StatesOf(obj) \subseteq RegisterReplica
         /\ obj.mail \in StatesOf(obj) /\ \A n \in Nodes : obj.at[n] \in StatesOf(obj)
BY DEF RegisterRecord, StatesOf

\* The fields of a state, and of a write.
LEMMA RegisterReplicaFields ==
  ASSUME NEW r \in RegisterReplica
  PROVE  /\ r.reg \in Written /\ r.seen \subseteq Written
         /\ \A w \in r.seen \cup {r.reg} : w.ts \in Nat /\ w.node \in Nat /\ w.value \in Nat
BY DEF RegisterReplica, Written

\* Of three stamps the order is transitive.
LEMMA LaterIsTransitive ==
  ASSUME NEW v \in Written, NEW a \in Written, NEW b \in Written,
         ~ Types!Later(v, a), Types!Later(b, a)
  PROVE  ~ Types!Later(v, b)
<1>1. /\ v.ts \in Nat /\ a.ts \in Nat /\ b.ts \in Nat
      /\ v.node \in Nat /\ a.node \in Nat /\ b.node \in Nat
  BY DEF Written
<1> QED BY <1>1 DEF Types!Later

\* Of two stamps one is not later.
LEMMA NotBothLater ==
  ASSUME NEW v \in Written, NEW a \in Written, NEW b \in Written,
         ~ Types!Later(v, b), ~ Types!Later(b, a)
  PROVE  ~ Types!Later(v, a)
<1>1. /\ v.ts \in Nat /\ a.ts \in Nat /\ b.ts \in Nat
      /\ v.node \in Nat /\ a.node \in Nat /\ b.node \in Nat
  BY DEF Written
<1> QED BY <1>1 DEF Types!Later

\* A new state beside the ones there were: newest, and as long as no write has
\* tied, latest and distinct, and no replica's register has gone back.
LEMMA RegisterReplaced ==
  ASSUME Register, NEW r \in RegisterReplica, obj' \in RegisterRecord,
         StatesOf(obj') \subseteq StatesOf(obj) \cup {r}, HasNewest(r), obj.tied => obj'.tied,
         ~ obj'.tied => /\ \A n \in Nodes : ~ Types!Later(obj.at[n].reg, obj'.at[n].reg)
                        /\ Outranks(r, obj'.at) /\ Distinct(r, r)
                        /\ \A q \in StatesOf(obj) : Distinct(r, q)
  PROVE  Register'
<1>0. /\ StatesOf(obj) \subseteq RegisterReplica /\ obj.at \in [Nodes -> RegisterReplica]
      /\ obj'.at \in [Nodes -> RegisterReplica]
  <2>1. StatesOf(obj) \subseteq RegisterReplica /\ obj.at \in [Nodes -> RegisterReplica]
    BY RegisterFields DEF Register
  <2>2. obj'.at \in [Nodes -> RegisterReplica]
    BY DEF RegisterRecord
  <2> QED BY <2>1, <2>2
<1>1. ASSUME ~ obj'.tied, NEW q \in StatesOf(obj) PROVE Outranks(q, obj'.at)
  <2>1. Outranks(q, obj.at) /\ HasNewest(q) /\ q \in RegisterReplica
    BY <1>0, <1>1 DEF Register
  <2>2. ASSUME NEW w \in q.seen PROVE ~ Types!Later(w, obj'.at[w.node].reg)
    <3>1. /\ ~ Types!Later(w, obj.at[w.node].reg) /\ w.node \in Nodes /\ w \in Written
      BY <2>1, RegisterReplicaFields DEF Outranks, HasNewest
    <3>2. /\ obj.at[w.node].reg \in Written /\ obj'.at[w.node].reg \in Written
          /\ ~ Types!Later(obj.at[w.node].reg, obj'.at[w.node].reg)
      BY <1>0, <1>1, <3>1, RegisterReplicaFields
    <3> QED BY <3>1, <3>2, NotBothLater
  <2> QED BY <2>1, <2>2 DEF Outranks
<1>2. ASSUME ~ obj'.tied PROVE \A q, p \in StatesOf(obj) \cup {r} : Distinct(q, p)
  <2>1. \A q \in StatesOf(obj) : Distinct(q, r)
    BY <1>2 DEF Distinct
  <2>2. \A q, p \in StatesOf(obj) : Distinct(q, p)
    BY <1>2 DEF Register
  <2> QED BY <1>2, <2>1, <2>2
<1>3. \A q \in StatesOf(obj') : HasNewest(q)
  BY DEF Register
<1>4. ~ obj'.tied => \A q \in StatesOf(obj') : Outranks(q, obj'.at)
  BY <1>1
<1>5. ~ obj'.tied => \A q, p \in StatesOf(obj') : Distinct(q, p)
  BY <1>2
<1> QED BY <1>3, <1>4, <1>5 DEF Register

\* A write.
LEMMA WriteRegisterStep ==
  ASSUME TypeConstants, Register, NEW n \in Nodes, NEW ts \in 1 .. MaxOps, Types!WriteRegister(n, ts)
  PROVE  Register'
<1> DEFINE r == obj.at[n]
           w == [value |-> obj.made + 1, ts |-> ts, node |-> n]
           next == [reg |-> w, seen |-> r.seen \cup {w}]
           at == [obj.at EXCEPT ![n] = next]
           made == obj.made + 1
           tied == obj.tied \/ ~ Types!Later(w, r.reg)
<1>0. /\ obj \in RegisterRecord /\ r \in StatesOf(obj) /\ r \in RegisterReplica /\ n \in Nat
      /\ ts \in Nat /\ ts >= 1 /\ obj.at \in [Nodes -> RegisterReplica] /\ obj.made \in Nat
      /\ obj.tied \in BOOLEAN /\ StatesOf(obj) \subseteq RegisterReplica
  <2>1. obj \in RegisterRecord
    BY DEF Register
  <2>2. n \in Nat /\ ts \in Nat /\ ts >= 1
    BY DEF TypeConstants
  <2>3. obj.tied \in BOOLEAN
    BY <2>1, RegisterFields, Zenon
  <2> QED BY <2>1, <2>2, <2>3, RegisterFields
<1>1. obj' = [obj EXCEPT !.at = at, !.made = made, !.tied = tied] /\ ts >= r.reg.ts
  BY DEF Types!WriteRegister
<1>2. w \in Written /\ w.ts = ts /\ w.node = n
  BY <1>0 DEF Written
<1> HIDE DEF w
<1>3. next \in RegisterReplica /\ next.reg = w /\ next.seen = r.seen \cup {w}
  BY <1>0, <1>2 DEF RegisterReplica
<1> HIDE DEF next
<1>4. /\ at \in [Nodes -> RegisterReplica] /\ made \in Nat
      /\ \A m \in Nodes : at[m] = IF m = n THEN next ELSE obj.at[m]
  BY <1>0, <1>3
<1>t. tied \in BOOLEAN
  BY <1>0
<1>u. tied = (obj.tied \/ ~ Types!Later(w, r.reg))
  OBVIOUS
<1> HIDE DEF at, made, tied
<1>5. obj' \in RegisterRecord /\ obj'.at = at /\ obj'.mail = obj.mail /\ obj'.tied = tied
  BY <1>0, <1>1, <1>4, <1>t DEF RegisterRecord
<1>6. StatesOf(obj') \subseteq StatesOf(obj) \cup {next}
  BY <1>4, <1>5 DEF StatesOf
<1>7. /\ r.reg \in Written /\ r.reg.ts \in Nat /\ r.reg.node \in Nat /\ HasNewest(r)
      /\ \A q \in StatesOf(obj) : \A v \in q.seen :
           v \in Written /\ v.ts \in Nat /\ v.node \in Nat /\ v.node \in Nodes
  BY <1>0, RegisterReplicaFields DEF Register, HasNewest
<1>8. HasNewest(next)
  <2>1. ASSUME NEW v \in r.seen PROVE v.node \in Nodes /\ v.ts >= 1 /\ v.ts <= w.ts
    <3>1. v.node \in Nodes /\ v.ts >= 1 /\ v.ts <= r.reg.ts /\ v.ts \in Nat
      BY <1>0, <1>7 DEF HasNewest
    <3> QED BY <1>0, <1>1, <1>2, <1>7, <3>1
  <2> QED BY <1>0, <1>2, <1>3, <2>1 DEF HasNewest
<1>9. ASSUME ~ tied
      PROVE  /\ \A m \in Nodes : ~ Types!Later(obj.at[m].reg, at[m].reg)
             /\ Outranks(next, at) /\ Distinct(next, next)
             /\ \A q \in StatesOf(obj) : Distinct(next, q)
  <2>1. /\ ~ obj.tied /\ Types!Later(w, r.reg)
        /\ \A q \in StatesOf(obj) : Outranks(q, obj.at)
        /\ \A q, p \in StatesOf(obj) : Distinct(q, p)
    BY <1>9, <1>u DEF Register
  <2>2. ASSUME NEW m \in Nodes PROVE ~ Types!Later(obj.at[m].reg, at[m].reg)
    <3>1. obj.at[m].reg.ts \in Nat /\ obj.at[m].reg.node \in Nat
      BY <1>0, RegisterReplicaFields
    <3> QED BY <1>0, <1>2, <1>3, <1>4, <1>7, <2>1, <3>1 DEF Types!Later
  <2>3. ASSUME NEW v \in r.seen PROVE ~ Types!Later(v, w) /\ ~ Types!Later(v, at[v.node].reg)
    <3>1. ~ Types!Later(v, r.reg) /\ ~ Types!Later(v, obj.at[v.node].reg) /\ v \in Written /\ v.node \in Nodes
      BY <1>0, <1>7, <2>1 DEF Outranks
    <3>2. ~ Types!Later(v, w)
      BY <1>2, <1>7, <2>1, <3>1, LaterIsTransitive
    <3> QED BY <1>3, <1>4, <3>1, <3>2
  <2>4. ~ Types!Later(w, w) /\ at[w.node].reg = w
    BY <1>0, <1>2, <1>3, <1>4 DEF Types!Later
  <2>5. Outranks(next, at)
    BY <1>3, <2>3, <2>4 DEF Outranks
  <2>6. ASSUME NEW q \in StatesOf(obj) PROVE Distinct(next, q)
    <3> SUFFICES ASSUME NEW x \in next.seen, NEW v \in q.seen, x.ts = v.ts, x.node = v.node
                 PROVE  x = v
      BY DEF Distinct
    <3>1. CASE x = w
      <4>1. ~ Types!Later(v, obj.at[v.node].reg) /\ v.node = n /\ v.ts = ts
        BY <1>2, <2>1, <3>1 DEF Outranks
      <4> QED BY <1>2, <2>1, <4>1 DEF Types!Later
    <3>2. CASE x \in r.seen
      BY <1>0, <2>1, <3>2 DEF Distinct
    <3> QED BY <1>3, <3>1, <3>2
  <2>7. Distinct(next, next)
    <3>1. Distinct(next, r)
      BY <1>0, <2>6
    <3> QED BY <1>3, <3>1 DEF Distinct
  <2> QED BY <2>2, <2>5, <2>6, <2>7
<1> QED BY <1>3, <1>5, <1>6, <1>8, <1>9, <1>u, RegisterReplaced

\* Merging what is in the mail.
LEMMA MergeRegisterStep ==
  ASSUME Register, NEW n \in Nodes, Types!MergeRegister(n)
  PROVE  Register'
<1> DEFINE r == obj.at[n]
           q == obj.mail
           reg == IF Types!Later(q.reg, r.reg) THEN q.reg ELSE r.reg
           next == [reg |-> reg, seen |-> r.seen \cup q.seen]
           at == [obj.at EXCEPT ![n] = next]
<1>0. /\ obj \in RegisterRecord /\ r \in StatesOf(obj) /\ r \in RegisterReplica
      /\ q \in StatesOf(obj) /\ q \in RegisterReplica
      /\ obj.at \in [Nodes -> RegisterReplica] /\ StatesOf(obj) \subseteq RegisterReplica
  BY RegisterFields DEF Register
<1>1. obj' = [obj EXCEPT !.at = at]
  BY DEF Types!MergeRegister
<1>2. /\ r.reg \in Written /\ q.reg \in Written /\ r.seen \subseteq Written /\ q.seen \subseteq Written
      /\ reg \in Written
  BY <1>0, RegisterReplicaFields
<1>r. reg = IF Types!Later(q.reg, r.reg) THEN q.reg ELSE r.reg
  OBVIOUS
<1> HIDE DEF reg
<1>3. next \in RegisterReplica /\ next.reg = reg /\ next.seen = r.seen \cup q.seen
  BY <1>0, <1>2 DEF RegisterReplica
<1> HIDE DEF next
<1>4. /\ at \in [Nodes -> RegisterReplica]
      /\ \A m \in Nodes : at[m] = IF m = n THEN next ELSE obj.at[m]
  BY <1>0, <1>3
<1> HIDE DEF at
<1>5. obj' \in RegisterRecord /\ obj'.at = at /\ obj'.mail = obj.mail /\ obj'.tied = obj.tied
  BY <1>0, <1>1, <1>4 DEF RegisterRecord
<1>6. StatesOf(obj') \subseteq StatesOf(obj) \cup {next}
  BY <1>4, <1>5 DEF StatesOf
<1>7. HasNewest(r) /\ HasNewest(q) /\ r.reg.ts <= reg.ts /\ q.reg.ts <= reg.ts
  <2>1. r.reg.ts \in Nat /\ q.reg.ts \in Nat
    BY <1>2 DEF Written
  <2> QED BY <1>0, <1>r, <2>1 DEF Register, Types!Later
<1>8. HasNewest(next)
  <2>1. ASSUME NEW v \in r.seen \cup q.seen
        PROVE  v.node \in Nodes /\ v.ts >= 1 /\ v.ts <= reg.ts
    <3>1. /\ v.node \in Nodes /\ v.ts >= 1 /\ (v.ts <= r.reg.ts \/ v.ts <= q.reg.ts)
          /\ v.ts \in Nat /\ r.reg.ts \in Nat /\ q.reg.ts \in Nat /\ reg.ts \in Nat
      BY <1>2, <1>7 DEF HasNewest, Written
    <3> QED BY <1>7, <3>1
  <2>2. reg \in r.seen \cup q.seen \/ (r.seen \cup q.seen = {} /\ reg = NoWrite)
    <3>1. CASE Types!Later(q.reg, r.reg)
      <4>1. q.reg # NoWrite
        <5>1. r.reg.ts \in Nat /\ r.reg.node \in Nat
          BY <1>2 DEF Written
        <5>2. NoWrite.ts = 0 /\ NoWrite.node = 0
          BY DEF NoWrite
        <5> QED BY <3>1, <5>1, <5>2 DEF Types!Later
      <4> QED BY <1>7, <1>r, <3>1, <4>1 DEF HasNewest
    <3>2. CASE ~ Types!Later(q.reg, r.reg)
      <4>1. reg = r.reg
        BY <1>r, <3>2
      <4>2. CASE r.reg \in r.seen
        BY <4>1, <4>2
      <4>3. CASE r.seen = {} /\ r.reg = NoWrite
        <5>1. q.reg \in q.seen => q.reg.ts >= 1 /\ q.reg.ts \in Nat
          BY <1>2, <1>7 DEF HasNewest, Written
        <5>2. NoWrite.ts = 0 /\ NoWrite.node = 0
          BY DEF NoWrite
        <5>3. q.reg \notin q.seen
          BY <3>2, <4>3, <5>1, <5>2 DEF Types!Later
        <5>4. q.seen = {}
          BY <1>7, <5>3 DEF HasNewest
        <5> QED BY <4>1, <4>3, <5>4
      <4> QED BY <1>7, <4>2, <4>3 DEF HasNewest
    <3> QED BY <3>1, <3>2
  <2> QED BY <1>3, <2>1, <2>2 DEF HasNewest
<1>9. ASSUME ~ obj.tied
      PROVE  /\ \A m \in Nodes : ~ Types!Later(obj.at[m].reg, at[m].reg)
             /\ Outranks(next, at) /\ Distinct(next, next)
             /\ \A p \in StatesOf(obj) : Distinct(next, p)
  <2>1. /\ Outranks(r, obj.at) /\ Outranks(q, obj.at)
        /\ \A p \in StatesOf(obj) : Distinct(r, p) /\ Distinct(q, p)
    BY <1>0, <1>9 DEF Register
  <2>2. ASSUME NEW m \in Nodes PROVE ~ Types!Later(obj.at[m].reg, at[m].reg)
    <3>1. obj.at[m].reg.ts \in Nat /\ obj.at[m].reg.node \in Nat
          /\ q.reg.ts \in Nat /\ q.reg.node \in Nat
      BY <1>0, RegisterReplicaFields
    <3> QED BY <1>3, <1>4, <1>r, <3>1 DEF Types!Later
  <2>3. ASSUME NEW v \in r.seen \cup q.seen PROVE ~ Types!Later(v, reg)
    <3>1. v \in Written
      BY <1>2
    <3>2. CASE Types!Later(q.reg, r.reg)
      <4>1. v \in r.seen => ~ Types!Later(v, q.reg)
        BY <1>2, <2>1, <3>1, <3>2, LaterIsTransitive DEF Outranks
      <4> QED BY <1>r, <2>1, <3>2, <4>1 DEF Outranks
    <3>3. CASE ~ Types!Later(q.reg, r.reg)
      <4>1. v \in q.seen => ~ Types!Later(v, r.reg)
        BY <1>2, <2>1, <3>1, <3>3, NotBothLater DEF Outranks
      <4> QED BY <1>r, <2>1, <3>3, <4>1 DEF Outranks
    <3> QED BY <3>2, <3>3
  <2>4. ASSUME NEW v \in r.seen \cup q.seen PROVE ~ Types!Later(v, at[v.node].reg)
    <3>1. v \in Written /\ v.node \in Nodes /\ ~ Types!Later(v, obj.at[v.node].reg)
      BY <1>2, <1>7, <2>1 DEF HasNewest, Outranks
    <3>2. /\ obj.at[v.node].reg \in Written /\ at[v.node].reg \in Written
          /\ ~ Types!Later(obj.at[v.node].reg, at[v.node].reg)
      BY <1>0, <1>4, <2>2, <3>1, RegisterReplicaFields
    <3> QED BY <3>1, <3>2, NotBothLater
  <2>5. Outranks(next, at)
    BY <1>3, <2>3, <2>4 DEF Outranks
  <2>6. \A p \in StatesOf(obj) : Distinct(next, p)
    BY <1>3, <2>1 DEF Distinct
  <2>7. Distinct(next, next)
    <3>1. Distinct(next, r) /\ Distinct(next, q)
      BY <1>0, <2>6
    <3> QED BY <1>3, <3>1 DEF Distinct
  <2> QED BY <2>2, <2>5, <2>6, <2>7
<1> QED BY <1>3, <1>5, <1>6, <1>8, <1>9, RegisterReplaced

\* Posting a replica's state.
LEMMA PostRegisterStep ==
  ASSUME Register, NEW n \in Nodes, Types!Post(n)
  PROVE  Register'
<1>0. obj \in RegisterRecord /\ obj.at[n] \in RegisterReplica /\ obj.at[n] \in StatesOf(obj)
  BY RegisterFields DEF Register
<1>1. obj' = [obj EXCEPT !.mail = obj.at[n]]
  BY DEF Types!Post
<1>2. obj' \in RegisterRecord /\ obj'.at = obj.at /\ obj'.mail = obj.at[n] /\ obj'.tied = obj.tied
  BY <1>0, <1>1 DEF RegisterRecord
<1>3. StatesOf(obj') \subseteq StatesOf(obj)
  BY <1>0, <1>2 DEF StatesOf
<1> QED BY <1>2, <1>3 DEF Register

\* What the invariant says of the register.
LEMMA RegisterPromise ==
  ASSUME Register
  PROVE  Types!ReplicasConverge
<1>0. /\ obj \in RegisterRecord /\ obj.class = "register"
      /\ \A n \in Nodes : /\ obj.at[n] \in RegisterReplica /\ obj.at[n] \in StatesOf(obj)
                          /\ HasNewest(obj.at[n])
  BY RegisterFields DEF Register
<1>1. ASSUME NEW n \in Nodes, NEW m \in Nodes, obj.at[n].seen = obj.at[m].seen
      PROVE  /\ obj.at[n].reg.ts = obj.at[m].reg.ts
             /\ obj.tied \/ obj.at[n] = obj.at[m]
  <2> DEFINE r == obj.at[n]
             q == obj.at[m]
  <2>1. /\ r \in RegisterReplica /\ q \in RegisterReplica /\ r.seen = q.seen
        /\ HasNewest(r) /\ HasNewest(q) /\ (~ obj.tied => Distinct(r, q) /\ Outranks(r, obj.at) /\ Outranks(q, obj.at))
    BY <1>0, <1>1 DEF Register
  <2> HIDE DEF r, q
  <2>2. /\ r.reg.ts \in Nat /\ q.reg.ts \in Nat /\ r.reg.node \in Nat /\ q.reg.node \in Nat
    BY <2>1, RegisterReplicaFields
  <2>3. r.reg.ts = q.reg.ts
    BY <2>1, <2>2 DEF HasNewest
  <2>4. ASSUME ~ obj.tied PROVE r = q
    <3>1. CASE r.reg \in r.seen /\ q.reg \in q.seen
      <4>1. ~ Types!Later(r.reg, q.reg) /\ ~ Types!Later(q.reg, r.reg)
        BY <2>1, <2>4, <3>1 DEF Outranks
      <4>2. r.reg.node = q.reg.node
        BY <2>2, <2>3, <4>1 DEF Types!Later
      <4> QED BY <2>1, <2>3, <2>4, <3>1, <4>2 DEF Distinct, RegisterReplica
    <3>2. CASE r.seen = {}
      <4>1. r.reg = NoWrite /\ q.reg = NoWrite
        BY <2>1, <3>2 DEF HasNewest
      <4> QED BY <2>1, <4>1 DEF RegisterReplica
    <3> QED BY <2>1, <3>1, <3>2 DEF HasNewest
  <2> QED BY <2>3, <2>4 DEF r, q
<1>2. ASSUME NEW n \in Nodes, NEW w \in obj.at[n].seen
      PROVE  w.ts <= obj.at[n].reg.ts /\ (obj.tied \/ ~ Types!Later(w, obj.at[n].reg))
  BY <1>0 DEF HasNewest, Outranks, Register
<1> QED BY <1>0, <1>1, <1>2 DEF Types!ReplicasConverge

----------------------------------------------------------------------------
\* The tag of an add: its node and a number.
Tag == Nodes \X Nat

\* An add or a remove, with its element and the tags it is about.
Update == {"add", "remove"} \X {"x", "y"} \X SUBSET Tag

\* A replica of the set, with the updates it reflects.
SetReplica ==
  [adds : [{"x", "y"} -> SUBSET Tag], removes : SUBSET Tag, next : Nat, seen : SUBSET Update]

\* The set at every replica, with a state under way.
SetRecord == [class : {"orset"}, at : [Nodes -> SetReplica], mail : SetReplica, made : Nat]

\* A state of the set holds what the updates it reflects say.
Observed(r) ==
  /\ \A e \in {"x", "y"}, t \in Tag : t \in r.adds[e] <=> <<"add", e, {t}>> \in r.seen
  /\ \A t \in Tag : t \in r.removes <=> \E d \in r.seen : d[1] = "remove" /\ t \in d[3]
  /\ \A a \in r.seen : a[1] = "add" => \E t \in Tag : a[3] = {t}

\* Every state, at a replica or under way, agrees with its updates.
ObservedSet ==
  /\ obj \in SetRecord
  /\ \A n \in Nodes : Observed(obj.at[n])
  /\ Observed(obj.mail)

\* A new state for one replica.
LEMMA SetReplaced ==
  ASSUME ObservedSet, NEW n \in Nodes, NEW r \in SetReplica, Observed(r),
         obj' \in SetRecord, obj'.mail = obj.mail,
         \A m \in Nodes : obj'.at[m] = IF m = n THEN r ELSE obj.at[m]
  PROVE  ObservedSet'
<1>1. \A m \in Nodes : Observed(obj'.at[m])
  BY DEF ObservedSet
<1> QED BY <1>1 DEF ObservedSet

\* The fields of a state of the set.
LEMMA SetReplicaFields ==
  ASSUME NEW r \in SetReplica
  PROVE  /\ r = [adds |-> r.adds, removes |-> r.removes, next |-> r.next, seen |-> r.seen]
         /\ r.adds \in [{"x", "y"} -> SUBSET Tag] /\ r.removes \subseteq Tag /\ r.next \in Nat
         /\ r.seen \subseteq Update
BY DEF SetReplica

\* An update is a kind, an element and tags.
LEMMA UpdateFields ==
  ASSUME NEW u \in Update
  PROVE  /\ u = <<u[1], u[2], u[3]>> /\ u[1] \in {"add", "remove"} /\ u[2] \in {"x", "y"}
         /\ u[3] \subseteq Tag
BY DEF Update

\* One step of an update of a replica: a field of the state at n.
LEMMA FieldOfReplica ==
  ASSUME NEW at \in [Nodes -> SetReplica], NEW n \in Nodes, NEW s \in SetReplica
  PROVE  /\ [at EXCEPT ![n] = s] \in [Nodes -> SetReplica]
         /\ [at EXCEPT ![n] = s][n] = s
         /\ \A t \in SetReplica : [[at EXCEPT ![n] = s] EXCEPT ![n] = t] = [at EXCEPT ![n] = t]
OBVIOUS

\* Adding an element under a new tag.
LEMMA AddElementStep ==
  ASSUME ObservedSet, NEW n \in Nodes, NEW e \in {"x", "y"}, Types!AddElement(n, e)
  PROVE  ObservedSet'
<1> DEFINE r == obj.at[n]
           tag == <<n, r.next>>
           u == <<"add", e, {tag}>>
           adds == [r.adds EXCEPT ![e] = @ \cup {tag}]
           seen == r.seen \cup {u}
           next == [adds |-> adds, removes |-> r.removes, next |-> r.next + 1, seen |-> seen]
           at == [obj.at EXCEPT ![n] = next]
           made == obj.made + 1
<1>0. /\ obj \in SetRecord /\ r \in SetReplica /\ obj.at \in [Nodes -> SetReplica]
      /\ obj.made \in Nat /\ Observed(r)
  BY DEF ObservedSet, SetRecord
<1>1. /\ r.adds \in [{"x", "y"} -> SUBSET Tag] /\ r.removes \subseteq Tag /\ r.next \in Nat
      /\ r.seen \subseteq Update
  BY <1>0, SetReplicaFields
<1>2. tag \in Tag /\ u \in Update /\ u[1] = "add" /\ u[2] = e /\ u[3] = {tag}
  BY <1>1 DEF Tag, Update
<1>3. adds \in [{"x", "y"} -> SUBSET Tag] /\ seen \subseteq Update /\ r.next + 1 \in Nat
      /\ \A f \in {"x", "y"} : adds[f] = IF f = e THEN r.adds[f] \cup {tag} ELSE r.adds[f]
  <2> HIDE DEF tag, u
  <2> QED BY <1>1, <1>2
<1>4. obj' = [obj EXCEPT !.at = at, !.made = made]
  <2> DEFINE one == [obj.at EXCEPT ![n].adds[e] = @ \cup {tag}]
             two == [one EXCEPT ![n].next = r.next + 1]
             three == [two EXCEPT ![n].seen = seen]
             s1 == [adds |-> adds, removes |-> r.removes, next |-> r.next, seen |-> r.seen]
             s2 == [adds |-> adds, removes |-> r.removes, next |-> r.next + 1, seen |-> r.seen]
  <2>1. obj' = [obj EXCEPT !.at = three, !.made = made]
    <3> DEFINE o1 == [obj EXCEPT !.at = one]
               o2 == [o1 EXCEPT !.at[n].next = r.next + 1]
               o3 == [o2 EXCEPT !.made = made]
               o4 == [o3 EXCEPT !.at[n].seen = seen]
    <3>1. obj' = o4
      BY Zenon DEF Types!AddElement
    <3>2. obj = [class |-> obj.class, at |-> obj.at, mail |-> obj.mail, made |-> obj.made]
      BY <1>0 DEF SetRecord
    <3> HIDE DEF one, seen, made
    <3>3. o1 = [class |-> obj.class, at |-> one, mail |-> obj.mail, made |-> obj.made]
      BY <3>2
    <3>4. o2 = [o1 EXCEPT !.at = [o1.at EXCEPT ![n].next = r.next + 1]]
      OBVIOUS
    <3> HIDE DEF o1
    <3>5. o2 = [class |-> obj.class, at |-> two, mail |-> obj.mail, made |-> obj.made]
      <4>1. o1.at = one
        BY <3>3
      <4>2. o2 = [o1 EXCEPT !.at = two]
        BY <3>4, <4>1
      <4> HIDE DEF o2, two
      <4> QED BY <3>3, <4>2
    <3> HIDE DEF o2, two
    <3>6. o3 = [class |-> obj.class, at |-> two, mail |-> obj.mail, made |-> made]
      BY <3>5
    <3> HIDE DEF o3
    <3>7. o4 = [o3 EXCEPT !.at = [o3.at EXCEPT ![n].seen = seen]]
      OBVIOUS
    <3>8. o4 = [class |-> obj.class, at |-> three, mail |-> obj.mail, made |-> made]
      <4>1. o3.at = two
        BY <3>6
      <4>2. o4 = [o3 EXCEPT !.at = three]
        BY <3>7, <4>1
      <4> HIDE DEF o4, three
      <4> QED BY <3>6, <4>2
    <3> HIDE DEF o4, three
    <3>9. [obj EXCEPT !.at = three, !.made = made]
            = [class |-> obj.class, at |-> three, mail |-> obj.mail, made |-> made]
      <4> DEFINE p == [obj EXCEPT !.at = three]
      <4>1. p = [class |-> obj.class, at |-> three, mail |-> obj.mail, made |-> obj.made]
        BY <3>2
      <4> HIDE DEF p
      <4>2. [p EXCEPT !.made = made]
              = [class |-> obj.class, at |-> three, mail |-> obj.mail, made |-> made]
        BY <4>1
      <4> QED BY <4>2 DEF p
    <3> QED BY <3>1, <3>8, <3>9
  <2>2. [r EXCEPT !.adds = adds] = s1
    <3>1. r = [adds |-> r.adds, removes |-> r.removes, next |-> r.next, seen |-> r.seen]
      BY <1>0, SetReplicaFields
    <3> HIDE DEF r, adds
    <3> QED BY <3>1
  <2>3. one = [obj.at EXCEPT ![n] = s1]
    <3>1. one = [obj.at EXCEPT ![n] = [r EXCEPT !.adds = adds]]
      OBVIOUS
    <3> HIDE DEF one, s1
    <3> QED BY <2>2, <3>1
  <2>4. s1 \in SetReplica /\ s2 \in SetReplica /\ next \in SetReplica
    <3> HIDE DEF adds, seen
    <3> QED BY <1>1, <1>3 DEF SetReplica
  <2>5. one[n] = s1 /\ one \in [Nodes -> SetReplica]
    BY <1>0, <2>3, <2>4
  <2>6. two = [one EXCEPT ![n] = s2]
    <3> DEFINE q == one[n]
    <3>1. two = [one EXCEPT ![n] = [q EXCEPT !.next = r.next + 1]]
      OBVIOUS
    <3>2. q = s1
      BY <2>5
    <3> HIDE DEF q, one, two, adds
    <3>3. [q EXCEPT !.next = r.next + 1] = s2
      BY <3>2
    <3> QED BY <3>1, <3>3
  <2>7. two[n] = s2 /\ two \in [Nodes -> SetReplica]
    <3> HIDE DEF one, two, s2
    <3> QED BY <2>4, <2>5, <2>6
  <2>8. three = [two EXCEPT ![n] = next]
    <3> DEFINE q == two[n]
    <3>1. three = [two EXCEPT ![n] = [q EXCEPT !.seen = seen]]
      OBVIOUS
    <3>2. q = s2
      BY <2>7
    <3> HIDE DEF q, two, three, adds, seen, r
    <3>3. [q EXCEPT !.seen = seen] = next
      BY <3>2
    <3> QED BY <3>1, <3>3
  <2> HIDE DEF one, two, three, s1, s2, next
  <2>9. three = at
    BY <1>0, <2>3, <2>4, <2>6, <2>8, FieldOfReplica
  <2> QED BY <2>1, <2>9
<1>5. next \in SetReplica /\ next.adds = adds /\ next.removes = r.removes /\ next.seen = seen
  <2> HIDE DEF adds, seen
  <2> QED BY <1>1, <1>3 DEF SetReplica
<1> HIDE DEF next
<1>6. /\ made \in Nat /\ at \in [Nodes -> SetReplica]
      /\ \A m \in Nodes : at[m] = IF m = n THEN next ELSE obj.at[m]
  BY <1>0, <1>5
<1> HIDE DEF made, at
<1>7. obj' \in SetRecord /\ obj'.at = at /\ obj'.mail = obj.mail
  BY <1>0, <1>4, <1>6 DEF SetRecord
<1>8. Observed(next)
  <2>1. ASSUME NEW f \in {"x", "y"}, NEW t \in Tag
        PROVE  t \in adds[f] <=> <<"add", f, {t}>> \in seen
    <3>1. t \in r.adds[f] <=> <<"add", f, {t}>> \in r.seen
      BY <1>0 DEF Observed
    <3>2. <<"add", f, {t}>> = u <=> f = e /\ t = tag
      <4> HIDE DEF tag
      <4> QED OBVIOUS
    <3> HIDE DEF u, tag, adds
    <3> QED BY <1>3, <3>1, <3>2
  <2>2. ASSUME NEW t \in Tag
        PROVE  t \in r.removes <=> \E d \in seen : d[1] = "remove" /\ t \in d[3]
    <3>1. t \in r.removes <=> \E d \in r.seen : d[1] = "remove" /\ t \in d[3]
      BY <1>0 DEF Observed
    <3> HIDE DEF u
    <3>2. ~ (u[1] = "remove")
      BY <1>2
    <3> QED BY <3>1, <3>2, Zenon
  <2>3. ASSUME NEW a \in seen, a[1] = "add" PROVE \E t \in Tag : a[3] = {t}
    <3>1. CASE a \in r.seen
      BY <1>0, <2>3, <3>1 DEF Observed
    <3>2. CASE a = u
      BY <1>2, <3>2
    <3> QED BY <3>1, <3>2
  <2> HIDE DEF adds, seen
  <2> QED BY <1>5, <2>1, <2>2, <2>3 DEF Observed
<1> QED BY <1>5, <1>6, <1>7, <1>8, SetReplaced

\* Removing what a replica sees of an element.
LEMMA RemoveElementStep ==
  ASSUME ObservedSet, NEW n \in Nodes, NEW e \in {"x", "y"}, Types!RemoveElement(n, e)
  PROVE  ObservedSet'
<1> DEFINE r == obj.at[n]
           gone == r.adds[e]
           u == <<"remove", e, gone>>
           removes == r.removes \cup gone
           seen == r.seen \cup {u}
           next == [adds |-> r.adds, removes |-> removes, next |-> r.next, seen |-> seen]
           at == [obj.at EXCEPT ![n] = next]
           made == obj.made + 1
<1>0. /\ obj \in SetRecord /\ r \in SetReplica /\ obj.at \in [Nodes -> SetReplica]
      /\ obj.made \in Nat /\ Observed(r)
  BY DEF ObservedSet, SetRecord
<1>1. /\ r.adds \in [{"x", "y"} -> SUBSET Tag] /\ r.removes \subseteq Tag /\ r.next \in Nat
      /\ r.seen \subseteq Update /\ gone \subseteq Tag
  BY <1>0, SetReplicaFields
<1>2. u \in Update /\ u[1] = "remove" /\ u[3] = gone /\ u[1] # "add"
  <2> HIDE DEF gone
  <2> QED BY <1>1 DEF Update
<1>3. removes \subseteq Tag /\ seen \subseteq Update
  <2> HIDE DEF gone, u
  <2> QED BY <1>1, <1>2
<1>4. obj' = [obj EXCEPT !.at = at, !.made = made]
  <2> DEFINE one == [obj.at EXCEPT ![n].removes = removes]
             two == [one EXCEPT ![n].seen = seen]
             s1 == [adds |-> r.adds, removes |-> removes, next |-> r.next, seen |-> r.seen]
  <2>1. obj' = [obj EXCEPT !.at = two, !.made = made]
    <3> DEFINE o1 == [obj EXCEPT !.at = one]
               o2 == [o1 EXCEPT !.made = made]
               o3 == [o2 EXCEPT !.at[n].seen = seen]
    <3>1. obj' = o3
      BY Zenon DEF Types!RemoveElement
    <3>2. obj = [class |-> obj.class, at |-> obj.at, mail |-> obj.mail, made |-> obj.made]
      BY <1>0 DEF SetRecord
    <3> HIDE DEF one, seen, made
    <3>3. o1 = [class |-> obj.class, at |-> one, mail |-> obj.mail, made |-> obj.made]
      BY <3>2
    <3> HIDE DEF o1
    <3>4. o2 = [class |-> obj.class, at |-> one, mail |-> obj.mail, made |-> made]
      BY <3>3
    <3> HIDE DEF o2
    <3>5. o3 = [o2 EXCEPT !.at = [o2.at EXCEPT ![n].seen = seen]]
      OBVIOUS
    <3>6. o3 = [class |-> obj.class, at |-> two, mail |-> obj.mail, made |-> made]
      <4>1. o2.at = one
        BY <3>4
      <4>2. o3 = [o2 EXCEPT !.at = two]
        BY <3>5, <4>1
      <4> HIDE DEF o3, two
      <4> QED BY <3>4, <4>2
    <3> HIDE DEF o3, two
    <3>7. [obj EXCEPT !.at = two, !.made = made]
            = [class |-> obj.class, at |-> two, mail |-> obj.mail, made |-> made]
      <4> DEFINE p == [obj EXCEPT !.at = two]
      <4>1. p = [class |-> obj.class, at |-> two, mail |-> obj.mail, made |-> obj.made]
        BY <3>2
      <4> HIDE DEF p
      <4>2. [p EXCEPT !.made = made]
              = [class |-> obj.class, at |-> two, mail |-> obj.mail, made |-> made]
        BY <4>1
      <4> QED BY <4>2 DEF p
    <3> QED BY <3>1, <3>6, <3>7
  <2>2. [r EXCEPT !.removes = removes] = s1
    <3>1. r = [adds |-> r.adds, removes |-> r.removes, next |-> r.next, seen |-> r.seen]
      BY <1>0, SetReplicaFields
    <3> HIDE DEF r, removes
    <3> QED BY <3>1
  <2>3. one = [obj.at EXCEPT ![n] = s1]
    <3>1. one = [obj.at EXCEPT ![n] = [r EXCEPT !.removes = removes]]
      OBVIOUS
    <3> HIDE DEF one, s1
    <3> QED BY <2>2, <3>1
  <2>4. s1 \in SetReplica /\ next \in SetReplica
    <3> HIDE DEF removes, seen
    <3> QED BY <1>1, <1>3 DEF SetReplica
  <2>5. one[n] = s1 /\ one \in [Nodes -> SetReplica]
    BY <1>0, <2>3, <2>4
  <2>6. two = [one EXCEPT ![n] = next]
    <3> DEFINE q == one[n]
    <3>1. two = [one EXCEPT ![n] = [q EXCEPT !.seen = seen]]
      OBVIOUS
    <3>2. q = s1
      BY <2>5
    <3> HIDE DEF q, one, two, removes, seen, r
    <3>3. [q EXCEPT !.seen = seen] = next
      BY <3>2
    <3> QED BY <3>1, <3>3
  <2> HIDE DEF one, two, s1, next
  <2>7. two = at
    BY <1>0, <2>3, <2>4, <2>6, FieldOfReplica
  <2> QED BY <2>1, <2>7
<1>5. next \in SetReplica /\ next.adds = r.adds /\ next.removes = removes /\ next.seen = seen
  <2> HIDE DEF removes, seen
  <2> QED BY <1>1, <1>3 DEF SetReplica
<1> HIDE DEF next
<1>6. /\ made \in Nat /\ at \in [Nodes -> SetReplica]
      /\ \A m \in Nodes : at[m] = IF m = n THEN next ELSE obj.at[m]
  BY <1>0, <1>5
<1> HIDE DEF made, at
<1>7. obj' \in SetRecord /\ obj'.at = at /\ obj'.mail = obj.mail
  BY <1>0, <1>4, <1>6 DEF SetRecord
<1>8. Observed(next)
  <2>1. ASSUME NEW f \in {"x", "y"}, NEW t \in Tag
        PROVE  t \in r.adds[f] <=> <<"add", f, {t}>> \in seen
    <3>1. t \in r.adds[f] <=> <<"add", f, {t}>> \in r.seen
      BY <1>0 DEF Observed
    <3>2. <<"add", f, {t}>>[1] = "add"
      OBVIOUS
    <3>3. <<"add", f, {t}>> # u
      <4> HIDE DEF u
      <4> QED BY <1>2, <3>2
    <3> HIDE DEF u
    <3> QED BY <3>1, <3>3
  <2>2. ASSUME NEW t \in Tag
        PROVE  t \in removes <=> \E d \in seen : d[1] = "remove" /\ t \in d[3]
    <3>1. t \in r.removes <=> \E d \in r.seen : d[1] = "remove" /\ t \in d[3]
      BY <1>0 DEF Observed
    <3> HIDE DEF u, gone
    <3>2. t \in gone <=> u[1] = "remove" /\ t \in u[3]
      BY <1>2
    <3> QED BY <3>1, <3>2, Zenon
  <2>3. ASSUME NEW a \in seen, a[1] = "add" PROVE \E t \in Tag : a[3] = {t}
    <3>1. a \in r.seen
      <4> HIDE DEF u
      <4> QED BY <1>2, <2>3
    <3> QED BY <1>0, <2>3, <3>1 DEF Observed
  <2> HIDE DEF removes, seen
  <2> QED BY <1>5, <2>1, <2>2, <2>3 DEF Observed
<1> QED BY <1>5, <1>6, <1>7, <1>8, SetReplaced

\* Merging what is in the mail.
LEMMA MergeSetStep ==
  ASSUME ObservedSet, NEW n \in Nodes, Types!MergeSet(n)
  PROVE  ObservedSet'
<1> DEFINE r == obj.at[n]
           q == obj.mail
           adds == [e \in {"x", "y"} |-> r.adds[e] \cup q.adds[e]]
           removes == r.removes \cup q.removes
           count == Types!Max({r.next, q.next})
           seen == r.seen \cup q.seen
           next == [adds |-> adds, removes |-> removes, next |-> count, seen |-> seen]
           at == [obj.at EXCEPT ![n] = next]
<1>0. /\ obj \in SetRecord /\ r \in SetReplica /\ q \in SetReplica
      /\ obj.at \in [Nodes -> SetReplica] /\ Observed(r) /\ Observed(q)
  BY DEF ObservedSet, SetRecord
<1>1. /\ r.adds \in [{"x", "y"} -> SUBSET Tag] /\ r.removes \subseteq Tag /\ r.next \in Nat
      /\ r.seen \subseteq Update
      /\ q.adds \in [{"x", "y"} -> SUBSET Tag] /\ q.removes \subseteq Tag /\ q.next \in Nat
      /\ q.seen \subseteq Update
  BY <1>0, SetReplicaFields
<1>2. obj' = [obj EXCEPT !.at = at]
  BY DEF Types!MergeSet, Types!ELEMENTS
<1>3. /\ adds \in [{"x", "y"} -> SUBSET Tag] /\ removes \subseteq Tag /\ seen \subseteq Update
      /\ \A e \in {"x", "y"} : adds[e] = r.adds[e] \cup q.adds[e]
  BY <1>1
<1>4. count \in Nat
  BY <1>1, TypesGreater
<1> HIDE DEF adds, count
<1>5. next \in SetReplica /\ next.adds = adds /\ next.removes = removes /\ next.seen = seen
  <2> HIDE DEF removes, seen
  <2> QED BY <1>3, <1>4 DEF SetReplica
<1> HIDE DEF next
<1>6. /\ at \in [Nodes -> SetReplica]
      /\ \A m \in Nodes : at[m] = IF m = n THEN next ELSE obj.at[m]
  BY <1>0, <1>5
<1> HIDE DEF at
<1>7. obj' \in SetRecord /\ obj'.at = at /\ obj'.mail = obj.mail
  BY <1>0, <1>2, <1>6 DEF SetRecord
<1>8. Observed(next)
  <2> HIDE DEF r, q
  <2>1. ASSUME NEW e \in {"x", "y"}, NEW t \in Tag
        PROVE  t \in adds[e] <=> <<"add", e, {t}>> \in seen
    BY <1>0, <1>3 DEF Observed
  <2>2. ASSUME NEW t \in Tag
        PROVE  t \in removes <=> \E d \in seen : d[1] = "remove" /\ t \in d[3]
    <3>1. /\ t \in r.removes <=> \E d \in r.seen : d[1] = "remove" /\ t \in d[3]
          /\ t \in q.removes <=> \E d \in q.seen : d[1] = "remove" /\ t \in d[3]
      BY <1>0 DEF Observed
    <3> QED BY <3>1, Zenon
  <2>3. \A a \in seen : a[1] = "add" => \E t \in Tag : a[3] = {t}
    BY <1>0 DEF Observed
  <2> HIDE DEF removes, seen
  <2> QED BY <1>5, <2>1, <2>2, <2>3 DEF Observed
<1> QED BY <1>5, <1>6, <1>7, <1>8, SetReplaced

\* Posting a replica's state.
LEMMA PostSetStep ==
  ASSUME ObservedSet, NEW n \in Nodes, Types!Post(n)
  PROVE  ObservedSet'
<1>0. obj \in SetRecord /\ obj.at[n] \in SetReplica
  BY DEF ObservedSet, SetRecord
<1>1. obj' = [obj EXCEPT !.mail = obj.at[n]]
  BY DEF Types!Post
<1>2. obj' \in SetRecord /\ obj'.at = obj.at /\ obj'.mail = obj.at[n]
  BY <1>0, <1>1 DEF SetRecord
<1> QED BY <1>2 DEF ObservedSet

\* An element is in the set when an add of it was not seen by any remove.
LEMMA ContainsMeans ==
  ASSUME NEW r \in SetReplica, Observed(r), NEW e \in {"x", "y"}
  PROVE  Types!Contains(r, e) <=>
           \E a \in r.seen : /\ a[1] = "add" /\ a[2] = e
                             /\ ~ \E d \in r.seen : d[1] = "remove" /\ a[3] \subseteq d[3]
<1>0. r.adds[e] \subseteq Tag /\ r.seen \subseteq Update
  BY SetReplicaFields
<1>1. ASSUME NEW t \in r.adds[e], t \notin r.removes
      PROVE  \E a \in r.seen : /\ a[1] = "add" /\ a[2] = e
                               /\ ~ \E d \in r.seen : d[1] = "remove" /\ a[3] \subseteq d[3]
  <2> DEFINE a == <<"add", e, {t}>>
  <2>1. t \in Tag /\ a \in r.seen /\ a[1] = "add" /\ a[2] = e /\ a[3] = {t}
    BY <1>0 DEF Observed
  <2> HIDE DEF a
  <2>2. ~ \E d \in r.seen : d[1] = "remove" /\ t \in d[3]
    BY <1>1, <2>1 DEF Observed
  <2>3. \A d : {t} \subseteq d => t \in d
    OBVIOUS
  <2>4. ~ \E d \in r.seen : d[1] = "remove" /\ a[3] \subseteq d[3]
    BY <2>1, <2>2, <2>3
  <2> QED BY <2>1, <2>4
<1>2. ASSUME NEW a \in r.seen, a[1] = "add", a[2] = e,
             ~ \E d \in r.seen : d[1] = "remove" /\ a[3] \subseteq d[3]
      PROVE  \E t \in r.adds[e] : t \notin r.removes
  <2>1. PICK t \in Tag : a[3] = {t}
    BY <1>2 DEF Observed
  <2>2. a = <<"add", e, {t}>>
    BY <1>0, <1>2, <2>1, UpdateFields
  <2>3. t \in r.adds[e]
    BY <1>2, <2>2 DEF Observed
  <2>4. \A d : t \in d => {t} \subseteq d
    OBVIOUS
  <2>5. t \notin r.removes
    BY <1>2, <2>1, <2>4 DEF Observed
  <2> QED BY <2>3, <2>5
<1>3. Types!Contains(r, e) <=> \E t \in r.adds[e] : t \notin r.removes
  BY DEF Types!Contains
<1> QED BY <1>1, <1>2, <1>3, Zenon

\* What the invariant says of the set.
LEMMA SetPromise ==
  ASSUME ObservedSet
  PROVE  Types!ReplicasConverge
<1>0. /\ obj \in SetRecord /\ obj.class = "orset"
      /\ \A n \in Nodes : obj.at[n] \in SetReplica /\ Observed(obj.at[n])
  BY DEF ObservedSet, SetRecord
<1>1. ASSUME NEW n \in Nodes, NEW e \in {"x", "y"}
      PROVE  Types!Contains(obj.at[n], e) <=>
               \E a \in obj.at[n].seen :
                 /\ a[1] = "add" /\ a[2] = e
                 /\ ~ \E d \in obj.at[n].seen : d[1] = "remove" /\ a[3] \subseteq d[3]
  BY <1>0, ContainsMeans
<1>2. ASSUME NEW n \in Nodes, NEW m \in Nodes, obj.at[n].seen = obj.at[m].seen,
             NEW e \in {"x", "y"}
      PROVE  Types!Contains(obj.at[n], e) <=> Types!Contains(obj.at[m], e)
  BY <1>1, <1>2
<1>3. obj.class # "counter" /\ obj.class # "register"
  BY <1>0
<1> QED BY <1>0, <1>1, <1>2, <1>3, Zenon DEF Types!ReplicasConverge, Types!ELEMENTS

----------------------------------------------------------------------------
\* The stamps of an event.
Stamp == [lamport : Nat, vector : [Nodes -> Nat], hlc : Nat \X Nat, past : SUBSET Nat]

\* The events so far, each node's latest, and the wall clock.
ClocksRecord == [class : {"clocks"}, events : Seq(Stamp), last : [Nodes -> Nat], wall : Nat]

(***************************************************************************)
(* by says which node an event is of.  An event is in the past of another  *)
(* exactly when the other's vector counts it, and what is in the past has  *)
(* earlier stamps of every kind.                                           *)
(***************************************************************************)
Caused(events, by) ==
  \A i, j \in 1 .. Len(events) :
    /\ i \in events[j].past <=> events[i].vector[by[i]] <= events[j].vector[by[i]]
    /\ i \in events[j].past => \A m \in Nodes : events[i].vector[m] <= events[j].vector[m]
    /\ i \in events[j].past /\ i # j =>
         events[i].lamport < events[j].lamport /\ Types!HlcBefore(events[i].hlc, events[j].hlc)

\* An event is in its own past, with earlier events only, and no hybrid stamp is ahead of
\* the wall clock.
Placed(events, wall) ==
  \A i \in 1 .. Len(events) :
    i \in events[i].past /\ events[i].past \subseteq 1 .. i /\ events[i].hlc[1] <= wall

\* A node's latest event counts all of its events, and no other event counts more of them.
Newest(events, last, by) ==
  /\ \A n \in Nodes : last[n] # 0 => last[n] \in 1 .. Len(events) /\ by[last[n]] = n
  /\ \A i \in 1 .. Len(events) :
       /\ by[i] \in Nodes /\ last[by[i]] # 0 /\ i \in events[last[by[i]]].past
       /\ events[i].vector[by[i]] >= 1
  /\ \A i \in 1 .. Len(events), n \in Nodes :
       /\ last[n] = 0 => events[i].vector[n] = 0
       /\ last[n] # 0 => events[i].vector[n] <= events[last[n]].vector[n]

\* The clocks: some attribution of the events to nodes explains them.
Clocks ==
  /\ obj \in ClocksRecord
  /\ Placed(obj.events, obj.wall)
  /\ \E by : Caused(obj.events, by) /\ Newest(obj.events, obj.last, by)

\* The fields of the clocks, and of an event.
LEMMA ClocksFields ==
  ASSUME obj \in ClocksRecord
  PROVE  /\ obj.class = "clocks" /\ obj.events \in Seq(Stamp) /\ obj.last \in [Nodes -> Nat]
         /\ obj.wall \in Nat /\ Len(obj.events) \in Nat
         /\ DOMAIN obj.events = 1 .. Len(obj.events)
         /\ \A i \in 1 .. Len(obj.events) : obj.events[i] \in Stamp
<1>1. /\ obj.class = "clocks" /\ obj.events \in Seq(Stamp) /\ obj.last \in [Nodes -> Nat]
      /\ obj.wall \in Nat
  BY DEF ClocksRecord
<1>2. Len(obj.events) \in Nat /\ DOMAIN obj.events = 1 .. Len(obj.events)
  BY <1>1, LenProperties
<1>3. \A i \in 1 .. Len(obj.events) : obj.events[i] \in Stamp
  BY <1>1, ElementOfSeq
<1> QED BY <1>1, <1>2, <1>3

\* The fields of a stamp.
LEMMA StampFields ==
  ASSUME NEW s \in Stamp
  PROVE  /\ s.lamport \in Nat /\ s.vector \in [Nodes -> Nat] /\ s.hlc \in Nat \X Nat
         /\ s.past \subseteq Nat /\ s.hlc[1] \in Nat /\ s.hlc[2] \in Nat
         /\ \A m \in Nodes : s.vector[m] \in Nat
<1>1. /\ s.lamport \in Nat /\ s.vector \in [Nodes -> Nat] /\ s.hlc \in Nat \X Nat
      /\ s.past \subseteq Nat
  BY DEF Stamp
<1>2. s.hlc[1] \in Nat /\ s.hlc[2] \in Nat
  BY <1>1
<1> QED BY <1>1, <1>2

\* The stamp of no event.
Unstamped(s) ==
  s.lamport = 0 /\ s.past = {} /\ s.hlc = <<0, 0>> /\ \A m \in Nodes : s.vector[m] = 0

\* A stamp from which the next follows: of no event, or of event k.
Source(events, s) ==
  \/ Unstamped(s)
  \/ \E k \in 1 .. Len(events) : s = events[k]

\* What is in the past of a source is no later than the source.
LEMMA SourcePast ==
  ASSUME NEW events \in Seq(Stamp), NEW by, Caused(events, by), NEW s \in Stamp, Source(events, s),
         NEW i \in 1 .. Len(events), i \in s.past
  PROVE  /\ \A m \in Nodes : events[i].vector[m] <= s.vector[m]
         /\ events[i].lamport <= s.lamport
         /\ events[i].hlc = s.hlc \/ Types!HlcBefore(events[i].hlc, s.hlc)
<1>1. PICK k \in 1 .. Len(events) : s = events[k]
  BY DEF Source, Unstamped
<1>2. events[i] \in Stamp /\ events[k] \in Stamp
  BY ElementOfSeq
<1>3. events[i].lamport \in Nat /\ events[k].lamport \in Nat
  BY <1>2, StampFields
<1>4. i # k => events[i].lamport < events[k].lamport /\ Types!HlcBefore(events[i].hlc, events[k].hlc)
  BY <1>1 DEF Caused
<1>5. \A m \in Nodes : events[i].vector[m] <= events[k].vector[m]
  BY <1>1 DEF Caused
<1> QED BY <1>1, <1>3, <1>4, <1>5

\* A source counts the events in its past, and no others.
LEMMA SourceCounts ==
  ASSUME NEW events \in Seq(Stamp), NEW last, NEW by, Caused(events, by), Newest(events, last, by),
         NEW s \in Stamp, Source(events, s), NEW i \in 1 .. Len(events)
  PROVE  i \in s.past <=> events[i].vector[by[i]] <= s.vector[by[i]]
<1>1. CASE \E k \in 1 .. Len(events) : s = events[k]
  BY <1>1 DEF Caused
<1>2. CASE s.past = {} /\ \A m \in Nodes : s.vector[m] = 0
  <2>1. by[i] \in Nodes /\ events[i].vector[by[i]] >= 1 /\ events[i] \in Stamp
    BY ElementOfSeq DEF Newest
  <2>2. events[i].vector[by[i]] \in Nat
    BY <2>1, StampFields
  <2>3. s.vector[by[i]] = 0
    BY <1>2, <2>1
  <2>4. ~ (events[i].vector[by[i]] <= s.vector[by[i]])
    BY <2>1, <2>2, <2>3
  <2> QED BY <1>2, <2>4
<1> QED BY <1>1, <1>2 DEF Source, Unstamped

\* Hybrid stamps are ordered.
LEMMA HlcOrder ==
  ASSUME NEW x \in Nat \X Nat, NEW y \in Nat \X Nat, NEW z \in Nat \X Nat,
         x = y \/ Types!HlcBefore(x, y), Types!HlcBefore(y, z)
  PROVE  Types!HlcBefore(x, z)
<1>1. /\ x[1] \in Nat /\ x[2] \in Nat /\ y[1] \in Nat /\ y[2] \in Nat /\ z[1] \in Nat /\ z[2] \in Nat
  OBVIOUS
<1> QED BY <1>1 DEF Types!HlcBefore

(***************************************************************************)
(* One more event: it follows its node's latest, a, and a message's, b.    *)
(***************************************************************************)
LEMMA EventAdded ==
  ASSUME Clocks, NEW n \in Nodes, NEW a \in Stamp, NEW b \in Stamp, NEW s \in Stamp, NEW wall \in Nat,
         obj.last[n] = 0 => Unstamped(a), obj.last[n] # 0 => a = obj.events[obj.last[n]],
         Source(obj.events, b), obj.wall <= wall,
         s.lamport > a.lamport, s.lamport > b.lamport,
         Types!HlcBefore(a.hlc, s.hlc), Types!HlcBefore(b.hlc, s.hlc), s.hlc[1] <= wall,
         \A m \in Nodes : s.vector[m] = (IF a.vector[m] <= b.vector[m] THEN b.vector[m] ELSE a.vector[m])
                                          + (IF m = n THEN 1 ELSE 0),
         s.past = a.past \cup b.past \cup {Len(obj.events) + 1},
         obj' \in ClocksRecord, obj'.events = Append(obj.events, s), obj'.wall = wall,
         \A m \in Nodes : obj'.last[m] = IF m = n THEN Len(obj.events) + 1 ELSE obj.last[m]
  PROVE  Clocks'
<1> DEFINE E == obj.events
           N == Len(E)
           id == N + 1
           F == Append(E, s)
<1>0. /\ E \in Seq(Stamp) /\ N \in Nat /\ obj.last \in [Nodes -> Nat] /\ obj.wall \in Nat
      /\ \A i \in 1 .. N : E[i] \in Stamp
  BY ClocksFields DEF Clocks
<1>1. /\ Len(F) = id /\ F[id] = s /\ \A i \in 1 .. N : F[i] = E[i]
  BY <1>0
<1>2. \A i \in 1 .. Len(F) : i = id \/ i \in 1 .. N
  BY <1>0, <1>1
<1>3. PICK by : Caused(E, by) /\ Newest(E, obj.last, by)
  BY DEF Clocks
<1>4. Placed(E, obj.wall)
  BY DEF Clocks
<1> DEFINE by2 == [i \in 1 .. id |-> IF i = id THEN n ELSE by[i]]
<1>5. by2[id] = n /\ \A i \in 1 .. N : by2[i] = by[i] /\ i # id
  BY <1>0
<1> HIDE DEF F, by2
<1>6. Source(E, a)
  BY <1>3 DEF Newest, Source
<1>7. /\ a.lamport \in Nat /\ b.lamport \in Nat /\ s.lamport \in Nat
      /\ a.hlc \in Nat \X Nat /\ b.hlc \in Nat \X Nat /\ s.hlc \in Nat \X Nat
      /\ \A m \in Nodes : a.vector[m] \in Nat /\ b.vector[m] \in Nat /\ s.vector[m] \in Nat
  BY StampFields
<1>8. ASSUME NEW m \in Nodes
      PROVE  /\ a.vector[m] <= s.vector[m] /\ b.vector[m] <= s.vector[m]
             /\ m = n => a.vector[m] < s.vector[m] /\ s.vector[m] >= 1
  <2> DEFINE x == a.vector[m]
             y == b.vector[m]
             z == s.vector[m]
  <2>1. x \in Nat /\ y \in Nat /\ z = (IF x <= y THEN y ELSE x) + (IF m = n THEN 1 ELSE 0)
    BY <1>7
  <2> HIDE DEF x, y, z
  <2>2. x <= z /\ y <= z /\ (m = n => x < z /\ z >= 1)
    BY <2>1
  <2> QED BY <2>2 DEF x, y, z
<1>9. a.vector[n] < s.vector[n] /\ s.vector[n] >= 1
  BY <1>8
<1>10. ASSUME NEW j \in 1 .. N PROVE E[j].vector[n] < s.vector[n] /\ id \notin E[j].past
  <2>1. E[j].vector[n] \in Nat
    BY <1>0, StampFields
  <2>2. obj.last[n] = 0 => E[j].vector[n] = 0
    BY <1>3 DEF Newest
  <2>3. obj.last[n] # 0 => E[j].vector[n] <= a.vector[n]
    BY <1>3 DEF Newest
  <2>4. E[j].past \subseteq 1 .. j
    BY <1>4 DEF Placed
  <2>5. id \notin 1 .. j
    BY <1>0
  <2>6. E[j].vector[n] < s.vector[n]
    <3> DEFINE x == a.vector[n]
               y == E[j].vector[n]
               z == s.vector[n]
    <3>1. x \in Nat /\ y \in Nat /\ z \in Nat /\ x < z /\ z >= 1 /\ (y = 0 \/ y <= x)
      BY <1>7, <1>9, <2>1, <2>2, <2>3
    <3> HIDE DEF x, y, z
    <3>2. y < z
      BY <3>1
    <3> QED BY <3>2 DEF y, z
  <2> QED BY <2>4, <2>5, <2>6
<1>11. ASSUME NEW i \in 1 .. N
       PROVE  i \in s.past <=> i \in a.past \/ i \in b.past
  BY <1>5
<1>12. ASSUME NEW i \in 1 .. N, by[i] = n PROVE i \in a.past
  BY <1>3, <1>12 DEF Newest
<1>13. ASSUME NEW i \in 1 .. N
       PROVE  i \in s.past <=> E[i].vector[by[i]] <= s.vector[by[i]]
  <2> DEFINE o == by[i]
             v == E[i].vector[o]
  <2>1. o \in Nodes
    BY <1>3 DEF Newest
  <2>2. v \in Nat
    BY <1>0, <2>1, StampFields
  <2>3. /\ i \in a.past <=> v <= a.vector[o]
        /\ i \in b.past <=> v <= b.vector[o]
    BY <1>0, <1>3, <1>6, SourceCounts
  <2>4. CASE o = n
    <3>1. i \in a.past /\ i \in s.past
      BY <1>11, <1>12, <2>4
    <3> HIDE DEF o, v
    <3>2. v <= s.vector[o]
      BY SMTT(30), <1>7, <1>8, <2>1, <2>2, <2>3, <3>1
    <3> QED BY <3>1, <3>2 DEF v, o
  <2>5. CASE o # n
    <3> HIDE DEF o, v
    <3>1. s.vector[o] = IF a.vector[o] <= b.vector[o] THEN b.vector[o] ELSE a.vector[o]
      BY SMTT(30), <1>7, <2>1, <2>5
    <3>2. v <= s.vector[o] <=> v <= a.vector[o] \/ v <= b.vector[o]
      <4> DEFINE x == a.vector[o]
                 y == b.vector[o]
                 z == s.vector[o]
      <4>1. x \in Nat /\ y \in Nat /\ z = IF x <= y THEN y ELSE x
        BY <1>7, <2>1, <3>1
      <4> HIDE DEF x, y, z
      <4>2. v <= z <=> v <= x \/ v <= y
        BY <2>2, <4>1
      <4> QED BY <4>2 DEF x, y, z
    <3>3. i \in s.past <=> v <= s.vector[o]
      BY <1>11, <2>3, <3>2
    <3> QED BY <3>3 DEF v, o
  <2> QED BY <2>4, <2>5
<1>14. ASSUME NEW i \in 1 .. N, i \in s.past
       PROVE  /\ \A m \in Nodes : E[i].vector[m] <= s.vector[m]
              /\ E[i].lamport < s.lamport /\ Types!HlcBefore(E[i].hlc, s.hlc)
  <2>1. /\ E[i] \in Stamp /\ E[i].lamport \in Nat /\ E[i].hlc \in Nat \X Nat
        /\ \A m \in Nodes : E[i].vector[m] \in Nat
    BY <1>0, StampFields
  <2>2. PICK c \in Stamp : (c = a \/ c = b) /\ i \in c.past
    BY <1>11, <1>14
  <2>3. Source(E, c)
    BY <1>6, <2>2
  <2>4. /\ \A m \in Nodes : E[i].vector[m] <= c.vector[m]
        /\ E[i].lamport <= c.lamport
        /\ E[i].hlc = c.hlc \/ Types!HlcBefore(E[i].hlc, c.hlc)
    BY <1>0, <1>3, <2>2, <2>3, SourcePast
  <2>5. /\ c.lamport \in Nat /\ s.lamport > c.lamport /\ c.hlc \in Nat \X Nat
        /\ Types!HlcBefore(c.hlc, s.hlc)
    BY <1>7, <2>2
  <2>6. \A m \in Nodes : c.vector[m] \in Nat /\ c.vector[m] <= s.vector[m]
    BY <1>7, <1>8, <2>2
  <2>7. \A m \in Nodes : E[i].vector[m] <= s.vector[m]
    <3> SUFFICES ASSUME NEW m \in Nodes PROVE E[i].vector[m] <= s.vector[m]
      OBVIOUS
    <3> DEFINE x == E[i].vector[m]
               y == c.vector[m]
               z == s.vector[m]
    <3>1. x \in Nat /\ y \in Nat /\ z \in Nat /\ x <= y /\ y <= z
      BY <1>7, <2>1, <2>4, <2>6
    <3> HIDE DEF x, y, z
    <3>2. x <= z
      BY <3>1
    <3> QED BY <3>2 DEF x, z
  <2>8. E[i].lamport < s.lamport
    <3> DEFINE x == E[i].lamport
               y == c.lamport
               z == s.lamport
    <3>1. x \in Nat /\ y \in Nat /\ z \in Nat /\ x <= y /\ z > y
      BY <1>7, <2>1, <2>4, <2>5
    <3> HIDE DEF x, y, z
    <3>2. x < z
      BY <3>1
    <3> QED BY <3>2 DEF x, z
  <2>9. Types!HlcBefore(E[i].hlc, s.hlc)
    BY <1>7, <2>1, <2>4, <2>5, HlcOrder
  <2> QED BY <2>7, <2>8, <2>9
<1>15. id \in s.past /\ s.past \subseteq 1 .. id
  <2>1. \A c \in Stamp : Source(E, c) => c.past \subseteq 1 .. N
    <3> SUFFICES ASSUME NEW c \in Stamp, Source(E, c) PROVE c.past \subseteq 1 .. N
      OBVIOUS
    <3>1. CASE Unstamped(c)
      BY <3>1 DEF Unstamped
    <3>2. CASE \E k \in 1 .. N : c = E[k]
      <4>1. PICK k \in 1 .. N : c = E[k]
        BY <3>2
      <4>2. c.past \subseteq 1 .. k
        BY <1>4, <4>1 DEF Placed
      <4>3. 1 .. k \subseteq 1 .. N
        BY <1>0
      <4> QED BY <4>2, <4>3
    <3> QED BY <3>1, <3>2 DEF Source
  <2>2. a.past \subseteq 1 .. N /\ b.past \subseteq 1 .. N
    BY <1>6, <2>1
  <2>3. 1 .. N \subseteq 1 .. id /\ id \in 1 .. id
    BY <1>0
  <2> QED BY <2>2, <2>3
<1> HIDE DEF id
<1>16. Caused(F, by2)
  <2> SUFFICES ASSUME NEW i \in 1 .. Len(F), NEW j \in 1 .. Len(F)
               PROVE  /\ i \in F[j].past <=> F[i].vector[by2[i]] <= F[j].vector[by2[i]]
                      /\ i \in F[j].past => \A m \in Nodes : F[i].vector[m] <= F[j].vector[m]
                      /\ i \in F[j].past /\ i # j =>
                           F[i].lamport < F[j].lamport /\ Types!HlcBefore(F[i].hlc, F[j].hlc)
    BY DEF Caused
  <2>1. CASE i \in 1 .. N /\ j \in 1 .. N
    BY <1>1, <1>3, <1>5, <2>1 DEF Caused
  <2>2. CASE i \in 1 .. N /\ j = id
    BY <1>1, <1>5, <1>13, <1>14, <2>2
  <2>3. CASE i = id /\ j \in 1 .. N
    <3>1. id \notin E[j].past /\ ~ (s.vector[n] <= E[j].vector[n])
      <4> DEFINE x == E[j].vector[n]
                 z == s.vector[n]
      <4>1. x \in Nat /\ z \in Nat /\ x < z
        BY <1>0, <1>7, <1>10, <2>3, StampFields
      <4>2. id \notin E[j].past
        BY <1>10, <2>3
      <4> HIDE DEF x, z
      <4>3. ~ (z <= x)
        BY <4>1
      <4> QED BY <4>2, <4>3 DEF x, z
    <3> QED BY <1>1, <1>5, <2>3, <3>1
  <2>4. CASE i = id /\ j = id
    <3>1. \A m \in Nodes : s.vector[m] <= s.vector[m]
      BY <1>7
    <3> QED BY <1>1, <1>5, <1>15, <2>4, <3>1
  <2> QED BY <1>2, <2>1, <2>2, <2>3, <2>4
<1>17. Placed(F, wall)
  <2> SUFFICES ASSUME NEW i \in 1 .. Len(F)
               PROVE  i \in F[i].past /\ F[i].past \subseteq 1 .. i /\ F[i].hlc[1] <= wall
    BY DEF Placed
  <2>1. CASE i \in 1 .. N
    <3>1. E[i].hlc[1] <= obj.wall /\ E[i].hlc[1] \in Nat
      BY <1>0, <1>4, <2>1, StampFields DEF Placed
    <3>2. E[i].hlc[1] <= wall
      BY <1>0, <3>1
    <3> QED BY <1>1, <1>4, <2>1, <3>2 DEF Placed
  <2>2. CASE i = id
    BY <1>1, <1>15, <2>2
  <2> QED BY <1>2, <2>1, <2>2
<1>18. Newest(F, obj'.last, by2)
  <2> DEFINE last == obj'.last
  <2>0. /\ id \in 1 .. Len(F) /\ id # 0 /\ 1 .. N \subseteq 1 .. Len(F)
        /\ \A m \in Nodes : last[m] = IF m = n THEN id ELSE obj.last[m]
    BY <1>0, <1>1 DEF id
  <2> HIDE DEF last
  <2>1. ASSUME NEW m \in Nodes, last[m] # 0 PROVE last[m] \in 1 .. Len(F) /\ by2[last[m]] = m
    <3>1. CASE m = n
      BY <1>5, <2>0, <3>1
    <3>2. CASE m # n
      BY <1>3, <1>5, <2>0, <2>1, <3>2 DEF Newest
    <3> QED BY <3>1, <3>2
  <2>2. ASSUME NEW i \in 1 .. Len(F)
        PROVE  /\ by2[i] \in Nodes /\ last[by2[i]] # 0 /\ i \in F[last[by2[i]]].past
               /\ F[i].vector[by2[i]] >= 1
    <3>1. CASE i = id
      BY <1>1, <1>5, <1>9, <1>15, <2>0, <3>1
    <3>2. CASE i \in 1 .. N /\ by[i] = n
      <4>1. i \in s.past /\ E[i].vector[by[i]] >= 1
        BY <1>3, <1>11, <1>12, <3>2 DEF Newest
      <4> QED BY <1>1, <1>5, <2>0, <3>2, <4>1
    <3>3. CASE i \in 1 .. N /\ by[i] # n
      <4>1. /\ by[i] \in Nodes /\ obj.last[by[i]] # 0 /\ i \in E[obj.last[by[i]]].past
            /\ E[i].vector[by[i]] >= 1 /\ obj.last[by[i]] \in 1 .. N
        BY <1>3, <3>3 DEF Newest
      <4> QED BY <1>1, <1>5, <2>0, <3>3, <4>1
    <3> QED BY <1>2, <3>1, <3>2, <3>3
  <2>3. ASSUME NEW i \in 1 .. Len(F), NEW m \in Nodes
        PROVE  /\ last[m] = 0 => F[i].vector[m] = 0
               /\ last[m] # 0 => F[i].vector[m] <= F[last[m]].vector[m]
    <3>1. CASE m = n
      <4>1. last[m] = id /\ F[last[m]].vector[m] = s.vector[n] /\ last[m] # 0
        BY <1>1, <2>0, <3>1
      <4>2. i \in 1 .. N => F[i].vector[m] <= s.vector[n]
        <5> SUFFICES ASSUME i \in 1 .. N PROVE F[i].vector[m] <= s.vector[n]
          OBVIOUS
        <5> DEFINE x == E[i].vector[n]
                   z == s.vector[n]
        <5>1. F[i] = E[i] /\ x \in Nat /\ z \in Nat /\ x < z
          BY <1>0, <1>1, <1>7, <1>10, StampFields
        <5> HIDE DEF x, z
        <5>2. x <= z
          BY <5>1
        <5> QED BY <3>1, <5>1, <5>2 DEF x, z
      <4>3. i = id => F[i].vector[m] <= s.vector[n]
        BY <1>1, <1>7, <3>1
      <4> QED BY <1>2, <4>1, <4>2, <4>3
    <3>2. CASE m # n /\ obj.last[m] = 0
      <4>1. last[m] = 0
        BY <2>0, <3>2
      <4>2. \A j \in 1 .. N : E[j].vector[m] = 0
        BY <1>3, <3>2 DEF Newest
      <4>3. \A c \in Stamp : Source(E, c) => c.vector[m] = 0
        BY <4>2 DEF Source, Unstamped
      <4>4. s.vector[m] = 0
        BY <1>6, <3>2, <4>3
      <4> QED BY <1>1, <1>2, <4>1, <4>2, <4>4
    <3>3. CASE m # n /\ obj.last[m] # 0
      <4> DEFINE k == obj.last[m]
                 top == E[k].vector[m]
      <4>1. last[m] = k /\ k \in 1 .. N /\ last[m] # 0
        BY <1>3, <2>0, <3>3 DEF Newest
      <4>2. \A j \in 1 .. N : E[j].vector[m] <= top
        BY <1>3, <3>3 DEF Newest
      <4>3. top \in Nat
        BY <1>0, <4>1, StampFields
      <4>4. \A c \in Stamp : Source(E, c) => c.vector[m] <= top
        BY <4>2, <4>3 DEF Source, Unstamped
      <4>5. F[k] = E[k]
        BY <1>1, <4>1
      <4> HIDE DEF k, top
      <4>6. s.vector[m] <= top
        <5>1. a.vector[m] <= top /\ b.vector[m] <= top
          BY <1>6, <4>4
        <5>2. s.vector[m] = a.vector[m] \/ s.vector[m] = b.vector[m]
          <6> DEFINE x == a.vector[m]
                     y == b.vector[m]
          <6>1. x \in Nat /\ y \in Nat
            BY <1>7
          <6>2. s.vector[m] = (IF x <= y THEN y ELSE x) + 0
            BY <3>3
          <6> HIDE DEF x, y
          <6>3. s.vector[m] = x \/ s.vector[m] = y
            BY <6>1, <6>2
          <6> QED BY <6>3 DEF x, y
        <5> QED BY <5>1, <5>2
      <4>7. F[i].vector[m] <= top
        BY <1>1, <1>2, <4>2, <4>6
      <4>8. F[last[m]].vector[m] = top
        BY <4>1, <4>5 DEF top
      <4> QED BY <4>1, <4>7, <4>8
    <3> QED BY <3>1, <3>2, <3>3
  <2> HIDE DEF id
  <2> QED BY <2>1, <2>2, <2>3 DEF Newest, last
<1> QED BY <1>16, <1>17, <1>18 DEF Clocks, F

\* A hybrid clock's tick comes after what it had.
LEMMA HlcTickIsAfter ==
  ASSUME NEW h \in Nat \X Nat, NEW wall \in Nat, NEW top \in Nat, h[1] <= top, wall <= top
  PROVE  /\ Types!HlcTick(h, wall) \in Nat \X Nat /\ Types!HlcTick(h, wall)[1] <= top
         /\ Types!HlcBefore(h, Types!HlcTick(h, wall))
<1> DEFINE t == Types!HlcTick(h, wall)
<1>1. h[1] \in Nat /\ h[2] \in Nat
  OBVIOUS
<1>2. t = IF wall > h[1] THEN <<wall, 0>> ELSE <<h[1], h[2] + 1>>
  BY DEF Types!HlcTick
<1> HIDE DEF t
<1>3. CASE wall > h[1]
  <2>1. t = <<wall, 0>> /\ t[1] = wall
    BY <1>2, <1>3
  <2> QED BY <1>1, <1>3, <2>1 DEF Types!HlcBefore, t
<1>4. CASE ~ (wall > h[1])
  <2>1. t = <<h[1], h[2] + 1>> /\ t[1] = h[1] /\ t[2] = h[2] + 1
    BY <1>2, <1>4
  <2>2. h[2] < h[2] + 1 /\ h[2] + 1 \in Nat
    BY <1>1
  <2> QED BY <1>1, <2>1, <2>2 DEF Types!HlcBefore, t
<1> QED BY <1>3, <1>4

\* The greatest of three.
LEMMA GreatestOfThree ==
  ASSUME NEW a \in Nat, NEW b \in Nat, NEW c \in Nat
  PROVE  LET m == Types!Max({a, b, c})
         IN  m \in {a, b, c} /\ m \in Nat /\ a <= m /\ b <= m /\ c <= m
<1>1. Types!Max({a, b, c}) = Max({a, b, c})
  BY DEF Max, Types!Max
<1>2. \A y \in {a, b, c} : y <= a + b + c
  OBVIOUS
<1>3. Max({a, b, c}) \in {a, b, c} /\ \A y \in {a, b, c} : y <= Max({a, b, c})
  BY <1>2, MaxOfNaturals
<1> QED BY <1>1, <1>3

\* What a hybrid clock has on receiving comes after what it had and what came.
LEMMA HlcReceiveIsAfter ==
  ASSUME NEW h \in Nat \X Nat, NEW msg \in Nat \X Nat, NEW wall \in Nat, NEW top \in Nat,
         h[1] <= top, msg[1] <= top, wall <= top
  PROVE  LET t == Types!HlcReceive(h, wall, msg)
         IN  /\ t \in Nat \X Nat /\ t[1] <= top
             /\ Types!HlcBefore(h, t) /\ Types!HlcBefore(msg, t)
<1> DEFINE p == Types!Max({h[1], msg[1], wall})
           g == Types!Max({h[2], msg[2]})
           t == Types!HlcReceive(h, wall, msg)
<1>1. h[1] \in Nat /\ h[2] \in Nat /\ msg[1] \in Nat /\ msg[2] \in Nat
  OBVIOUS
<1>2. p \in {h[1], msg[1], wall} /\ p \in Nat /\ h[1] <= p /\ msg[1] <= p /\ wall <= p
  BY <1>1, GreatestOfThree
<1>3. g \in Nat /\ h[2] <= g /\ msg[2] <= g
  BY <1>1, TypesGreater
<1>4. t = <<p, CASE p = h[1] /\ p = msg[1] -> g + 1
                 [] p = h[1] /\ p # msg[1] -> h[2] + 1
                 [] p # h[1] /\ p = msg[1] -> msg[2] + 1
                 [] OTHER -> 0>>
  BY DEF Types!HlcReceive
<1> HIDE DEF p, g, t
<1>5. PICK k \in Nat : /\ t = <<p, k>>
                       /\ p = h[1] => h[2] < k
                       /\ p = msg[1] => msg[2] < k
  <2>1. CASE p = h[1] /\ p = msg[1]
    <3>1. t = <<p, g + 1>>
      BY <1>4, <2>1
    <3>2. g + 1 \in Nat /\ h[2] < g + 1 /\ msg[2] < g + 1
      BY <1>1, <1>3
    <3> QED BY <3>1, <3>2
  <2>2. CASE p = h[1] /\ p # msg[1]
    <3>1. t = <<p, h[2] + 1>>
      BY <1>4, <2>2
    <3>2. h[2] + 1 \in Nat /\ h[2] < h[2] + 1
      BY <1>1
    <3> QED BY <2>2, <3>1, <3>2
  <2>3. CASE p # h[1] /\ p = msg[1]
    <3>1. t = <<p, msg[2] + 1>>
      BY <1>4, <2>3
    <3>2. msg[2] + 1 \in Nat /\ msg[2] < msg[2] + 1
      BY <1>1
    <3> QED BY <2>3, <3>1, <3>2
  <2>4. CASE p # h[1] /\ p # msg[1]
    <3>1. t = <<p, 0>>
      BY <1>4, <2>4
    <3> QED BY <2>4, <3>1
  <2> QED BY <2>1, <2>2, <2>3, <2>4
<1>6. t \in Nat \X Nat /\ t[1] = p /\ t[2] = k
  BY <1>2, <1>5
<1>7. p <= top
  BY <1>2
<1>8. h[1] < p \/ (h[1] = p /\ h[2] < k)
  BY <1>1, <1>2, <1>5
<1>9. msg[1] < p \/ (msg[1] = p /\ msg[2] < k)
  BY <1>1, <1>2, <1>5
<1>10. Types!HlcBefore(h, t) /\ Types!HlcBefore(msg, t)
  BY <1>6, <1>8, <1>9 DEF Types!HlcBefore
<1> QED BY <1>6, <1>7, <1>10 DEF t

\* The latest stamp of a node.
LEMMA LatestIs ==
  ASSUME Clocks, NEW n \in Nodes
  PROVE  LET a == Types!Latest(obj, n)
         IN  /\ a \in Stamp /\ a.hlc[1] <= obj.wall /\ Source(obj.events, a)
             /\ obj.last[n] = 0 => Unstamped(a)
             /\ obj.last[n] # 0 => a = obj.events[obj.last[n]]
<1> DEFINE a == Types!Latest(obj, n)
<1>0. /\ obj.last \in [Nodes -> Nat] /\ obj.wall \in Nat
      /\ \A i \in 1 .. Len(obj.events) : obj.events[i] \in Stamp
  BY ClocksFields DEF Clocks
<1>1. CASE obj.last[n] = 0
  <2> DEFINE zero == [m \in Nodes |-> 0]
             pair == <<0, 0>>
  <2>1. a = [lamport |-> 0, vector |-> zero, hlc |-> pair, past |-> {}]
    BY <1>1 DEF Types!Latest, Types!ZERO
  <2>2. zero \in [Nodes -> Nat] /\ pair \in Nat \X Nat /\ pair[1] = 0 /\ \A m \in Nodes : zero[m] = 0
    OBVIOUS
  <2> HIDE DEF zero, a
  <2>3. a.lamport = 0 /\ a.vector = zero /\ a.hlc = <<0, 0>> /\ a.past = {} /\ a \in Stamp
    BY <2>1, <2>2 DEF Stamp
  <2>4. Unstamped(a) /\ a.hlc[1] <= obj.wall
    BY <1>0, <2>2, <2>3 DEF Unstamped
  <2> QED BY <1>1, <2>3, <2>4 DEF Source, a
<1>2. CASE obj.last[n] # 0
  <2> DEFINE k == obj.last[n]
             e == obj.events[k]
  <2>1. k \in 1 .. Len(obj.events)
    BY <1>2 DEF Clocks, Newest
  <2>2. e \in Stamp
    BY <1>0, <2>1
  <2>3. e = [f \in {"lamport", "vector", "hlc", "past"} |-> e[f]]
    <3> HIDE DEF e
    <3> QED BY <2>2 DEF Stamp
  <2>4. DOMAIN Types!ZERO = {"lamport", "vector", "hlc", "past"}
    BY DEF Types!ZERO
  <2>5. a = [f \in DOMAIN Types!ZERO |-> e[f]]
    BY <1>2 DEF Types!Latest
  <2>6. a = e
    <3> HIDE DEF e, a
    <3> QED BY <2>3, <2>4, <2>5
  <2>7. e.hlc[1] <= obj.wall
    BY <2>1 DEF Clocks, Placed
  <2>8. Source(obj.events, e)
    BY <2>1 DEF Source
  <2> HIDE DEF a
  <2> QED BY <1>2, <2>2, <2>6, <2>7, <2>8 DEF a
<1> QED BY <1>1, <1>2

\* The record after an event.
LEMMA HappenFrame ==
  ASSUME obj \in ClocksRecord, NEW n \in Nodes, NEW stamp, NEW wall \in Nat, NEW s \in Stamp,
         s = [stamp EXCEPT !.past = @ \cup {Len(obj.events) + 1}],
         Types!Happen(n, stamp, wall)
  PROVE  /\ obj' \in ClocksRecord /\ obj'.events = Append(obj.events, s) /\ obj'.wall = wall
         /\ \A m \in Nodes : obj'.last[m] = IF m = n THEN Len(obj.events) + 1 ELSE obj.last[m]
<1>0. /\ obj.events \in Seq(Stamp) /\ obj.last \in [Nodes -> Nat] /\ Len(obj.events) \in Nat
  BY ClocksFields
<1> DEFINE last == [obj.last EXCEPT ![n] = Len(obj.events) + 1]
           events == Append(obj.events, s)
<1>1. obj' = [obj EXCEPT !.last = last, !.wall = wall, !.events = events]
  BY Zenon DEF Types!Happen
<1>2. /\ last \in [Nodes -> Nat] /\ events \in Seq(Stamp)
      /\ \A m \in Nodes : last[m] = IF m = n THEN Len(obj.events) + 1 ELSE obj.last[m]
  BY <1>0
<1> HIDE DEF last, events
<1>3. obj' \in ClocksRecord /\ obj'.events = events /\ obj'.wall = wall /\ obj'.last = last
  BY <1>1, <1>2 DEF ClocksRecord
<1> QED BY <1>2, <1>3 DEF events

\* A stamp has the four fields.
LEMMA StampIsRecord ==
  ASSUME NEW a \in Stamp
  PROVE  a = [lamport |-> a.lamport, vector |-> a.vector, hlc |-> a.hlc, past |-> a.past]
BY DEF Stamp

\* An event of a node's own.
LEMMA LocalEventStep ==
  ASSUME TypeConstants, Clocks, NEW n \in Nodes, NEW wall \in 0 .. MaxWall, Types!LocalEvent(n, wall)
  PROVE  Clocks'
<1> DEFINE a == Types!Latest(obj, n)
           id == Len(obj.events) + 1
           top == Types!Max({obj.wall, wall})
           vector == [a.vector EXCEPT ![n] = a.vector[n] + 1]
           hlc == Types!HlcTick(a.hlc, wall)
           past == a.past \cup {id}
           stamp == [lamport |-> a.lamport + 1, vector |-> vector, hlc |-> hlc, past |-> a.past]
           s == [lamport |-> a.lamport + 1, vector |-> vector, hlc |-> hlc, past |-> past]
<1>0. /\ obj \in ClocksRecord /\ obj.wall \in Nat /\ wall \in Nat /\ id \in Nat
  BY ClocksFields DEF Clocks, TypeConstants
<1>1. /\ a \in Stamp /\ a.hlc[1] <= obj.wall /\ Source(obj.events, a)
      /\ obj.last[n] = 0 => Unstamped(a)
      /\ obj.last[n] # 0 => a = obj.events[obj.last[n]]
  BY LatestIs
<1>2. top \in Nat /\ obj.wall <= top /\ wall <= top
  BY <1>0, TypesGreater
<1>3. Types!Happen(n, [a EXCEPT !.lamport = @ + 1, !.vector[n] = @ + 1,
                                !.hlc = Types!HlcTick(@, wall)], top)
  BY Zenon DEF Types!LocalEvent
<1> HIDE DEF a, top, id
<1>4. /\ a.lamport \in Nat /\ a.vector \in [Nodes -> Nat] /\ a.hlc \in Nat \X Nat
      /\ a.past \subseteq Nat /\ a.hlc[1] \in Nat
      /\ a = [lamport |-> a.lamport, vector |-> a.vector, hlc |-> a.hlc, past |-> a.past]
  BY <1>1, StampFields, StampIsRecord
<1>5. a.hlc[1] <= top
  BY <1>0, <1>1, <1>2, <1>4
<1>6. hlc \in Nat \X Nat /\ hlc[1] <= top /\ Types!HlcBefore(a.hlc, hlc)
  BY <1>0, <1>2, <1>4, <1>5, HlcTickIsAfter
<1>7. /\ vector \in [Nodes -> Nat]
      /\ \A m \in Nodes : vector[m] = a.vector[m] + (IF m = n THEN 1 ELSE 0)
  BY <1>4
<1>8. [a EXCEPT !.lamport = @ + 1, !.vector[n] = @ + 1, !.hlc = Types!HlcTick(@, wall)] = stamp
  <2> DEFINE l == a.lamport + 1
             a1 == [a EXCEPT !.lamport = l]
             a2 == [a1 EXCEPT !.vector = vector]
             a3 == [a2 EXCEPT !.hlc = hlc]
  <2> HIDE DEF l, hlc, vector
  <2>1. a1 = [lamport |-> l, vector |-> a.vector, hlc |-> a.hlc, past |-> a.past]
    BY <1>4
  <2>2. a1.vector = a.vector
    BY <2>1
  <2> HIDE DEF a1
  <2>3. a2 = [lamport |-> l, vector |-> vector, hlc |-> a.hlc, past |-> a.past]
    BY <2>1
  <2> HIDE DEF a2
  <2>4. a3 = [lamport |-> l, vector |-> vector, hlc |-> hlc, past |-> a.past]
    BY <2>3
  <2>5. [a EXCEPT !.lamport = @ + 1, !.vector[n] = @ + 1, !.hlc = Types!HlcTick(@, wall)]
          = [[a1 EXCEPT !.vector = [a1.vector EXCEPT ![n] = a.vector[n] + 1]] EXCEPT !.hlc = hlc]
    BY Zenon DEF a1, l, hlc
  <2>6. [a1.vector EXCEPT ![n] = a.vector[n] + 1] = vector
    BY <2>2 DEF vector
  <2> QED BY <2>4, <2>5, <2>6 DEF a2, l
<1>9. s = [stamp EXCEPT !.past = @ \cup {id}]
  <2> HIDE DEF vector, hlc
  <2> QED OBVIOUS
<1>10. /\ s \in Stamp /\ s.lamport = a.lamport + 1 /\ s.vector = vector /\ s.hlc = hlc /\ s.past = past
  <2> HIDE DEF vector, hlc
  <2>1. a.lamport + 1 \in Nat /\ past \subseteq Nat
    BY <1>0, <1>4
  <2> HIDE DEF past
  <2> QED BY <1>6, <1>7, <2>1 DEF Stamp
<1> HIDE DEF s, stamp, hlc, vector
<1>11. Types!Happen(n, stamp, top)
  BY <1>3, <1>8
<1>12. s = [stamp EXCEPT !.past = @ \cup {Len(obj.events) + 1}]
  BY <1>9 DEF id
<1>13. /\ obj' \in ClocksRecord /\ obj'.events = Append(obj.events, s) /\ obj'.wall = top
       /\ \A m \in Nodes : obj'.last[m] = IF m = n THEN Len(obj.events) + 1 ELSE obj.last[m]
  BY <1>0, <1>2, <1>10, <1>11, <1>12, HappenFrame
<1>14. s.lamport > a.lamport
  BY <1>4, <1>10
<1>15. s.past = a.past \cup a.past \cup {Len(obj.events) + 1}
  BY <1>10 DEF id
<1>16. \A m \in Nodes : s.vector[m] = (IF a.vector[m] <= a.vector[m] THEN a.vector[m] ELSE a.vector[m])
                                        + (IF m = n THEN 1 ELSE 0)
  BY <1>7, <1>10
<1> QED BY <1>1, <1>2, <1>6, <1>10, <1>13, <1>14, <1>15, <1>16, EventAdded

\* An event on receiving a message.
LEMMA ReceiveEventStep ==
  ASSUME TypeConstants, Clocks, NEW n \in Nodes, NEW wall \in 0 .. MaxWall, NEW sent,
         Types!ReceiveEvent(n, sent, wall)
  PROVE  Clocks'
<1> DEFINE a == Types!Latest(obj, n)
           b == obj.events[sent]
           id == Len(obj.events) + 1
           top == Types!Max({obj.wall, wall})
           lamport == Types!Max({a.lamport, b.lamport}) + 1
           vector == [m \in Nodes |-> Types!Max({a.vector[m], b.vector[m]}) + (IF m = n THEN 1 ELSE 0)]
           hlc == Types!HlcReceive(a.hlc, wall, b.hlc)
           past == a.past \cup b.past \cup {id}
           stamp == [lamport |-> lamport, vector |-> vector, hlc |-> hlc, past |-> a.past \cup b.past]
           s == [lamport |-> lamport, vector |-> vector, hlc |-> hlc, past |-> past]
<1>0. /\ obj \in ClocksRecord /\ obj.wall \in Nat /\ wall \in Nat /\ id \in Nat
  BY ClocksFields DEF Clocks, TypeConstants
<1>1. /\ a \in Stamp /\ a.hlc[1] <= obj.wall /\ Source(obj.events, a)
      /\ obj.last[n] = 0 => Unstamped(a)
      /\ obj.last[n] # 0 => a = obj.events[obj.last[n]]
  BY LatestIs
<1>2. b \in Stamp /\ Source(obj.events, b) /\ b.hlc[1] <= obj.wall
  <2>1. sent \in 1 .. Len(obj.events)
    BY ClocksFields DEF Types!ReceiveEvent, Clocks
  <2>2. b \in Stamp
    BY <2>1, ClocksFields DEF Clocks
  <2> QED BY <2>1, <2>2 DEF Source, Clocks, Placed
<1>3. top \in Nat /\ obj.wall <= top /\ wall <= top
  BY <1>0, TypesGreater
<1>4. Types!Happen(n, stamp, top)
  BY Zenon DEF Types!ReceiveEvent
<1> HIDE DEF a, b, top, id
<1>5. /\ a.lamport \in Nat /\ a.vector \in [Nodes -> Nat] /\ a.hlc \in Nat \X Nat
      /\ a.past \subseteq Nat /\ a.hlc[1] \in Nat /\ \A m \in Nodes : a.vector[m] \in Nat
  BY <1>1, StampFields
<1>6. /\ b.lamport \in Nat /\ b.vector \in [Nodes -> Nat] /\ b.hlc \in Nat \X Nat
      /\ b.past \subseteq Nat /\ b.hlc[1] \in Nat /\ \A m \in Nodes : b.vector[m] \in Nat
  BY <1>2, StampFields
<1>7. a.hlc[1] <= top /\ b.hlc[1] <= top
  <2> DEFINE x == a.hlc[1]
             y == b.hlc[1]
  <2>1. x \in Nat /\ y \in Nat /\ x <= obj.wall /\ y <= obj.wall
    BY <1>1, <1>2, <1>5, <1>6
  <2> HIDE DEF x, y
  <2>2. x <= top /\ y <= top
    BY <1>0, <1>3, <2>1
  <2> QED BY <2>2 DEF x, y
<1>8. hlc \in Nat \X Nat /\ hlc[1] <= top /\ Types!HlcBefore(a.hlc, hlc) /\ Types!HlcBefore(b.hlc, hlc)
  BY <1>0, <1>3, <1>5, <1>6, <1>7, HlcReceiveIsAfter
<1>9. lamport \in Nat /\ lamport > a.lamport /\ lamport > b.lamport
  <2> DEFINE x == a.lamport
             y == b.lamport
             z == Types!Max({x, y})
  <2>1. x \in Nat /\ y \in Nat
    BY <1>5, <1>6
  <2> HIDE DEF x, y
  <2>2. z = IF x <= y THEN y ELSE x
    BY <2>1, TypesGreater
  <2> HIDE DEF z
  <2>3. z + 1 \in Nat /\ z + 1 > x /\ z + 1 > y
    BY <2>1, <2>2
  <2> QED BY <2>3 DEF x, y, z
<1>10. /\ vector \in [Nodes -> Nat]
       /\ \A m \in Nodes : vector[m] = (IF a.vector[m] <= b.vector[m] THEN b.vector[m] ELSE a.vector[m])
                                         + (IF m = n THEN 1 ELSE 0)
  <2>1. ASSUME NEW m \in Nodes
        PROVE  Types!Max({a.vector[m], b.vector[m]})
                 = IF a.vector[m] <= b.vector[m] THEN b.vector[m] ELSE a.vector[m]
    <3>1. a.vector[m] \in Nat /\ b.vector[m] \in Nat
      BY <1>5, <1>6
    <3> QED BY <3>1, TypesGreater
  <2>2. \A m \in Nodes : vector[m] = (IF a.vector[m] <= b.vector[m] THEN b.vector[m] ELSE a.vector[m])
                                       + (IF m = n THEN 1 ELSE 0)
    BY <2>1
  <2>3. \A m \in Nodes : vector[m] \in Nat
    <3> HIDE DEF vector
    <3> QED BY <1>5, <1>6, <2>2
  <2>4. vector = [m \in Nodes |-> vector[m]]
    OBVIOUS
  <2> HIDE DEF vector
  <2> QED BY <2>2, <2>3, <2>4
<1> HIDE DEF lamport, vector, hlc
<1>11. s = [stamp EXCEPT !.past = @ \cup {id}]
  OBVIOUS
<1>12. s \in Stamp /\ s.lamport = lamport /\ s.vector = vector /\ s.hlc = hlc /\ s.past = past
  <2>1. past \subseteq Nat
    BY <1>0, <1>5, <1>6
  <2> HIDE DEF past
  <2> QED BY <1>8, <1>9, <1>10, <2>1 DEF Stamp
<1> HIDE DEF s, stamp
<1>13. s = [stamp EXCEPT !.past = @ \cup {Len(obj.events) + 1}]
  BY <1>11 DEF id
<1>14. /\ obj' \in ClocksRecord /\ obj'.events = Append(obj.events, s) /\ obj'.wall = top
       /\ \A m \in Nodes : obj'.last[m] = IF m = n THEN Len(obj.events) + 1 ELSE obj.last[m]
  BY <1>0, <1>3, <1>4, <1>12, <1>13, HappenFrame
<1>15. s.past = a.past \cup b.past \cup {Len(obj.events) + 1}
  BY <1>12 DEF id
<1>16. /\ s.lamport > a.lamport /\ s.lamport > b.lamport
       /\ Types!HlcBefore(a.hlc, s.hlc) /\ Types!HlcBefore(b.hlc, s.hlc) /\ s.hlc[1] <= top
       /\ \A m \in Nodes : s.vector[m] = (IF a.vector[m] <= b.vector[m] THEN b.vector[m] ELSE a.vector[m])
                                           + (IF m = n THEN 1 ELSE 0)
  BY <1>8, <1>9, <1>10, <1>12
<1> QED BY <1>1, <1>2, <1>3, <1>12, <1>14, <1>15, <1>16, EventAdded

\* An event that does not follow another counts fewer events of the other's node.
LEMMA NotCounted ==
  ASSUME NEW events \in Seq(Stamp), NEW by, Caused(events, by),
         NEW i \in 1 .. Len(events), NEW j \in 1 .. Len(events), i \notin events[j].past,
         by[i] \in Nodes
  PROVE  \E m \in Nodes : events[j].vector[m] < events[i].vector[m]
<1>1. ~ (events[i].vector[by[i]] <= events[j].vector[by[i]])
  BY DEF Caused
<1>2. events[i].vector[by[i]] \in Nat /\ events[j].vector[by[i]] \in Nat
  <2>1. events[i] \in Stamp /\ events[j] \in Stamp
    BY ElementOfSeq
  <2> QED BY <2>1, StampFields
<1>3. events[j].vector[by[i]] < events[i].vector[by[i]]
  BY <1>1, <1>2
<1> QED BY <1>3

\* The vector of an event and of one in its past: nothing is counted less.
LEMMA NotLess ==
  ASSUME NEW events \in Seq(Stamp), NEW by, Caused(events, by),
         NEW i \in 1 .. Len(events), NEW j \in 1 .. Len(events), i \in events[j].past
  PROVE  ~ \E m \in Nodes : events[j].vector[m] < events[i].vector[m]
<1> SUFFICES ASSUME NEW m \in Nodes PROVE ~ (events[j].vector[m] < events[i].vector[m])
  OBVIOUS
<1>1. events[i].vector[m] <= events[j].vector[m]
  BY DEF Caused
<1>2. events[i].vector[m] \in Nat /\ events[j].vector[m] \in Nat
  <2>1. events[i] \in Stamp /\ events[j] \in Stamp
    BY ElementOfSeq
  <2> QED BY <2>1, StampFields
<1> QED BY <1>1, <1>2

\* Every clock orders an effect after its cause, and the vector clock tells
\* exactly which events could not know of each other.
LEMMA ClocksPromise ==
  ASSUME Clocks
  PROVE  Types!ClocksFollowCauses
<1>0. /\ obj.events \in Seq(Stamp) /\ DOMAIN obj.events = 1 .. Len(obj.events)
      /\ Len(obj.events) \in Nat /\ Placed(obj.events, obj.wall)
  BY ClocksFields DEF Clocks
<1>1. PICK by : Caused(obj.events, by) /\ Newest(obj.events, obj.last, by)
  BY DEF Clocks
<1> SUFFICES ASSUME NEW i \in DOMAIN obj.events, NEW j \in DOMAIN obj.events, i # j
             PROVE  LET a == obj.events[i]
                        b == obj.events[j]
                    IN  /\ i \in b.past => a.lamport < b.lamport /\ Types!HlcBefore(a.hlc, b.hlc)
                        /\ Types!Compare(a.vector, b.vector) =
                             (IF i \in b.past THEN "before" ELSE IF j \in a.past THEN "after" ELSE "concurrent")
                        /\ a.hlc[1] <= obj.wall
  BY Zenon DEF Types!ClocksFollowCauses
<1> DEFINE a == obj.events[i]
           b == obj.events[j]
           less == \E m \in Nodes : a.vector[m] < b.vector[m]
           greater == \E m \in Nodes : b.vector[m] < a.vector[m]
<1>2. i \in 1 .. Len(obj.events) /\ j \in 1 .. Len(obj.events) /\ by[i] \in Nodes /\ by[j] \in Nodes
  BY <1>0, <1>1 DEF Newest
<1>3. a.hlc[1] <= obj.wall /\ a.past \subseteq 1 .. i /\ b.past \subseteq 1 .. j
  BY <1>0, <1>2 DEF Placed
<1>4. i \in b.past => a.lamport < b.lamport /\ Types!HlcBefore(a.hlc, b.hlc)
  BY <1>1, <1>2 DEF Caused
<1>5. ~ (i \in b.past /\ j \in a.past)
  BY <1>0, <1>2, <1>3
<1>6. i \in b.past <=> ~ greater
  BY <1>0, <1>1, <1>2, NotCounted, NotLess
<1>7. j \in a.past <=> ~ less
  BY <1>0, <1>1, <1>2, NotCounted, NotLess
<1>8. (\E m \in Nodes : a.vector[m] > b.vector[m]) <=> greater
  <2>1. a \in Stamp /\ b \in Stamp
    BY <1>0, <1>2, ElementOfSeq
  <2>2. \A m \in Nodes : a.vector[m] \in Nat /\ b.vector[m] \in Nat
    BY <2>1, StampFields
  <2>3. \A m \in Nodes : a.vector[m] > b.vector[m] <=> b.vector[m] < a.vector[m]
    BY <2>2
  <2> QED BY <2>3
<1> DEFINE more == \E m \in Nodes : a.vector[m] > b.vector[m]
<1>9. Types!Compare(a.vector, b.vector) =
        CASE less /\ more -> "concurrent" [] less /\ ~ more -> "before"
          [] ~ less /\ more -> "after" [] OTHER -> "equal"
  BY Zenon DEF Types!Compare
<1> HIDE DEF a, b, less, more, greater
<1>10. Types!Compare(a.vector, b.vector) =
         (IF i \in b.past THEN "before" ELSE IF j \in a.past THEN "after" ELSE "concurrent")
  <2> DEFINE before == i \in b.past
             after == j \in a.past
  <2>1. (before <=> ~ greater) /\ (after <=> ~ less) /\ (more <=> greater) /\ ~ (before /\ after)
    BY <1>5, <1>6, <1>7, <1>8 DEF more
  <2> HIDE DEF before, after
  <2>2. CASE before
    BY <1>9, <2>1, <2>2 DEF before
  <2>3. CASE after /\ ~ before
    BY <1>9, <2>1, <2>3 DEF before, after
  <2>4. CASE ~ after /\ ~ before
    BY <1>9, <2>1, <2>4 DEF before, after
  <2> QED BY <2>2, <2>3, <2>4
<1> QED BY <1>3, <1>4, <1>10 DEF a, b

----------------------------------------------------------------------------
\* What the theorem rests on, one alternative per type.
TypeInv == Counter \/ Register \/ ObservedSet \/ Clocks

\* The alternatives are told apart by the class.
LEMMA TypeKinds ==
  /\ Counter => obj.class = "counter"
  /\ Register => obj.class = "register"
  /\ ObservedSet => obj.class = "orset"
  /\ Clocks => obj.class = "clocks"
BY DEF Counter, CounterRecord, Register, RegisterRecord, ObservedSet, SetRecord, Clocks, ClocksRecord

\* An action is of one type; only putting a state into the mail is of three.
LEMMA TypeClasses ==
  ASSUME NEW n
  PROVE  /\ \A amount : Types!Increment(n, amount) => obj.class = "counter"
         /\ Types!MergeCounter(n) => obj.class = "counter"
         /\ \A ts : Types!WriteRegister(n, ts) => obj.class = "register"
         /\ Types!MergeRegister(n) => obj.class = "register"
         /\ \A e : Types!AddElement(n, e) \/ Types!RemoveElement(n, e) => obj.class = "orset"
         /\ Types!MergeSet(n) => obj.class = "orset"
         /\ Types!Post(n) => obj.class \in {"counter", "register", "orset"}
         /\ \A wall : Types!LocalEvent(n, wall) => obj.class = "clocks"
         /\ \A wall, sent : Types!ReceiveEvent(n, sent, wall) => obj.class = "clocks"
BY Zenon DEF Types!Increment, Types!MergeCounter, Types!WriteRegister, Types!MergeRegister,
   Types!AddElement, Types!RemoveElement, Types!MergeSet, Types!Post, Types!LocalEvent,
   Types!ReceiveEvent

\* The counter starts with nothing counted.
LEMMA CounterStart ==
  ASSUME Types!CounterInit
  PROVE  Counter
<1> DEFINE e == [m \in Nodes |-> 0]
           zero == [entries |-> e, seen |-> {}]
           at == [n \in Nodes |-> zero]
<1>1. obj = [class |-> "counter", at |-> at, mail |-> zero, made |-> 0]
  BY DEF Types!CounterInit
<1>2. e \in [Nodes -> Nat] /\ \A m \in Nodes : e[m] = 0
  OBVIOUS
<1> HIDE DEF e
<1>3. Tokens(Nodes, e) = {}
  <2> SUFFICES ASSUME NEW t \in Tokens(Nodes, e) PROVE FALSE
    OBVIOUS
  <2>1. t \in Nodes \X Nat /\ 1 <= t[2] /\ t[2] <= e[t[1]]
    BY DEF Tokens
  <2>2. t[1] \in Nodes /\ t[2] \in Nat /\ e[t[1]] = 0
    BY <1>2, <2>1
  <2> QED BY <2>1, <2>2
<1>4. zero \in CounterReplica /\ zero.seen = Tokens(Nodes, zero.entries)
  BY <1>2, <1>3 DEF CounterReplica
<1> HIDE DEF zero
<1>5. at \in [Nodes -> CounterReplica] /\ \A n \in Nodes : at[n] = zero
  BY <1>4
<1> HIDE DEF at
<1>6. obj \in CounterRecord /\ obj.at = at /\ obj.mail = zero
  BY <1>1, <1>4, <1>5 DEF CounterRecord
<1> QED BY <1>4, <1>5, <1>6 DEF Counter

\* The register starts unwritten.
LEMMA RegisterStart ==
  ASSUME Types!RegisterInit
  PROVE  Register
<1> DEFINE empty == [reg |-> NoWrite, seen |-> {}]
           at == [n \in Nodes |-> empty]
<1>1. obj = [class |-> "register", at |-> at, mail |-> empty, made |-> 0, tied |-> FALSE]
  BY DEF Types!RegisterInit, NoWrite
<1>3. /\ empty \in RegisterReplica /\ empty.seen = {} /\ empty.reg = NoWrite
  <2>1. NoWrite \in Written
    BY DEF NoWrite, Written
  <2> QED BY <2>1 DEF RegisterReplica
<1> HIDE DEF empty
<1>4. at \in [Nodes -> RegisterReplica] /\ \A n \in Nodes : at[n] = empty
  BY <1>3
<1> HIDE DEF at
<1>5. obj \in RegisterRecord /\ obj.at = at /\ obj.mail = empty
  BY <1>1, <1>3, <1>4 DEF RegisterRecord
<1>6. \A r \in StatesOf(obj) : r = empty
  BY <1>4, <1>5 DEF StatesOf
<1>7. HasNewest(empty) /\ Outranks(empty, obj.at) /\ Distinct(empty, empty)
  BY <1>3 DEF HasNewest, Outranks, Distinct
<1>8. \A r \in StatesOf(obj) : HasNewest(r) /\ Outranks(r, obj.at)
  BY <1>6, <1>7
<1>9. \A r, q \in StatesOf(obj) : Distinct(r, q)
  BY <1>6, <1>7
<1> QED BY <1>5, <1>8, <1>9 DEF Register

\* The set starts empty.
LEMMA SetStart ==
  ASSUME Types!SetInit
  PROVE  ObservedSet
<1> DEFINE adds == [e \in {"x", "y"} |-> {}]
           empty == [adds |-> adds, removes |-> {}, next |-> 0, seen |-> {}]
           at == [n \in Nodes |-> empty]
<1>1. obj = [class |-> "orset", at |-> at, mail |-> empty, made |-> 0]
  BY DEF Types!SetInit, Types!ELEMENTS
<1>2. adds \in [{"x", "y"} -> SUBSET Tag] /\ \A e \in {"x", "y"} : adds[e] = {}
  OBVIOUS
<1> HIDE DEF adds
<1>3. empty \in SetReplica /\ empty.seen = {} /\ empty.removes = {} /\ empty.adds = adds
  BY <1>2 DEF SetReplica
<1> HIDE DEF empty
<1>4. Observed(empty)
  BY <1>2, <1>3 DEF Observed
<1>5. at \in [Nodes -> SetReplica] /\ \A n \in Nodes : at[n] = empty
  BY <1>3
<1> HIDE DEF at
<1>6. obj \in SetRecord /\ obj.at = at /\ obj.mail = empty
  BY <1>1, <1>3, <1>5 DEF SetRecord
<1> QED BY <1>4, <1>5, <1>6 DEF ObservedSet

\* The clocks start before any event.
LEMMA ClocksStart ==
  ASSUME Types!ClocksInit
  PROVE  Clocks
<1> DEFINE last == [n \in Nodes |-> 0]
<1>1. obj = [class |-> "clocks", events |-> <<>>, last |-> last, wall |-> 0]
  BY DEF Types!ClocksInit
<1>2. last \in [Nodes -> Nat] /\ \A n \in Nodes : last[n] = 0
  OBVIOUS
<1> HIDE DEF last
<1>3. obj.events = << >> /\ obj.last = last /\ obj \in ClocksRecord
  BY <1>1, <1>2 DEF ClocksRecord
<1>4. ~ \E i : i \in 1 .. Len(obj.events)
  BY <1>3
<1>5. Placed(obj.events, obj.wall)
  BY <1>4 DEF Placed
<1>6. Caused(obj.events, last) /\ Newest(obj.events, obj.last, last)
  BY <1>2, <1>3, <1>4 DEF Caused, Newest
<1> QED BY <1>3, <1>5, <1>6 DEF Clocks

\* Every start is that of one of the types.
LEMMA TypeStarts ==
  ASSUME Types!Init
  PROVE  TypeInv
BY CounterStart, RegisterStart, SetStart, ClocksStart DEF Types!Init, TypeInv

\* A step of a type stays in the type's alternative.
LEMMA TypeSteps ==
  ASSUME TypeConstants, TypeInv, [Types!Next]_obj
  PROVE  TypeInv'
<1>1. CASE UNCHANGED obj
  BY <1>1 DEF TypeInv, Counter, Register, ObservedSet, Clocks
<1>2. ASSUME NEW n \in Nodes, Types!Post(n)
      PROVE  TypeInv'
  <2>1. Counter \/ Register \/ ObservedSet
    BY <1>2, TypeClasses, TypeKinds DEF TypeInv
  <2> QED BY <1>2, <2>1, PostCounterStep, PostRegisterStep, PostSetStep DEF TypeInv
<1>3. ASSUME NEW n \in Nodes, Types!MergeCounter(n) \/ \E amount \in 1 .. 2 : Types!Increment(n, amount)
      PROVE  TypeInv'
  <2>1. Counter
    BY <1>3, TypeClasses, TypeKinds DEF TypeInv
  <2> QED BY <1>3, <2>1, MergeCounterStep, IncrementStep DEF TypeInv
<1>4. ASSUME NEW n \in Nodes, Types!MergeRegister(n) \/ \E ts \in 1 .. MaxOps : Types!WriteRegister(n, ts)
      PROVE  TypeInv'
  <2>1. Register
    BY <1>4, TypeClasses, TypeKinds DEF TypeInv
  <2> QED BY <1>4, <2>1, MergeRegisterStep, WriteRegisterStep DEF TypeInv
<1>5. ASSUME NEW n \in Nodes,
             Types!MergeSet(n) \/ \E e \in {"x", "y"} : Types!AddElement(n, e) \/ Types!RemoveElement(n, e)
      PROVE  TypeInv'
  <2>1. ObservedSet
    BY <1>5, TypeClasses, TypeKinds DEF TypeInv
  <2> QED BY <1>5, <2>1, MergeSetStep, AddElementStep, RemoveElementStep DEF TypeInv
<1>6. ASSUME NEW n \in Nodes, NEW wall \in 0 .. MaxWall,
             Types!LocalEvent(n, wall) \/ \E sent \in 1 .. MaxEvents : Types!ReceiveEvent(n, sent, wall)
      PROVE  TypeInv'
  <2>1. Clocks
    BY <1>6, TypeClasses, TypeKinds DEF TypeInv
  <2> QED BY <1>6, <2>1, LocalEventStep, ReceiveEventStep DEF TypeInv
<1>7. CASE Types!TypesNext
  BY <1>2, <1>3, <1>4, <1>5, <1>7 DEF Types!TypesNext, Types!ELEMENTS
<1>8. CASE Types!ClocksNext
  BY <1>6, <1>8 DEF Types!ClocksNext
<1> QED BY <1>1, <1>7, <1>8 DEF Types!Next

\* The invariant says that replicas converge and that clocks follow causes.
LEMMA TypePromises ==
  ASSUME TypeConstants, TypeInv
  PROVE  TypesConverge
<1> USE DEF TypesConverge, Types!TypesConverge
<1>1. CASE Counter
  BY <1>1, CounterPromise, TypeKinds DEF Types!ClocksFollowCauses
<1>2. CASE Register
  BY <1>2, RegisterPromise, TypeKinds DEF Types!ClocksFollowCauses
<1>3. CASE ObservedSet
  BY <1>3, SetPromise, TypeKinds DEF Types!ClocksFollowCauses
<1>4. CASE Clocks
  BY <1>4, ClocksPromise, TypeKinds DEF Types!ReplicasConverge
<1> QED BY <1>1, <1>2, <1>3, <1>4 DEF TypeInv

(***************************************************************************)
(* For any finite set of replicas, any number of updates and events and    *)
(* any merging of old, repeated and reordered states: replicas of the      *)
(* counter and the set that reflect the same updates are equal and show    *)
(* what the updates mean; those of the register have the same, newest      *)
(* stamp, and are equal until a write ties with the register it            *)
(* overwrites; and the three clocks order every effect after its causes,   *)
(* the vector clock exactly.                                               *)
(***************************************************************************)
THEOREM TypesStayConvergent ==
  ASSUME TypeConstants
  PROVE  Types!Init /\ [][Types!Next]_obj => []TypesConverge
<1>1. Types!Init => TypeInv
  BY TypeStarts
<1>2. TypeInv /\ [Types!Next]_obj => TypeInv'
  BY TypeSteps
<1>3. TypeInv => TypesConverge
  BY TypePromises
<1> QED BY <1>1, <1>2, <1>3, PTL
=============================================================================
