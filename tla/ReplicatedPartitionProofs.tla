--------------------- MODULE ReplicatedPartitionProofs ---------------------
(***************************************************************************)
(* The replicated partition, for every set of brokers, every floor, lag    *)
(* and log length and any number of crashes.                               *)
(*                                                                         *)
(* Some facts hold whatever elections there are.  That nothing promised is *)
(* lost does not: run replica_diverges shows three epochs that lose it.    *)
(* It is proved for one clean failover.                                    *)
(***************************************************************************)
EXTENDS ReplicatedPartition, NaturalsOrder, SequenceTheorems, TLAPS

\* The hypothesis of the failover theorems: at most one election, and a clean one.
OneCleanFailover == MaxEpoch <= 2 /\ AllowUnclean = FALSE

(***************************************************************************)
(* Whatever the elections.  A cache starts its epochs in order and none    *)
(* beyond the end of its log.                                              *)
(***************************************************************************)
CacheAscends(cache, end) ==
  /\ \A i \in DOMAIN cache : cache[i][2] <= end
  /\ \A i, j \in DOMAIN cache : i < j => cache[i][1] < cache[j][1] /\ cache[i][2] <= cache[j][2]

\* Every broker's cache is in order.
CachesAscend == \A b \in Broker : CacheAscends(entries[b], LogEnd(b))

\* The types the steps keep; the bounds of TypeOK follow.
Types ==
  /\ log \in [Broker -> Seq(Epoch)]
  /\ entries \in [Broker -> Seq(Epoch \X Nat)]
  /\ epoch \in [Broker -> Epoch]
  /\ mode \in [Broker -> {"serving", "fetching", "stopped", "recovering", "down"}]
  /\ watermark \in [Broker -> Nat]
  /\ elector \in [epoch : Epoch, committed_offset : Nat]
  /\ leader_of \in [Epoch -> Broker \cup {None}]
  /\ in_sync \in SUBSET Broker
  /\ fetched \in [Broker -> Nat]
  /\ promised \in Seq(Epoch)
  /\ \A b \in Broker : LogEnd(b) <= MaxLog /\ fetched[b] <= MaxLog

\* A leader was elected for the epoch it serves at, and nobody is ahead of the elector.
Elected ==
  /\ CurrentLeader \in Broker
  /\ leader_of[1] \in Broker
  /\ \A b \in Broker : /\ epoch[b] <= elector.epoch
                       /\ mode[b] = "serving" => leader_of[epoch[b]] = b

\* What is promised is what the elector knows to be committed; no watermark is beyond.
Committed ==
  /\ Len(promised) = elector.committed_offset
  /\ elector.committed_offset <= MaxLog
  /\ \A b \in Broker : watermark[b] <= elector.committed_offset

\* The part of the invariant that any number of elections keeps.
AlwaysInv == Types /\ CachesAscend /\ Elected /\ Committed
----------------------------------------------------------------------------
(***************************************************************************)
(* One clean failover.  Log s and cache c have not met the second epoch.   *)
(***************************************************************************)
OldLog(s, c) ==
  /\ \A i \in DOMAIN s : s[i] = 1
  /\ c \in {<<>>, << <<1, 0>> >>}
  /\ s # <<>> => c = << <<1, 0>> >>

\* Log s and cache c of the second leader, whose epoch begins at start.
LeaderLog(s, c, start) ==
  /\ start <= Len(s)
  /\ \A i \in DOMAIN s : s[i] = IF i <= start THEN 1 ELSE 2
  /\ c = << <<1, 0>>, <<2, start>> >> \/ (start = 0 /\ c = << <<2, 0>> >>)

\* The cache of a follower with the first n records of the second leader's log.
CacheOf(n, start) ==
  IF n = 0 THEN <<>>
  ELSE IF n <= start THEN << <<1, 0>> >>
  ELSE IF start = 0 THEN << <<2, 0>> >>
  ELSE << <<1, 0>>, <<2, start>> >>

\* Log s and cache c of a follower in line with the second leader's log.
NewLog(s, c, lead, start) ==
  /\ Len(s) <= Len(lead)
  /\ \A i \in DOMAIN s : s[i] = lead[i]
  /\ c = CacheOf(Len(s), start)

\* The leader of the second epoch serves, or has served.
Failover == elector.epoch = 2 /\ epoch[leader_of[2]] = 2

\* Where the second epoch begins.
Start2 == Last(entries[leader_of[2]])[2]

\* Before the second leader serves, everything is of the first epoch, and the elected
\* leader holds what is promised.
BeforeInv ==
  /\ \A b \in Broker : /\ OldLog(log[b], entries[b])
                       /\ mode[b] = "fetching" => epoch[b] = 1
  /\ Len(promised) <= LogEnd(CurrentLeader)
  /\ \A i \in DOMAIN promised : promised[i] = 1

\* Broker b is still at the first epoch's log, and exposes nothing of the second.
IsOld(b) == OldLog(log[b], entries[b]) /\ watermark[b] <= Start2

\* Broker b is in line with the second leader.
IsNew(b) == NewLog(log[b], entries[b], log[leader_of[2]], Start2)

\* From then on the promises are the second leader's, and a broker is either old or in
\* line; it fetches at the second epoch only when it is in line.
AfterInv ==
  /\ LeaderLog(log[leader_of[2]], entries[leader_of[2]], Start2)
  /\ mode[leader_of[2]] \in {"serving", "down", "recovering"}
  /\ Len(promised) <= LogEnd(leader_of[2])
  /\ \A i \in DOMAIN promised : promised[i] = log[leader_of[2]][i]
  /\ \A b \in Broker \ {leader_of[2]} :
       /\ IsOld(b) \/ IsNew(b)
       /\ epoch[b] = 1 \/ mode[b] = "stopped" => IsOld(b)
       /\ mode[b] = "fetching" /\ epoch[b] = 2 => IsNew(b)

\* While the first leader is at its epoch, no log of that epoch is longer than its own.
FirstLeads ==
  epoch[leader_of[1]] = 1 =>
    /\ entries[leader_of[1]] = << <<1, 0>> >>
    /\ \A b \in Broker : epoch[b] = 1 => LogEnd(b) <= LogEnd(leader_of[1])

\* The inductive invariant of one clean failover.
FailoverInv ==
  /\ AlwaysInv
  /\ FirstLeads
  /\ \A b \in Broker : mode[b] = "stopped" => epoch[b] = 2
  /\ ~ Failover => BeforeInv
  /\ Failover => AfterInv
----------------------------------------------------------------------------
(***************************************************************************)
(* The operators the steps use.                                            *)
(***************************************************************************)

\* The lesser of two naturals.
LEMMA MinOfTwo ==
  ASSUME NEW a \in Nat, NEW b \in Nat
  PROVE  Min({a, b}) = IF a <= b THEN a ELSE b
<1>1. {a, b} \in SUBSET Nat /\ {a, b} # {}
  OBVIOUS
<1>2. Min({a, b}) \in {a, b} /\ \A y \in {a, b} : Min({a, b}) <= y
  BY <1>1, MinOfNaturals
<1> QED BY <1>2

\* The least of three naturals.
LEMMA MinOfThree ==
  ASSUME NEW a \in Nat, NEW b \in Nat, NEW c \in Nat
  PROVE  /\ Min({a, b, c}) \in {a, b, c}
         /\ Min({a, b, c}) <= a /\ Min({a, b, c}) <= b /\ Min({a, b, c}) <= c
<1>1. {a, b, c} \in SUBSET Nat /\ {a, b, c} # {}
  OBVIOUS
<1> QED BY <1>1, MinOfNaturals

\* The entries kept are those that start below the cut, in their places.
LEMMA KeptBelowIs ==
  ASSUME NEW cache \in Seq(Epoch \X Nat), NEW end \in Nat, CacheAscends(cache, end),
         NEW to \in Nat
  PROVE  LET kept == KeptBelow(cache, to)
         IN  /\ kept \in Seq(Epoch \X Nat)
             /\ Len(kept) <= Len(cache)
             /\ \A i \in 1 .. Len(kept) : kept[i] = cache[i] /\ cache[i][2] < to
             /\ \A i \in DOMAIN cache : cache[i][2] < to => i <= Len(kept)
<1> DEFINE Below == {0} \cup {i \in DOMAIN cache : cache[i][2] < to}
           n     == Max(Below)
<1>0. Len(cache) \in Nat /\ DOMAIN cache = 1 .. Len(cache)
  OBVIOUS
<1>1. Below \in SUBSET Nat /\ Below # {} /\ \A y \in Below : y <= Len(cache)
  BY <1>0
<1>2. n \in Below /\ \A y \in Below : y <= n
  <2> HIDE DEF Below
  <2> QED BY <1>0, <1>1, MaxOfNaturals
<1>3. n \in 0 .. Len(cache) /\ (n > 0 => cache[n][2] < to)
      /\ \A i \in DOMAIN cache : cache[i][2] < to => i <= n
  BY <1>2
<1> HIDE DEF n
<1>4. \A i \in 1 .. n : cache[i][2] < to
  <2> SUFFICES ASSUME NEW i \in 1 .. n PROVE cache[i][2] < to
    OBVIOUS
  <2>1. i \in DOMAIN cache /\ n \in DOMAIN cache /\ cache[n][2] < to
    BY <1>3
  <2>2. cache[i][2] \in Nat /\ cache[n][2] \in Nat
    BY <2>1
  <2>3. i < n => cache[i][2] <= cache[n][2]
    BY <2>1 DEF CacheAscends
  <2>4. i < n \/ i = n
    BY <1>3
  <2>5. CASE i = n
    BY <2>1, <2>5
  <2>6. CASE i < n
    BY <2>1, <2>2, <2>3, <2>6
  <2> QED BY <2>4, <2>5, <2>6
<1>5. KeptBelow(cache, to) = SubSeq(cache, 1, n)
  BY DEF KeptBelow, n
<1>6. /\ SubSeq(cache, 1, n) \in Seq(Epoch \X Nat)
      /\ Len(SubSeq(cache, 1, n)) = n
      /\ \A i \in 1 .. n : SubSeq(cache, 1, n)[i] = cache[i]
  BY <1>3, SubSeqProperties
<1> QED BY <1>3, <1>4, <1>5, <1>6

\* A cut log keeps its first records.
LEMMA CutIs ==
  ASSUME NEW S, NEW s \in Seq(S), NEW to \in 0 .. Len(s)
  PROVE  /\ SubSeq(s, 1, to) \in Seq(S)
         /\ Len(SubSeq(s, 1, to)) = to
         /\ \A i \in 1 .. to : SubSeq(s, 1, to)[i] = s[i]
BY SubSeqProperties

\* The minimum over the in-sync set is within the leader's log.
LEMMA InSyncMinimumIs ==
  ASSUME Types, NEW leader \in Broker
  PROVE  InSyncMinimum(leader) \in 0 .. LogEnd(leader)
<1> DEFINE S == {LogEnd(leader)} \cup {fetched[b] : b \in in_sync \ {leader}}
<1>1. LogEnd(leader) \in Nat /\ S \in SUBSET Nat /\ LogEnd(leader) \in S
  BY DEF Types, LogEnd
<1>2. Min(S) \in S /\ \A y \in S : Min(S) <= y
  <2> HIDE DEF S
  <2> QED BY <1>1, MinOfNaturals
<1>3. Min(S) \in Nat /\ Min(S) <= LogEnd(leader)
  <2> HIDE DEF S
  <2> QED BY <1>1, <1>2
<1> QED BY <1>1, <1>3 DEF InSyncMinimum

\* A follower never cuts to beyond its end, in the handshake...
LEMMA TruncationPointIs ==
  ASSUME Types, NEW b \in Broker, NEW leader \in Broker
  PROVE  TruncationPoint(b, leader) \in 0 .. LogEnd(b)
<1>1. LogEnd(b) \in Nat /\ LogEnd(leader) \in Nat
  BY DEF Types, LogEnd
<1>2. ASSUME NEW e PROVE EndOffsetFor(leader, e) \in Nat
  <2> DEFINE later == {i \in DOMAIN entries[leader] : entries[leader][i][1] > e}
  <2>1. entries[leader] \in Seq(Epoch \X Nat)
    BY DEF Types
  <2>2. CASE later = {}
    BY <1>1, <2>2 DEF EndOffsetFor
  <2>3. CASE later # {}
    <3>1. later \in SUBSET Nat
      BY <2>1
    <3>2. Min(later) \in later
      <4> HIDE DEF later
      <4> QED BY <2>3, <3>1, MinOfNaturals
    <3>3. \A i \in later : entries[leader][i][2] \in Nat
      BY <2>1
    <3>4. entries[leader][Min(later)][2] \in Nat
      <4> HIDE DEF later
      <4> QED BY <3>2, <3>3
    <3> QED BY <2>3, <3>4 DEF EndOffsetFor
  <2> QED BY <2>2, <2>3
<1> QED BY <1>1, <1>2, MinOfTwo DEF TruncationPoint

\* ...or in recovery.
LEMMA RecoverToIs ==
  ASSUME Types, NEW b \in Broker, NEW leader \in Broker
  PROVE  RecoverTo(b, leader) \in 0 .. LogEnd(b)
<1>1. LogEnd(b) \in Nat /\ LogEnd(leader) \in Nat
  BY DEF Types, LogEnd
<1>2. entries[b] \in Seq(Epoch \X Nat) /\ entries[leader] \in Seq(Epoch \X Nat)
  BY DEF Types
<1>3. DivergePoint(b, leader) \in Nat
  <2> DEFINE A == AgreedMarkers(b, leader)
  <2>1. CASE A = {}
    BY <2>1 DEF DivergePoint
  <2>2. CASE A # {}
    <3> DEFINE n == Max(A)
               j == CHOOSE j \in DOMAIN entries[leader] : entries[leader][j] = entries[b][n]
    <3>1. A \in SUBSET Nat /\ \A y \in A : y <= Len(entries[b])
      BY <1>2 DEF AgreedMarkers
    <3>2. n \in A
      <4>1. Len(entries[b]) \in Nat
        BY <1>2
      <4> HIDE DEF A
      <4> QED BY <2>2, <3>1, <4>1, MaxOfNaturals
    <3>3. \E k \in DOMAIN entries[leader] : entries[leader][k] = entries[b][n]
      <4>1. \A m \in A : \E k \in DOMAIN entries[leader] : entries[leader][k] = entries[b][m]
        <5> SUFFICES ASSUME NEW m \in A
                     PROVE  \E k \in DOMAIN entries[leader] : entries[leader][k] = entries[b][m]
          OBVIOUS
        <5>1. m \in DOMAIN entries[b]
              /\ \A i \in 1 .. m : \E k \in DOMAIN entries[leader] : entries[leader][k] = entries[b][i]
          BY Zenon DEF AgreedMarkers
        <5>2. m \in 1 .. m
          BY <1>2, <5>1
        <5> QED BY <5>1, <5>2, Zenon
      <4> HIDE DEF A
      <4> QED BY <3>2, <4>1
    <3>4. j \in DOMAIN entries[leader]
      <4> HIDE DEF n
      <4> QED BY <3>3
    <3>5. EpochEnd(b, leader, j) \in Nat
      <4> HIDE DEF j
      <4> QED BY <1>1, <1>2, <3>4 DEF EpochEnd
    <3> QED BY <2>2, <3>5 DEF DivergePoint
  <2> QED BY <2>1, <2>2
<1> HIDE DEF LogEnd
<1> QED BY <1>1, <1>3, MinOfThree DEF RecoverTo

\* An entry assigned at the end of the log keeps the cache in order.
LEMMA AssignedAscends ==
  ASSUME NEW cache \in Seq(Epoch \X Nat), NEW end \in Nat, CacheAscends(cache, end),
         NEW e \in Epoch
  PROVE  /\ Assigned(cache, e, end) \in Seq(Epoch \X Nat)
         /\ CacheAscends(Assigned(cache, e, end), end)
<1> DEFINE n == Len(cache)
           new == Append(cache, <<e, end>>)
<1>1. n \in Nat /\ DOMAIN cache = 1 .. n /\ \A i \in 1 .. n : cache[i] \in Epoch \X Nat
  OBVIOUS
<1>2. CASE Assigned(cache, e, end) = cache
  BY <1>2
<1>3. CASE Assigned(cache, e, end) # cache
  <2>1. /\ Assigned(cache, e, end) = new
        /\ n = 0 \/ cache[n][1] < e
    BY <1>3 DEF Assigned, Last
  <2>2. /\ new \in Seq(Epoch \X Nat) /\ Len(new) = n + 1 /\ DOMAIN new = 1 .. n + 1
        /\ \A i \in 1 .. n : new[i] = cache[i]
        /\ new[n + 1] = <<e, end>>
    <3>1. <<e, end>> \in Epoch \X Nat
      OBVIOUS
    <3> QED BY <3>1, <1>1, AppendProperties
  <2>3. \A i \in 1 .. n + 1 : new[i][2] <= end
    BY <1>1, <2>2 DEF CacheAscends
  <2>4. \A i \in 1 .. n : cache[i][1] < e
    <3> SUFFICES ASSUME NEW i \in 1 .. n PROVE cache[i][1] < e
      OBVIOUS
    <3>1. cache[i][1] \in Int /\ cache[n][1] \in Int /\ e \in Int /\ cache[n][1] < e
      <4>1. n # 0 /\ n \in 1 .. n
        BY <1>1
      <4>2. cache[i] \in Epoch \X Nat /\ cache[n] \in Epoch \X Nat
        BY <1>1, <4>1
      <4>3. cache[i][1] \in Epoch /\ cache[n][1] \in Epoch
        BY <4>2
      <4>4. \A x \in Epoch : x \in Int
        BY DEF Epoch
      <4> QED BY <2>1, <4>1, <4>3, <4>4
    <3>0. n \in DOMAIN cache /\ i \in DOMAIN cache /\ (i = n \/ i < n)
      <4> HIDE DEF n
      <4>1. n \in Nat /\ DOMAIN cache = 1 .. n
        BY <1>1
      <4>2. i \in Int /\ 1 <= i /\ i <= n
        BY <4>1
      <4>3. n \in 1 .. n /\ (i = n \/ i < n)
        BY <4>1, <4>2
      <4> QED BY <4>1, <4>3
    <3>2. i < n => cache[i][1] < cache[n][1]
      BY <3>0 DEF CacheAscends
    <3> HIDE DEF n
    <3>3. CASE i = n
      BY <3>1, <3>3, Zenon
    <3>4. CASE i < n
      BY <3>1, <3>2, <3>4
    <3> QED BY <3>0, <3>3, <3>4
  <2>5. ASSUME NEW i \in 1 .. n + 1, NEW j \in 1 .. n + 1, i < j
        PROVE  new[i][1] < new[j][1] /\ new[i][2] <= new[j][2]
    <3>1. i \in 1 .. n /\ new[i] = cache[i]
      BY <1>1, <2>2, <2>5
    <3>2. CASE j = n + 1
      BY <2>2, <2>4, <3>1, <3>2, <1>1 DEF CacheAscends
    <3>3. CASE j # n + 1
      <4>1. j \in 1 .. n /\ new[j] = cache[j]
        BY <1>1, <2>2, <3>3
      <4> QED BY <4>1, <3>1, <2>5, <1>1 DEF CacheAscends
    <3> QED BY <3>2, <3>3
  <2>6. CacheAscends(new, end)
    <3> HIDE DEF new, n
    <3> QED BY <2>2, <2>3, <2>5 DEF CacheAscends
  <2> QED BY <2>1, <2>2, <2>6
<1> QED BY <1>2, <1>3

\* What is kept below a cut is in order and starts within it.
LEMMA KeptAscends ==
  ASSUME NEW cache \in Seq(Epoch \X Nat), NEW end \in Nat, CacheAscends(cache, end),
         NEW to \in Nat
  PROVE  CacheAscends(KeptBelow(cache, to), to)
<1> DEFINE kept == KeptBelow(cache, to)
<1>1. /\ kept \in Seq(Epoch \X Nat)
      /\ Len(kept) <= Len(cache)
      /\ \A i \in 1 .. Len(kept) : kept[i] = cache[i] /\ cache[i][2] < to
  BY KeptBelowIs
<1> HIDE DEF kept
<1>2. DOMAIN kept = 1 .. Len(kept) /\ DOMAIN cache = 1 .. Len(cache)
      /\ Len(kept) \in Nat /\ Len(cache) \in Nat
  BY <1>1
<1>3. \A i \in DOMAIN kept : i \in DOMAIN cache /\ kept[i] = cache[i] /\ kept[i][2] < to
  BY <1>1, <1>2
<1>4. \A i \in DOMAIN kept : kept[i][2] \in Nat
  BY <1>1
<1>5. \A i \in DOMAIN kept : kept[i][2] <= to
  BY <1>3, <1>4
<1>6. \A i, j \in DOMAIN kept : i < j => kept[i][1] < kept[j][1] /\ kept[i][2] <= kept[j][2]
  BY <1>3 DEF CacheAscends
<1> QED BY <1>5, <1>6 DEF CacheAscends, kept

\* A cache in order stays so under a longer log.
LEMMA AscendsUnderMore ==
  ASSUME NEW cache \in Seq(Epoch \X Nat), NEW end \in Nat, NEW more \in Nat, end <= more,
         CacheAscends(cache, end)
  PROVE  CacheAscends(cache, more)
<1>1. \A i \in DOMAIN cache : cache[i][2] \in Nat
  OBVIOUS
<1>2. \A i \in DOMAIN cache : cache[i][2] <= more
  BY <1>1 DEF CacheAscends
<1> QED BY <1>2 DEF CacheAscends
----------------------------------------------------------------------------
(***************************************************************************)
(* What every step keeps, whatever the elections.                          *)
(***************************************************************************)

\* The state's fields, one by one.
LEMMA Fields ==
  ASSUME AlwaysInv, NEW b \in Broker
  PROVE  /\ log[b] \in Seq(Epoch) /\ Len(log[b]) \in Nat /\ Len(log[b]) <= MaxLog
         /\ LogEnd(b) = Len(log[b])
         /\ entries[b] \in Seq(Epoch \X Nat)
         /\ epoch[b] \in Epoch /\ epoch[b] \in Nat
         /\ watermark[b] \in Nat /\ fetched[b] \in Nat
         /\ elector.epoch \in Epoch /\ elector.epoch \in Nat
         /\ elector.committed_offset \in Nat
         /\ CacheAscends(entries[b], Len(log[b]))
BY DEF AlwaysInv, Types, CachesAscend, LogEnd, Epoch

\* Initially.
LEMMA AlwaysInit == Init => AlwaysInv
<1> SUFFICES ASSUME Init PROVE AlwaysInv
  OBVIOUS
<1> USE ReplicationAssumption
<1>1. PICK first \in Broker :
        /\ log = [b \in Broker |-> <<>>]
        /\ entries = [b \in Broker |-> IF b = first THEN <<<<1, 0>>>> ELSE <<>>]
        /\ epoch = [b \in Broker |-> 1]
        /\ mode = [b \in Broker |-> IF b = first THEN "serving" ELSE "fetching"]
        /\ watermark = [b \in Broker |-> 0]
        /\ elector = [epoch |-> 1, committed_offset |-> 0]
        /\ leader_of = [e \in 1 .. MaxEpoch |-> IF e = 1 THEN first ELSE None]
        /\ in_sync = Broker
        /\ fetched = [b \in Broker |-> 0]
        /\ crashes = 0
        /\ promised = <<>>
  BY Zenon DEF Init
<1>2. 1 \in Epoch
  BY DEF Epoch
<1>3. << <<1, 0>> >> \in Seq(Epoch \X Nat)
  BY <1>2
<1>4. Types
  <2>1. log \in [Broker -> Seq(Epoch)] /\ promised \in Seq(Epoch)
    BY <1>1
  <2>2. entries \in [Broker -> Seq(Epoch \X Nat)]
    <3>1. <<>> \in Seq(Epoch \X Nat)
      OBVIOUS
    <3> QED BY <1>1, <1>3, <3>1, Zenon
  <2>3. epoch \in [Broker -> Epoch] /\ elector \in [epoch : Epoch, committed_offset : Nat]
    BY <1>1, <1>2
  <2>4. leader_of \in [Epoch -> Broker \cup {None}]
    BY <1>1 DEF Epoch
  <2>5. \A b \in Broker : LogEnd(b) <= MaxLog /\ fetched[b] <= MaxLog
    BY <1>1 DEF LogEnd
  <2> QED BY <1>1, <2>1, <2>2, <2>3, <2>4, <2>5 DEF Types
<1>5. CachesAscend
  <2> SUFFICES ASSUME NEW b \in Broker PROVE CacheAscends(entries[b], LogEnd(b))
    BY DEF CachesAscend
  <2>1. CASE b = first
    BY <1>1, <2>1 DEF CacheAscends, LogEnd
  <2>2. CASE b # first
    BY <1>1, <2>2 DEF CacheAscends, LogEnd
  <2> QED BY <2>1, <2>2
<1>6. Elected
  BY <1>1, <1>2 DEF Elected, CurrentLeader
<1>7. Committed
  BY <1>1 DEF Committed
<1> QED BY <1>4, <1>5, <1>6, <1>7 DEF AlwaysInv

\* Membership of the in-sync set changes nothing else.
LEMMA AlwaysInSync ==
  ASSUME AlwaysInv, NEW b \in Broker, EvictLaggards(b) \/ Readmit(b)
  PROVE  AlwaysInv'
<1>1. /\ UNCHANGED <<log, entries, epoch, mode, watermark, elector, leader_of, fetched,
                     crashes, promised>>
      /\ in_sync' \in SUBSET Broker
  BY DEF AlwaysInv, Types, EvictLaggards, Readmit, brokerVars
<1>2. Types'
  BY <1>1 DEF AlwaysInv, Types, LogEnd
<1>3. CachesAscend' /\ Elected' /\ Committed'
  BY <1>1 DEF AlwaysInv, CachesAscend, LogEnd, Elected, CurrentLeader, Committed
<1> QED BY <1>2, <1>3 DEF AlwaysInv

\* Neither do crashes, restarts and demotions touch a log.
LEMMA AlwaysModes ==
  ASSUME AlwaysInv, NEW b \in Broker, Crash(b) \/ Restart(b) \/ StopServing(b)
  PROVE  AlwaysInv'
<1>1. /\ UNCHANGED <<log, entries, watermark, elector, leader_of, in_sync, fetched, promised>>
      /\ \E m \in {"down", "recovering", "stopped"} : mode' = [mode EXCEPT ![b] = m]
      /\ epoch' = epoch \/ epoch' = [epoch EXCEPT ![b] = elector.epoch]
  BY DEF Crash, Restart, StopServing, setVars
<1>2. /\ mode' \in [Broker -> {"serving", "fetching", "stopped", "recovering", "down"}]
      /\ mode'[b] # "serving"
      /\ \A k \in Broker \ {b} : mode'[k] = mode[k]
  BY <1>1 DEF AlwaysInv, Types
<1>3. /\ epoch' \in [Broker -> Epoch]
      /\ \A k \in Broker \ {b} : epoch'[k] = epoch[k]
      /\ epoch'[b] <= elector.epoch
  <2>1. elector.epoch \in Epoch /\ elector.epoch \in Nat
    BY Fields
  <2>2. epoch \in [Broker -> Epoch] /\ epoch[b] <= elector.epoch
    BY DEF AlwaysInv, Types, Elected
  <2>3. CASE epoch' = epoch
    BY <2>2, <2>3
  <2>4. CASE epoch' = [epoch EXCEPT ![b] = elector.epoch]
    BY <2>1, <2>2, <2>4
  <2> QED BY <1>1, <2>3, <2>4
<1>4. Types'
  BY <1>1, <1>2, <1>3 DEF AlwaysInv, Types, LogEnd
<1>5. CachesAscend' /\ Committed'
  BY <1>1 DEF AlwaysInv, CachesAscend, LogEnd, Committed
<1>6. Elected'
  BY <1>1, <1>2, <1>3 DEF AlwaysInv, Elected, CurrentLeader
<1> QED BY <1>4, <1>5, <1>6 DEF AlwaysInv

\* A leader appends.
LEMMA AlwaysProduce ==
  ASSUME AlwaysInv, NEW b \in Broker, Produce(b)
  PROVE  AlwaysInv'
<1> USE ReplicationAssumption
<1>1. /\ UNCHANGED <<entries, epoch, mode, watermark, elector, leader_of, in_sync, fetched,
                     crashes, promised>>
      /\ LogEnd(b) < MaxLog
      /\ log' = [log EXCEPT ![b] = Append(@, epoch[b])]
  BY DEF Produce, setVars
<1>2. /\ log[b] \in Seq(Epoch) /\ epoch[b] \in Epoch /\ Len(log[b]) \in Nat
      /\ log \in [Broker -> Seq(Epoch)] /\ LogEnd(b) = Len(log[b])
  BY Fields DEF AlwaysInv, Types
<1>3. /\ log' \in [Broker -> Seq(Epoch)]
      /\ log'[b] = Append(log[b], epoch[b]) /\ Len(log'[b]) = Len(log[b]) + 1
      /\ \A k \in Broker \ {b} : log'[k] = log[k]
  BY <1>1, <1>2
<1>4. \A k \in Broker : Len(log'[k]) <= MaxLog /\ Len(log'[k]) \in Nat
                        /\ Len(log[k]) <= Len(log'[k]) /\ Len(log[k]) \in Nat
  BY <1>1, <1>2, <1>3, Fields
<1>5. Types'
  BY <1>1, <1>3, <1>4 DEF AlwaysInv, Types, LogEnd
<1>6. CachesAscend'
  <2> SUFFICES ASSUME NEW k \in Broker PROVE CacheAscends(entries[k], Len(log'[k]))
    BY <1>1 DEF CachesAscend, LogEnd
  <2> QED BY <1>4, Fields, AscendsUnderMore
<1>7. Elected' /\ Committed'
  BY <1>1 DEF AlwaysInv, Elected, CurrentLeader, Committed
<1> QED BY <1>5, <1>6, <1>7 DEF AlwaysInv

\* A refreshed watermark is one of the two.
LEMMA RefreshedIs ==
  ASSUME NEW old \in Nat, NEW new \in Nat
  PROVE  /\ Refreshed(old, new) \in {old, new}
         /\ Refreshed(old, new) >= old /\ Refreshed(old, new) >= new
BY DEF Refreshed

\* A follower fetches.
LEMMA AlwaysFetch ==
  ASSUME AlwaysInv, NEW b \in Broker, NEW leader \in Broker, Fetch(b, leader)
  PROVE  AlwaysInv'
<1> USE ReplicationAssumption
<1> DEFINE at == Len(log[b])
           new == Append(log[b], log[leader][at + 1])
<1>1. /\ UNCHANGED <<epoch, mode, elector, leader_of, in_sync, crashes, promised>>
      /\ at <= Len(log[leader])
      /\ fetched' = fetched \/ fetched' = [fetched EXCEPT ![b] = at]
      /\ watermark' = [watermark EXCEPT ![b] = Refreshed(@, watermark[leader])]
      /\ \/ UNCHANGED <<log, entries>>
         \/ /\ at < Len(log[leader])
            /\ log' = [log EXCEPT ![b] = Append(@, log[leader][at + 1])]
            /\ entries' = [entries EXCEPT ![b] = Assigned(@, log[leader][at + 1], at)]
  BY Fields DEF Fetch
<1>2. /\ log[b] \in Seq(Epoch) /\ at \in Nat /\ log \in [Broker -> Seq(Epoch)]
      /\ log[leader] \in Seq(Epoch) /\ Len(log[leader]) \in Nat /\ Len(log[leader]) <= MaxLog
      /\ entries[b] \in Seq(Epoch \X Nat) /\ entries \in [Broker -> Seq(Epoch \X Nat)]
      /\ CacheAscends(entries[b], at) /\ at <= MaxLog
  BY Fields DEF AlwaysInv, Types
<1>3. /\ watermark' \in [Broker -> Nat]
      /\ \A k \in Broker : watermark'[k] <= elector.committed_offset
  <2>1. /\ watermark[b] \in Nat /\ watermark[leader] \in Nat
        /\ elector.committed_offset \in Nat
        /\ watermark \in [Broker -> Nat]
        /\ \A k \in Broker : watermark[k] <= elector.committed_offset
    BY Fields DEF AlwaysInv, Types, Committed
  <2>2. Refreshed(watermark[b], watermark[leader]) \in {watermark[b], watermark[leader]}
    BY <2>1, RefreshedIs
  <2> QED BY <1>1, <2>1, <2>2
<1>4. fetched' \in [Broker -> Nat] /\ \A k \in Broker : fetched'[k] <= MaxLog
  <2>1. fetched \in [Broker -> Nat] /\ \A k \in Broker : fetched[k] <= MaxLog
    BY DEF AlwaysInv, Types
  <2>2. CASE fetched' = fetched
    BY <2>1, <2>2
  <2>3. CASE fetched' = [fetched EXCEPT ![b] = at]
    <3> HIDE DEF at
    <3> QED BY <1>2, <2>1, <2>3
  <2> QED BY <1>1, <2>2, <2>3
<1>5. /\ log' \in [Broker -> Seq(Epoch)] /\ entries' \in [Broker -> Seq(Epoch \X Nat)]
      /\ \A k \in Broker : Len(log'[k]) <= MaxLog /\ CacheAscends(entries'[k], Len(log'[k]))
  <2>1. CASE UNCHANGED <<log, entries>>
    BY <1>2, <2>1, Fields DEF AlwaysInv, Types
  <2>2. CASE ~ UNCHANGED <<log, entries>>
    <3>1. /\ at < Len(log[leader])
          /\ log' = [log EXCEPT ![b] = new]
          /\ entries' = [entries EXCEPT ![b] = Assigned(entries[b], log[leader][at + 1], at)]
      BY <1>1, <2>2, Zenon
    <3>2. log[leader][at + 1] \in Epoch
      <4> HIDE DEF at
      <4> QED BY <1>2, <3>1
    <3>3. new \in Seq(Epoch) /\ Len(new) = at + 1 /\ at + 1 \in Nat /\ at + 1 <= MaxLog
      BY <1>2, <3>1, <3>2
    <3>4. /\ Assigned(entries[b], log[leader][at + 1], at) \in Seq(Epoch \X Nat)
          /\ CacheAscends(Assigned(entries[b], log[leader][at + 1], at), at)
      BY <1>2, <3>2, AssignedAscends
    <3> HIDE DEF new, at
    <3>5. CacheAscends(Assigned(entries[b], log[leader][at + 1], at), at + 1)
      <4>1. at \in Nat /\ at + 1 \in Nat /\ at <= at + 1
        BY <1>2
      <4> QED BY <4>1, <3>4, AscendsUnderMore
    <3>6. \A k \in Broker \ {b} :
            Len(log[k]) <= MaxLog /\ CacheAscends(entries[k], Len(log[k]))
      BY Fields
    <3> QED BY <1>2, <3>1, <3>3, <3>4, <3>5, <3>6
  <2> QED BY <2>1, <2>2
<1>6. Types'
  BY <1>1, <1>3, <1>4, <1>5 DEF AlwaysInv, Types, LogEnd
<1>7. CachesAscend'
  BY <1>5 DEF CachesAscend, LogEnd
<1>8. Elected' /\ Committed'
  BY <1>1, <1>3 DEF AlwaysInv, Elected, CurrentLeader, Committed
<1> QED BY <1>6, <1>7, <1>8 DEF AlwaysInv

\* A promise adds records of the leader's log, or nothing.
LEMMA PromiseIs ==
  ASSUME AlwaysInv, NEW b \in Broker, NEW to \in Nat, Promise(b, to),
         to > Len(promised) => to <= LogEnd(b)
  PROVE  /\ promised' \in Seq(Epoch)
         /\ Len(promised') = Refreshed(Len(promised), to)
         /\ \/ promised' = promised
            \/ /\ Len(promised') = to /\ to > Len(promised) /\ to <= Len(log[b])
               /\ \A i \in 1 .. to : promised'[i] = log[b][i]
<1>1. promised \in Seq(Epoch) /\ Len(promised) \in Nat /\ log[b] \in Seq(Epoch)
      /\ LogEnd(b) = Len(log[b]) /\ Len(log[b]) \in Nat
  BY Fields DEF AlwaysInv, Types
<1>2. CASE to > Len(promised)
  <2>1. promised' = SubSeq(log[b], 1, to) /\ to \in 0 .. Len(log[b])
    BY <1>1, <1>2 DEF Promise
  <2>2. /\ promised' \in Seq(Epoch) /\ Len(promised') = to
        /\ \A i \in 1 .. to : promised'[i] = log[b][i]
    BY <1>1, <2>1, CutIs
  <2> QED BY <1>1, <1>2, <2>1, <2>2 DEF Refreshed
<1>3. CASE ~ (to > Len(promised))
  <2>1. promised' = promised
    BY <1>3 DEF Promise
  <2> QED BY <1>1, <1>3, <2>1 DEF Refreshed
<1> QED BY <1>2, <1>3

\* What a leader's report does: its watermark, the elector and the promises move together.
LEMMA AlwaysReport ==
  ASSUME AlwaysInv, NEW b \in Broker, NEW to \in Nat,
         to > elector.committed_offset => to <= LogEnd(b),
         watermark' = [watermark EXCEPT ![b] = to],
         elector' = [elector EXCEPT !.committed_offset = Refreshed(@, to)],
         Promise(b, to)
  PROVE  /\ watermark' \in [Broker -> Nat]
         /\ elector' \in [epoch : Epoch, committed_offset : Nat]
         /\ elector'.epoch = elector.epoch
         /\ promised' \in Seq(Epoch)
         /\ Committed'
<1> USE ReplicationAssumption
<1>1. /\ elector \in [epoch : Epoch, committed_offset : Nat]
      /\ elector.committed_offset \in Nat /\ Len(promised) = elector.committed_offset
      /\ elector.committed_offset <= MaxLog /\ LogEnd(b) <= MaxLog /\ LogEnd(b) \in Nat
      /\ watermark \in [Broker -> Nat]
      /\ \A k \in Broker : watermark[k] <= elector.committed_offset
  BY Fields, SMTT(30) DEF AlwaysInv, Types, Committed
<1>2. /\ Refreshed(elector.committed_offset, to) \in Nat
      /\ Refreshed(elector.committed_offset, to) >= elector.committed_offset
      /\ Refreshed(elector.committed_offset, to) >= to
      /\ Refreshed(elector.committed_offset, to) <= MaxLog
  BY <1>1 DEF Refreshed
<1>3. /\ elector' \in [epoch : Epoch, committed_offset : Nat]
      /\ elector'.epoch = elector.epoch
      /\ elector'.committed_offset = Refreshed(elector.committed_offset, to)
  BY <1>1, <1>2
<1>4. /\ promised' \in Seq(Epoch)
      /\ Len(promised') = Refreshed(elector.committed_offset, to)
  BY <1>1, PromiseIs
<1>5. watermark' \in [Broker -> Nat]
      /\ \A k \in Broker : watermark'[k] <= elector'.committed_offset
  BY <1>1, <1>2, <1>3
<1> QED BY <1>2, <1>3, <1>4, <1>5 DEF Committed

\* The leader commits.
LEMMA AlwaysCommit ==
  ASSUME AlwaysInv, NEW b \in Broker, Commit(b)
  PROVE  AlwaysInv'
<1> DEFINE to == InSyncMinimum(b)
<1>1. /\ UNCHANGED <<log, entries, epoch, mode, leader_of, in_sync, fetched, crashes>>
      /\ watermark' = [watermark EXCEPT ![b] = to]
      /\ elector' = [elector EXCEPT !.committed_offset = Refreshed(@, to)]
      /\ Promise(b, to)
  BY DEF Commit, setVars
<1>2. to \in 0 .. LogEnd(b) /\ LogEnd(b) \in Nat
  BY InSyncMinimumIs, Fields DEF AlwaysInv
<1> HIDE DEF to
<1>3. to \in Nat /\ (to > elector.committed_offset => to <= LogEnd(b))
  BY <1>2
<1>4. /\ watermark' \in [Broker -> Nat]
      /\ elector' \in [epoch : Epoch, committed_offset : Nat]
      /\ elector'.epoch = elector.epoch
      /\ promised' \in Seq(Epoch)
      /\ Committed'
  BY <1>1, <1>3, AlwaysReport
<1>5. Types'
  BY <1>1, <1>4 DEF AlwaysInv, Types, LogEnd
<1>6. CachesAscend' /\ Elected'
  BY <1>1, <1>4 DEF AlwaysInv, CachesAscend, LogEnd, Elected, CurrentLeader
<1> QED BY <1>4, <1>5, <1>6 DEF AlwaysInv

\* An election adds an epoch and its leader.
LEMMA AlwaysElect ==
  ASSUME AlwaysInv, NEW b \in Broker, Elect(b)
  PROVE  AlwaysInv'
<1> USE ReplicationAssumption
<1> DEFINE e == elector.epoch + 1
<1>1. /\ UNCHANGED <<log, entries, epoch, mode, watermark, crashes, promised>>
      /\ elector.epoch < MaxEpoch
      /\ elector' = [elector EXCEPT !.epoch = @ + 1]
      /\ leader_of' = [leader_of EXCEPT ![e] = b]
      /\ in_sync' = (in_sync \cap Up) \cup {b}
      /\ fetched' = [k \in Broker |-> IF k \in Up THEN LogEnd(k) ELSE 0]
  BY DEF Elect, brokerVars
<1>2. /\ elector \in [epoch : Epoch, committed_offset : Nat]
      /\ elector.epoch \in 1 .. MaxEpoch /\ elector.epoch \in Nat
      /\ leader_of \in [Epoch -> Broker \cup {None}]
  BY DEF AlwaysInv, Types, Epoch
<1>3. e \in Epoch /\ e \in Nat /\ e > elector.epoch /\ e # 1
  BY <1>1, <1>2 DEF Epoch
<1>4. /\ elector' \in [epoch : Epoch, committed_offset : Nat]
      /\ elector'.epoch = e /\ elector'.committed_offset = elector.committed_offset
  <2> HIDE DEF e
  <2>1. elector' = [elector EXCEPT !.epoch = e]
    BY <1>1 DEF e
  <2> QED BY <1>2, <1>3, <2>1
<1> HIDE DEF e
<1>5. /\ leader_of' \in [Epoch -> Broker \cup {None}]
      /\ leader_of'[e] = b
      /\ \A x \in Epoch : x # e => leader_of'[x] = leader_of[x]
  BY <1>1, <1>2, <1>3
<1>6. fetched' \in [Broker -> Nat] /\ \A k \in Broker : fetched'[k] <= MaxLog
  <2>1. \A k \in Broker : LogEnd(k) \in Nat /\ LogEnd(k) <= MaxLog
    BY Fields
  <2> HIDE DEF LogEnd
  <2> QED BY <1>1, <2>1
<1>7. Types'
  BY <1>1, <1>4, <1>5, <1>6, SMTT(30) DEF AlwaysInv, Types, LogEnd
<1>8. CachesAscend' /\ Committed'
  BY <1>1, <1>4 DEF AlwaysInv, CachesAscend, LogEnd, Committed
<1>9. Elected'
  <2>1. CurrentLeader' \in Broker
    BY <1>4, <1>5 DEF CurrentLeader
  <2>2. leader_of'[1] \in Broker
    <3>1. 1 \in Epoch
      BY DEF Epoch
    <3> QED BY <3>1, <1>3, <1>5 DEF AlwaysInv, Elected
  <2>3. ASSUME NEW k \in Broker
        PROVE  /\ epoch'[k] <= elector'.epoch
               /\ mode'[k] = "serving" => leader_of'[epoch'[k]] = k
    <3>1. epoch[k] \in Epoch /\ epoch[k] \in Nat /\ epoch[k] <= elector.epoch
      BY Fields DEF AlwaysInv, Elected
    <3>2. epoch[k] # e /\ epoch[k] <= e
      BY <3>1, <1>2, <1>3
    <3> QED BY <1>1, <1>4, <1>5, <3>1, <3>2 DEF AlwaysInv, Elected
  <2> QED BY <2>1, <2>2, <2>3 DEF Elected
<1> QED BY <1>7, <1>8, <1>9 DEF AlwaysInv

\* The winner takes over.
LEMMA AlwaysBecomeLeader ==
  ASSUME AlwaysInv, NEW b \in Broker, BecomeLeader(b)
  PROVE  AlwaysInv'
<1> DEFINE to == Refreshed(watermark[b], InSyncMinimum(b))
<1>1. /\ UNCHANGED <<log, leader_of, in_sync, fetched, crashes>>
      /\ CurrentLeader = b
      /\ epoch' = [epoch EXCEPT ![b] = elector.epoch]
      /\ mode' = [mode EXCEPT ![b] = "serving"]
      /\ entries' = [entries EXCEPT ![b] = Assigned(@, elector.epoch, LogEnd(b))]
      /\ watermark' = [watermark EXCEPT ![b] = to]
      /\ elector' = [elector EXCEPT !.committed_offset = Refreshed(@, to)]
      /\ Promise(b, to)
  BY DEF BecomeLeader, setVars
<1>2. /\ InSyncMinimum(b) \in 0 .. LogEnd(b) /\ LogEnd(b) \in Nat /\ LogEnd(b) = Len(log[b])
      /\ watermark[b] \in Nat /\ elector.committed_offset \in Nat
      /\ watermark[b] <= elector.committed_offset
      /\ elector.epoch \in Epoch /\ elector.epoch \in Nat
      /\ entries[b] \in Seq(Epoch \X Nat) /\ CacheAscends(entries[b], Len(log[b]))
  BY InSyncMinimumIs, Fields DEF AlwaysInv, Committed
<1>3. to \in Nat /\ (to > elector.committed_offset => to <= LogEnd(b))
  <2> HIDE DEF InSyncMinimum, LogEnd
  <2> QED BY <1>2 DEF Refreshed
<1> HIDE DEF to
<1>4. /\ watermark' \in [Broker -> Nat]
      /\ elector' \in [epoch : Epoch, committed_offset : Nat]
      /\ elector'.epoch = elector.epoch
      /\ promised' \in Seq(Epoch)
      /\ Committed'
  BY <1>1, <1>3, AlwaysReport
<1>5. /\ Assigned(entries[b], elector.epoch, Len(log[b])) \in Seq(Epoch \X Nat)
      /\ CacheAscends(Assigned(entries[b], elector.epoch, Len(log[b])), Len(log[b]))
  BY <1>2, AssignedAscends
<1>6. /\ entries' \in [Broker -> Seq(Epoch \X Nat)]
      /\ \A k \in Broker : CacheAscends(entries'[k], Len(log'[k]))
  <2>1. entries \in [Broker -> Seq(Epoch \X Nat)]
        /\ \A k \in Broker : CacheAscends(entries[k], Len(log[k]))
    BY Fields DEF AlwaysInv, Types
  <2>2. entries' = [entries EXCEPT ![b] = Assigned(entries[b], elector.epoch, Len(log[b]))]
        /\ log' = log
    BY <1>1, <1>2
  <2> QED BY <1>5, <2>1, <2>2
<1>7. /\ mode' \in [Broker -> {"serving", "fetching", "stopped", "recovering", "down"}]
      /\ epoch' \in [Broker -> Epoch]
      /\ \A k \in Broker \ {b} : mode'[k] = mode[k] /\ epoch'[k] = epoch[k]
      /\ epoch'[b] = elector.epoch
  BY <1>1, <1>2 DEF AlwaysInv, Types
<1>8. Types'
  BY <1>1, <1>4, <1>6, <1>7 DEF AlwaysInv, Types, LogEnd
<1>9. CachesAscend'
  BY <1>6 DEF CachesAscend, LogEnd
<1>10. Elected'
  <2>1. leader_of[elector.epoch] = b /\ elector'.epoch = elector.epoch /\ leader_of' = leader_of
    BY <1>1, <1>4 DEF CurrentLeader
  <2>2. \A k \in Broker : /\ epoch'[k] <= elector.epoch
                          /\ mode'[k] = "serving" => leader_of[epoch'[k]] = k
    BY <1>2, <1>7, <2>1, SMTT(30) DEF AlwaysInv, Elected
  <2> QED BY <2>1, <2>2 DEF AlwaysInv, Elected, CurrentLeader
<1> QED BY <1>4, <1>8, <1>9, <1>10 DEF AlwaysInv

\* A log is cut, in the handshake or in recovery.
LEMMA AlwaysTruncate ==
  ASSUME AlwaysInv, NEW b \in Broker, NEW to \in 0 .. LogEnd(b), TruncateTo(b, to),
         epoch' = epoch \/ epoch' = [epoch EXCEPT ![b] = elector.epoch]
  PROVE  AlwaysInv'
<1> USE ReplicationAssumption
<1>1. /\ UNCHANGED <<watermark, elector, leader_of, in_sync, fetched, crashes, promised>>
      /\ log' = [log EXCEPT ![b] = SubSeq(log[b], 1, to)]
      /\ entries' = [entries EXCEPT ![b] = KeptBelow(entries[b], to)]
      /\ mode' = [mode EXCEPT ![b] = "fetching"]
  BY DEF TruncateTo, setVars
<1>2. /\ log[b] \in Seq(Epoch) /\ to \in 0 .. Len(log[b]) /\ to \in Nat /\ to <= MaxLog
      /\ entries[b] \in Seq(Epoch \X Nat) /\ CacheAscends(entries[b], Len(log[b]))
      /\ Len(log[b]) \in Nat
  BY Fields
<1>3. SubSeq(log[b], 1, to) \in Seq(Epoch) /\ Len(SubSeq(log[b], 1, to)) = to
  BY <1>2, CutIs
<1>4. KeptBelow(entries[b], to) \in Seq(Epoch \X Nat) /\ CacheAscends(KeptBelow(entries[b], to), to)
  BY <1>2, KeptBelowIs, KeptAscends
<1>5. /\ log' \in [Broker -> Seq(Epoch)] /\ entries' \in [Broker -> Seq(Epoch \X Nat)]
      /\ \A k \in Broker : Len(log'[k]) <= MaxLog /\ CacheAscends(entries'[k], Len(log'[k]))
  <2>1. /\ log \in [Broker -> Seq(Epoch)] /\ entries \in [Broker -> Seq(Epoch \X Nat)]
        /\ \A k \in Broker : Len(log[k]) <= MaxLog /\ CacheAscends(entries[k], Len(log[k]))
    BY Fields DEF AlwaysInv, Types
  <2> QED BY <1>1, <1>2, <1>3, <1>4, <2>1
<1>6. /\ mode' \in [Broker -> {"serving", "fetching", "stopped", "recovering", "down"}]
      /\ mode'[b] # "serving"
      /\ \A k \in Broker \ {b} : mode'[k] = mode[k]
  BY <1>1 DEF AlwaysInv, Types
<1>7. /\ epoch' \in [Broker -> Epoch]
      /\ \A k \in Broker \ {b} : epoch'[k] = epoch[k]
      /\ epoch'[b] <= elector.epoch
  <2>1. elector.epoch \in Epoch /\ elector.epoch \in Nat
    BY Fields
  <2>2. epoch \in [Broker -> Epoch] /\ epoch[b] <= elector.epoch
    BY DEF AlwaysInv, Types, Elected
  <2>3. CASE epoch' = epoch
    BY <2>2, <2>3
  <2>4. CASE epoch' = [epoch EXCEPT ![b] = elector.epoch]
    BY <2>1, <2>2, <2>4
  <2> QED BY <2>3, <2>4
<1>8. Types'
  BY <1>1, <1>5, <1>6, <1>7 DEF AlwaysInv, Types, LogEnd
<1>9. CachesAscend' /\ Committed'
  BY <1>1, <1>5 DEF AlwaysInv, CachesAscend, LogEnd, Committed
<1>10. Elected'
  BY <1>1, <1>6, <1>7 DEF AlwaysInv, Elected, CurrentLeader
<1> QED BY <1>8, <1>9, <1>10 DEF AlwaysInv

\* Every step keeps the general part.
LEMMA AlwaysStep ==
  ASSUME AlwaysInv, [Next]_vars
  PROVE  AlwaysInv'
<1>1. CASE UNCHANGED vars
  BY <1>1 DEF vars, brokerVars, setVars, AlwaysInv, Types, CachesAscend, LogEnd, Elected,
              CurrentLeader, Committed
<1>2. CASE Next
  <2>1. PICK b \in Broker :
          \/ Produce(b) \/ Commit(b) \/ EvictLaggards(b) \/ Readmit(b)
          \/ Elect(b) \/ BecomeLeader(b) \/ StopServing(b)
          \/ Crash(b) \/ Restart(b)
          \/ \E leader \in Broker \ {b} :
               Fetch(b, leader) \/ Reconcile(b, leader) \/ Recover(b, leader)
    BY <1>2, Zenon DEF Next
  <2>2. CASE Produce(b) \/ Commit(b) \/ Elect(b) \/ BecomeLeader(b)
    BY <2>2, AlwaysProduce, AlwaysCommit, AlwaysElect, AlwaysBecomeLeader
  <2>3. CASE EvictLaggards(b) \/ Readmit(b)
    BY <2>3, AlwaysInSync
  <2>4. CASE StopServing(b) \/ Crash(b) \/ Restart(b)
    BY <2>4, AlwaysModes
  <2>5. ASSUME NEW leader \in Broker \ {b}, Fetch(b, leader) PROVE AlwaysInv'
    BY <2>5, AlwaysFetch
  <2>6. ASSUME NEW leader \in Broker \ {b}, Reconcile(b, leader) PROVE AlwaysInv'
    <3>1. TruncationPoint(b, leader) \in 0 .. LogEnd(b)
      BY TruncationPointIs DEF AlwaysInv
    <3>2. TruncateTo(b, TruncationPoint(b, leader)) /\ epoch' = epoch
      BY <2>6 DEF Reconcile
    <3> QED BY <3>1, <3>2, AlwaysTruncate
  <2>7. ASSUME NEW leader \in Broker \ {b}, Recover(b, leader) PROVE AlwaysInv'
    <3>1. RecoverTo(b, leader) \in 0 .. LogEnd(b)
      BY RecoverToIs DEF AlwaysInv
    <3>2. TruncateTo(b, RecoverTo(b, leader)) /\ epoch' = [epoch EXCEPT ![b] = elector.epoch]
      BY <2>7 DEF Recover
    <3> QED BY <3>1, <3>2, AlwaysTruncate
  <2> QED BY <2>1, <2>2, <2>3, <2>4, <2>5, <2>6, <2>7
<1> QED BY <1>1, <1>2

(***************************************************************************)
(* The general part of the invariant holds for every configuration, with   *)
(* unclean elections and deposed leaders that go on serving.               *)
(***************************************************************************)
THEOREM GeneralInvariant == Spec => []AlwaysInv
<1>1. AlwaysInv /\ [Next]_vars => AlwaysInv'
  BY AlwaysStep
<1> QED BY AlwaysInit, <1>1, PTL DEF Spec

(***************************************************************************)
(* Logs, caches, watermarks and the elector keep their types and bounds.   *)
(***************************************************************************)
THEOREM TypesKept == Spec => []TypeOK
<1>1. AlwaysInv => TypeOK
  <2> SUFFICES ASSUME AlwaysInv PROVE TypeOK
    OBVIOUS
  <2> USE ReplicationAssumption
  <2>1. ASSUME NEW b \in Broker
        PROVE  /\ LogEnd(b) <= MaxLog
               /\ \A i \in DOMAIN log[b] : log[b][i] \in Epoch
               /\ \A i \in DOMAIN entries[b] : entries[b][i] \in Epoch \X (0 .. MaxLog)
    <3>1. /\ log[b] \in Seq(Epoch) /\ Len(log[b]) \in Nat /\ Len(log[b]) <= MaxLog
          /\ LogEnd(b) = Len(log[b])
          /\ entries[b] \in Seq(Epoch \X Nat) /\ CacheAscends(entries[b], Len(log[b]))
      BY Fields
    <3>2. \A i \in DOMAIN log[b] : log[b][i] \in Epoch
      BY <3>1
    <3>3. ASSUME NEW i \in DOMAIN entries[b] PROVE entries[b][i] \in Epoch \X (0 .. MaxLog)
      <4>1. entries[b][i] \in Epoch \X Nat
        BY <3>1
      <4>2. entries[b][i][2] \in Nat /\ entries[b][i][2] <= Len(log[b])
        BY <3>1, <4>1 DEF CacheAscends
      <4>3. entries[b][i][2] \in 0 .. MaxLog
        BY <3>1, <4>2
      <4> QED BY <4>1, <4>3
    <3> QED BY <3>1, <3>2, <3>3
  <2>2. \A b \in Broker : watermark[b] \in 0 .. MaxLog /\ fetched[b] \in 0 .. MaxLog
    <3> SUFFICES ASSUME NEW b \in Broker
                 PROVE  watermark[b] \in 0 .. MaxLog /\ fetched[b] \in 0 .. MaxLog
      OBVIOUS
    <3>1. /\ watermark[b] \in Nat /\ fetched[b] \in Nat /\ elector.committed_offset \in Nat
          /\ watermark[b] <= elector.committed_offset /\ elector.committed_offset <= MaxLog
          /\ fetched[b] <= MaxLog
      BY Fields DEF AlwaysInv, Types, Committed
    <3> QED BY <3>1
  <2>3. elector \in [epoch : Epoch, committed_offset : 0 .. MaxLog]
    <3>1. /\ elector \in [epoch : Epoch, committed_offset : Nat]
          /\ elector.committed_offset <= MaxLog
      BY DEF AlwaysInv, Types, Committed
    <3> QED BY <3>1
  <2>4. watermark \in [Broker -> 0 .. MaxLog] /\ fetched \in [Broker -> 0 .. MaxLog]
    BY <2>2 DEF AlwaysInv, Types
  <2> QED BY <2>1, <2>3, <2>4 DEF AlwaysInv, Types, TypeOK
<1> QED BY <1>1, GeneralInvariant, PTL

\* Two brokers that serve at one epoch are one.
OneServesAnEpoch ==
  \A a, b \in Broker :
    mode[a] = "serving" /\ mode[b] = "serving" /\ epoch[a] = epoch[b] => a = b

(***************************************************************************)
(* Fencing by epoch is sound: however elections, crashes and late news     *)
(* interleave, an epoch has one leader that serves.                        *)
(***************************************************************************)
THEOREM OneLeaderPerEpoch == Spec => []OneServesAnEpoch
<1>1. AlwaysInv => OneServesAnEpoch
  BY DEF AlwaysInv, Elected, OneServesAnEpoch
<1> QED BY <1>1, GeneralInvariant, PTL

(***************************************************************************)
(* In every epoch cache the epochs rise, their starts do not fall and none *)
(* is beyond the end of the log, so truncate_from keeps a first part.      *)
(***************************************************************************)
THEOREM CachesInOrder == Spec => []CachesAscend
<1>1. AlwaysInv => CachesAscend
  BY DEF AlwaysInv
<1> QED BY <1>1, GeneralInvariant, PTL

(***************************************************************************)
(* No broker exposes an offset that the elector does not know to be        *)
(* committed.                                                              *)
(***************************************************************************)
THEOREM WatermarksAreCommitted == Spec => []Committed
<1>1. AlwaysInv => Committed
  BY DEF AlwaysInv
<1> QED BY <1>1, GeneralInvariant, PTL
----------------------------------------------------------------------------
(***************************************************************************)
(* One clean failover: what the steps do to a log and its cache.           *)
(***************************************************************************)

\* A cache that starts wholly below the cut is kept whole.
LEMMA AllKept ==
  ASSUME NEW cache \in Seq(Epoch \X Nat), NEW end \in Nat, CacheAscends(cache, end),
         NEW to \in Nat, \A i \in DOMAIN cache : cache[i][2] < to
  PROVE  KeptBelow(cache, to) = cache
<1> DEFINE kept == KeptBelow(cache, to)
<1>1. /\ kept \in Seq(Epoch \X Nat)
      /\ Len(kept) <= Len(cache)
      /\ \A i \in 1 .. Len(kept) : kept[i] = cache[i] /\ cache[i][2] < to
      /\ \A i \in DOMAIN cache : cache[i][2] < to => i <= Len(kept)
  BY KeptBelowIs
<1> HIDE DEF kept
<1>2. Len(kept) \in Nat /\ Len(cache) \in Nat /\ DOMAIN cache = 1 .. Len(cache)
  BY <1>1
<1>3. Len(kept) = Len(cache)
  <2>1. CASE Len(cache) = 0
    BY <1>1, <1>2, <2>1
  <2>2. CASE Len(cache) > 0
    <3>1. Len(cache) \in DOMAIN cache
      BY <1>2, <2>2
    <3>2. Len(cache) <= Len(kept)
      BY <1>1, <3>1
    <3> QED BY <1>1, <1>2, <3>2
  <2> QED BY <1>2, <2>1, <2>2
<1>4. kept = cache
  BY <1>1, <1>3, SeqEqual
<1> QED BY <1>4 DEF kept

\* Nothing starts below zero.
LEMMA NoneKept ==
  ASSUME NEW cache \in Seq(Epoch \X Nat), NEW end \in Nat, CacheAscends(cache, end)
  PROVE  KeptBelow(cache, 0) = <<>>
<1> DEFINE kept == KeptBelow(cache, 0)
<1>1. /\ kept \in Seq(Epoch \X Nat)
      /\ Len(kept) <= Len(cache)
      /\ \A i \in 1 .. Len(kept) : kept[i] = cache[i] /\ cache[i][2] < 0
  BY KeptBelowIs
<1> HIDE DEF kept
<1>2. Len(kept) = 0
  <2> SUFFICES ASSUME Len(kept) # 0 PROVE FALSE
    OBVIOUS
  <2>1. 1 \in 1 .. Len(kept) /\ 1 \in DOMAIN cache
    BY <1>1
  <2>2. cache[1][2] \in Nat
    BY <2>1
  <2> QED BY <1>1, <2>1, <2>2
<1>3. kept = <<>>
  BY <1>1, <1>2, EmptySeq
<1> QED BY <1>3 DEF kept

\* A second element.
LEMMA AppendToOne ==
  ASSUME NEW S, NEW x \in S, NEW y \in S
  PROVE  Append(<<x>>, y) = <<x, y>>
<1>0. ASSUME NEW q \in Seq(S)
      PROVE  /\ Append(q, y) \in Seq(S)
             /\ \A i \in 1 .. Len(q) : Append(q, y)[i] = q[i]
             /\ Len(Append(q, y)) = Len(q) + 1 /\ Append(q, y)[Len(q) + 1] = y
  OBVIOUS
<1>1. \A q \in Seq(S) : Len(q) = 1 =>
        /\ Append(q, y) \in Seq(S) /\ Len(Append(q, y)) = 2
        /\ Append(q, y)[1] = q[1] /\ Append(q, y)[2] = y
  <2> SUFFICES ASSUME NEW q \in Seq(S), Len(q) = 1
               PROVE  /\ Append(q, y) \in Seq(S) /\ Len(Append(q, y)) = 2
                      /\ Append(q, y)[1] = q[1] /\ Append(q, y)[2] = y
    OBVIOUS
  <2> DEFINE t == Append(q, y)
  <2>1. /\ t \in Seq(S) /\ \A i \in 1 .. Len(q) : t[i] = q[i]
        /\ Len(t) = Len(q) + 1 /\ t[Len(q) + 1] = y
    BY <1>0, Zenon
  <2> HIDE DEF t
  <2>2. t \in Seq(S) /\ Len(t) = 2 /\ t[1] = q[1] /\ t[2] = y
    BY <2>1
  <2> QED BY <2>2 DEF t
<1>2. <<x>> \in Seq(S) /\ Len(<<x>>) = 1 /\ <<x>>[1] = x
  OBVIOUS
<1>3. <<x, y>> \in Seq(S) /\ Len(<<x, y>>) = 2 /\ <<x, y>>[1] = x /\ <<x, y>>[2] = y
  OBVIOUS
<1>4. /\ Append(<<x>>, y) \in Seq(S) /\ Len(Append(<<x>>, y)) = 2
      /\ Append(<<x>>, y)[1] = x /\ Append(<<x>>, y)[2] = y
  BY <1>1, <1>2, Zenon
<1>5. \A r, q \in Seq(S) : Len(r) = 2 /\ Len(q) = 2 /\ r[1] = q[1] /\ r[2] = q[2] => r = q
  <2> SUFFICES ASSUME NEW r \in Seq(S), NEW q \in Seq(S), Len(r) = 2, Len(q) = 2,
                      r[1] = q[1], r[2] = q[2]
               PROVE  r = q
    OBVIOUS
  <2>1. \A i \in 1 .. Len(r) : r[i] = q[i]
    OBVIOUS
  <2> QED BY <2>1, SeqEqual
<1> QED BY <1>3, <1>4, <1>5, Zenon

\* A second entry in a cache of one.
LEMMA TwoEntries ==
  ASSUME NEW n \in Nat
  PROVE  Append(<< <<1, 0>> >>, <<2, n>>) = << <<1, 0>>, <<2, n>> >>
<1>1. <<1, 0>> \in Nat \X Nat /\ <<2, n>> \in Nat \X Nat
  OBVIOUS
<1> QED BY <1>1, AppendToOne, Zenon

\* An old log grows by a record of the first epoch and stays old.
LEMMA OldGrows ==
  ASSUME NEW s \in Seq(Epoch), NEW c, OldLog(s, c)
  PROVE  OldLog(Append(s, 1), Assigned(c, 1, Len(s)))
<1> DEFINE t == Append(s, 1)
<1>1. Len(t) = Len(s) + 1 /\ DOMAIN t = 1 .. Len(s) + 1 /\ Len(s) \in Nat
      /\ DOMAIN s = 1 .. Len(s)
      /\ (\A i \in 1 .. Len(s) : t[i] = s[i]) /\ t[Len(s) + 1] = 1
  OBVIOUS
<1>2. \A i \in DOMAIN t : t[i] = 1
  BY <1>1 DEF OldLog
<1>3. Assigned(c, 1, Len(s)) = << <<1, 0>> >>
  <2>1. CASE c = << <<1, 0>> >>
    <3>1. c # <<>> /\ ~ (Last(c)[1] < 1)
      BY <2>1 DEF Last
    <3> QED BY <2>1, <3>1 DEF Assigned
  <2>2. CASE c = <<>>
    <3>1. s = <<>> /\ Len(s) = 0
      BY <2>2 DEF OldLog
    <3> QED BY <2>2, <3>1 DEF Assigned
  <2> QED BY <2>1, <2>2 DEF OldLog
<1> QED BY <1>2, <1>3 DEF OldLog

\* An old log cut where the second epoch begins, or before, is in line.
LEMMA OldCut ==
  ASSUME NEW s \in Seq(Epoch), NEW c \in Seq(Epoch \X Nat), CacheAscends(c, Len(s)),
         OldLog(s, c),
         NEW lead \in Seq(Epoch), NEW cl, NEW start \in Nat, LeaderLog(lead, cl, start),
         NEW to \in 0 .. Len(s), to <= start
  PROVE  NewLog(SubSeq(s, 1, to), KeptBelow(c, to), lead, start)
<1> DEFINE t == SubSeq(s, 1, to)
<1>1. /\ t \in Seq(Epoch) /\ Len(t) = to /\ DOMAIN t = 1 .. to
      /\ \A i \in 1 .. to : t[i] = s[i]
      /\ Len(s) \in Nat /\ DOMAIN s = 1 .. Len(s) /\ to \in Nat
      /\ Len(lead) \in Nat /\ DOMAIN lead = 1 .. Len(lead)
  BY CutIs
<1> HIDE DEF t
<1>2. Len(t) <= Len(lead) /\ \A i \in DOMAIN t : t[i] = lead[i]
  BY <1>1 DEF OldLog, LeaderLog
<1>3. KeptBelow(c, to) = CacheOf(to, start)
  <2>1. CASE to = 0
    BY <2>1, <1>1, NoneKept DEF CacheOf
  <2>2. CASE to > 0
    <3>1. s # <<>> /\ c = << <<1, 0>> >>
      BY <1>1, <2>2 DEF OldLog
    <3>2. \A i \in DOMAIN c : c[i][2] < to
      BY <3>1, <2>2
    <3>3. KeptBelow(c, to) = c
      BY <1>1, <3>2, AllKept
    <3>4. CacheOf(to, start) = << <<1, 0>> >>
      BY <1>1, <2>2 DEF CacheOf
    <3> QED BY <3>1, <3>3, <3>4
  <2> QED BY <1>1, <2>1, <2>2
<1> QED BY <1>1, <1>2, <1>3 DEF NewLog, t

\* An old log that loses nothing stays old.
LEMMA OldKept ==
  ASSUME NEW s \in Seq(Epoch), NEW c \in Seq(Epoch \X Nat), CacheAscends(c, Len(s)),
         OldLog(s, c)
  PROVE  SubSeq(s, 1, Len(s)) = s /\ OldLog(s, KeptBelow(c, Len(s)))
<1>1. Len(s) \in Nat /\ SubSeq(s, 1, Len(s)) = s
  <2>1. Len(s) \in Nat /\ Len(s) \in 0 .. Len(s)
    OBVIOUS
  <2>2. /\ SubSeq(s, 1, Len(s)) \in Seq(Epoch)
        /\ Len(SubSeq(s, 1, Len(s))) = Len(s)
        /\ \A i \in 1 .. Len(s) : SubSeq(s, 1, Len(s))[i] = s[i]
    BY <2>1, CutIs
  <2> QED BY <2>1, <2>2, SeqEqual
<1>2. CASE Len(s) = 0
  BY <1>1, <1>2, NoneKept DEF OldLog
<1>3. CASE Len(s) > 0
  <2>1. c = << <<1, 0>> >>
    BY <1>3 DEF OldLog
  <2>2. \A i \in DOMAIN c : c[i][2] < Len(s)
    BY <2>1, <1>3
  <2>3. KeptBelow(c, Len(s)) = c
    BY <1>1, <2>2, AllKept
  <2> QED BY <1>1, <2>3
<1> QED BY <1>1, <1>2, <1>3

\* A log in line that loses nothing is unchanged, its cache too.
LEMMA NewKept ==
  ASSUME NEW s \in Seq(Epoch), NEW c \in Seq(Epoch \X Nat), CacheAscends(c, Len(s)),
         NEW lead, NEW start \in Nat, NewLog(s, c, lead, start)
  PROVE  SubSeq(s, 1, Len(s)) = s /\ KeptBelow(c, Len(s)) = c
<1>1. Len(s) \in Nat /\ SubSeq(s, 1, Len(s)) = s
  <2>1. Len(s) \in Nat /\ Len(s) \in 0 .. Len(s)
    OBVIOUS
  <2>2. /\ SubSeq(s, 1, Len(s)) \in Seq(Epoch)
        /\ Len(SubSeq(s, 1, Len(s))) = Len(s)
        /\ \A i \in 1 .. Len(s) : SubSeq(s, 1, Len(s))[i] = s[i]
    BY <2>1, CutIs
  <2> QED BY <2>1, <2>2, SeqEqual
<1>2. \A i \in DOMAIN c : c[i][2] < Len(s)
  <2>1. CASE Len(s) = 0
    BY <2>1 DEF NewLog, CacheOf
  <2>2. CASE Len(s) > 0 /\ Len(s) <= start
    <3>1. c = << <<1, 0>> >>
      BY <1>1, <2>2 DEF NewLog, CacheOf
    <3> QED BY <3>1, <2>2
  <2>3. CASE Len(s) > start /\ start = 0
    <3>1. c = << <<2, 0>> >>
      BY <1>1, <2>3 DEF NewLog, CacheOf
    <3> QED BY <3>1, <2>3
  <2>4. CASE Len(s) > start /\ start > 0
    <3>1. c = << <<1, 0>>, <<2, start>> >>
      BY <1>1, <2>4 DEF NewLog, CacheOf
    <3> QED BY <3>1, <2>4
  <2> QED BY <1>1, <2>1, <2>2, <2>3, <2>4
<1>3. KeptBelow(c, Len(s)) = c
  BY <1>1, <1>2, AllKept
<1> QED BY <1>1, <1>3

\* A log in line that fetches the leader's next record is in line.
LEMMA NewFetches ==
  ASSUME NEW s \in Seq(Epoch), NEW c,
         NEW lead \in Seq(Epoch), NEW cl, NEW start \in Nat, LeaderLog(lead, cl, start),
         NewLog(s, c, lead, start), Len(s) < Len(lead)
  PROVE  NewLog(Append(s, lead[Len(s) + 1]), Assigned(c, lead[Len(s) + 1], Len(s)), lead, start)
<1> DEFINE n == Len(s)
           e == lead[n + 1]
           t == Append(s, e)
<1>1. n \in Nat /\ Len(lead) \in Nat /\ DOMAIN lead = 1 .. Len(lead) /\ DOMAIN s = 1 .. n
  OBVIOUS
<1>2. n + 1 \in DOMAIN lead /\ e = IF n < start THEN 1 ELSE 2
  BY <1>1 DEF LeaderLog
<1>3. /\ Len(t) = n + 1 /\ DOMAIN t = 1 .. n + 1
      /\ (\A i \in 1 .. n : t[i] = s[i]) /\ t[n + 1] = e
  OBVIOUS
<1>4. Len(t) <= Len(lead) /\ \A i \in DOMAIN t : t[i] = lead[i]
  BY <1>1, <1>3 DEF NewLog
<1> HIDE DEF t
<1>5. Assigned(c, e, n) = CacheOf(n + 1, start)
  <2>0. c = CacheOf(n, start)
    BY DEF NewLog
  <2> HIDE DEF n, e
  <2>1. CASE n < start
    <3>1. e = 1 /\ CacheOf(n + 1, start) = << <<1, 0>> >>
      BY <1>1, <1>2, <2>1 DEF CacheOf
    <3>2. CASE n = 0
      <4>1. c = <<>>
        BY <2>0, <3>2 DEF CacheOf
      <4> QED BY <3>1, <3>2, <4>1 DEF Assigned
    <3>3. CASE n > 0
      <4>1. c = << <<1, 0>> >>
        BY <1>1, <2>0, <2>1, <3>3 DEF CacheOf
      <4>2. c # <<>> /\ ~ (Last(c)[1] < 1)
        BY <4>1 DEF Last
      <4> QED BY <3>1, <4>1, <4>2 DEF Assigned
    <3> QED BY <1>1, <3>2, <3>3
  <2>2. CASE n = start
    <3>1. e = 2
      BY <1>1, <1>2, <2>2
    <3>2. CASE n = 0
      <4>1. c = <<>> /\ CacheOf(n + 1, start) = << <<2, 0>> >>
        BY <2>0, <2>2, <3>2 DEF CacheOf
      <4> QED BY <3>1, <3>2, <4>1 DEF Assigned
    <3>3. CASE n > 0
      <4>1. c = << <<1, 0>> >> /\ CacheOf(n + 1, start) = << <<1, 0>>, <<2, n>> >>
        BY <1>1, <2>0, <2>2, <3>3 DEF CacheOf
      <4>2. c # <<>> /\ Last(c)[1] < 2
        BY <4>1 DEF Last
      <4>3. Assigned(c, e, n) = Append(c, <<2, n>>)
        BY <3>1, <4>2 DEF Assigned
      <4>4. Append(<< <<1, 0>> >>, <<2, n>>) = << <<1, 0>>, <<2, n>> >>
        BY <1>1, TwoEntries
      <4> QED BY <4>1, <4>3, <4>4
    <3> QED BY <1>1, <3>2, <3>3
  <2>3. CASE n > start
    <3>1. e = 2 /\ c = CacheOf(n + 1, start)
      BY <1>1, <1>2, <2>0, <2>3 DEF CacheOf
    <3>2. c = << <<2, 0>> >> \/ c = << <<1, 0>>, <<2, start>> >>
      BY <1>1, <2>0, <2>3 DEF CacheOf
    <3>3. c # <<>> /\ ~ (Last(c)[1] < 2)
      <4>1. CASE c = << <<2, 0>> >>
        BY <4>1 DEF Last
      <4>2. CASE c = << <<1, 0>>, <<2, start>> >>
        BY <4>2 DEF Last
      <4> QED BY <3>2, <4>1, <4>2
    <3> QED BY <3>1, <3>3 DEF Assigned
  <2> QED BY <1>1, <2>1, <2>2, <2>3
<1> QED BY <1>3, <1>4, <1>5 DEF NewLog, t

\* A broker whose whole cache the leader shares is cut where its last epoch ends there.
LEMMA AllAgree ==
  ASSUME AlwaysInv, NEW b \in Broker, NEW leader \in Broker, entries[b] # <<>>,
         \A i \in DOMAIN entries[b] :
           \E k \in DOMAIN entries[leader] : entries[leader][k] = entries[b][i],
         NEW j \in DOMAIN entries[leader], entries[leader][j] = Last(entries[b])
  PROVE  DivergePoint(b, leader) = EpochEnd(b, leader, j)
<1> DEFINE n == Len(entries[b])
           A == AgreedMarkers(b, leader)
<1>1. /\ entries[b] \in Seq(Epoch \X Nat) /\ n \in Nat /\ n > 0 /\ DOMAIN entries[b] = 1 .. n
      /\ entries[leader] \in Seq(Epoch \X Nat)
      /\ CacheAscends(entries[leader], Len(log[leader]))
  BY Fields, EmptySeq, SMTT(30)
<1>2. A \in SUBSET (1 .. n) /\ n \in A
  <2>1. n \in DOMAIN entries[b] /\ \A i \in 1 .. n : i \in DOMAIN entries[b]
    BY <1>1
  <2>2. A \in SUBSET (1 .. n)
    BY <1>1 DEF AgreedMarkers
  <2> QED BY <2>1, <2>2, Zenon DEF AgreedMarkers
<1>3. Max(A) = n
  <2> HIDE DEF A, n
  <2>1. A \in SUBSET Nat /\ A # {} /\ (\A y \in A : y <= n) /\ n \in A
    BY <1>1, <1>2
  <2>2. Max(A) \in A /\ \A y \in A : y <= Max(A)
    BY <1>1, <2>1, MaxOfNaturals
  <2>3. Max(A) \in Nat /\ Max(A) <= n /\ n <= Max(A)
    BY <2>1, <2>2
  <2> QED BY <1>1, <2>3
<1>4. entries[b][n] = entries[leader][j]
  BY DEF Last
<1>5. ASSUME NEW k \in DOMAIN entries[leader], entries[leader][k] = entries[leader][j]
      PROVE  k = j
  <2>1. entries[leader][k] \in Epoch \X Nat /\ entries[leader][j] \in Epoch \X Nat
        /\ k \in Int /\ j \in Int
    <3>1. DOMAIN entries[leader] = 1 .. Len(entries[leader]) /\ Len(entries[leader]) \in Nat
      BY <1>1
    <3>2. \A x \in DOMAIN entries[leader] : entries[leader][x] \in Epoch \X Nat
      BY <1>1
    <3>3. \A x \in 1 .. Len(entries[leader]) : x \in Int
      BY <3>1
    <3> QED BY <3>1, <3>2, <3>3, Zenon
  <2>2. entries[leader][k][1] = entries[leader][j][1] /\ entries[leader][k][1] \in Int
    BY <1>5, <2>1 DEF Epoch
  <2>3. ~ (k < j)
    BY <1>1, <2>2 DEF CacheAscends
  <2>4. ~ (j < k)
    BY <1>1, <2>2 DEF CacheAscends
  <2> QED BY <2>1, <2>3, <2>4
<1>6. j = CHOOSE k \in DOMAIN entries[leader] : entries[leader][k] = entries[b][n]
  BY <1>4, <1>5, Zenon
<1>7. A # {}
  BY <1>2, Zenon
<1> HIDE DEF A
<1> QED BY <1>3, <1>6, <1>7, Zenon DEF DivergePoint, A

\* A broker whose first entry the leader lacks, or that has none, starts over.
LEMMA NoneAgree ==
  ASSUME AlwaysInv, NEW b \in Broker, NEW leader \in Broker,
         entries[b] # <<>> =>
           \A k \in DOMAIN entries[leader] : entries[leader][k] # entries[b][1]
  PROVE  DivergePoint(b, leader) = 0
<1>1. entries[b] \in Seq(Epoch \X Nat) /\ Len(entries[b]) \in Nat
      /\ DOMAIN entries[b] = 1 .. Len(entries[b])
  BY Fields
<1>2. ASSUME NEW n \in AgreedMarkers(b, leader) PROVE FALSE
  <2>1. n \in DOMAIN entries[b] /\ 1 \in 1 .. n /\ entries[b] # <<>>
    BY <1>1 DEF AgreedMarkers
  <2>2. \E k \in DOMAIN entries[leader] : entries[leader][k] = entries[b][1]
    BY <2>1 DEF AgreedMarkers
  <2> QED BY <2>1, <2>2
<1> QED BY <1>2, Zenon DEF DivergePoint

\* Where recovery cuts, once the point of divergence is known.
LEMMA RecoversTo ==
  ASSUME AlwaysInv, NEW b \in Broker, NEW leader \in Broker,
         NEW d \in Nat, DivergePoint(b, leader) = d, NEW to \in Nat,
         to \in {d, LogEnd(b)}, to <= d, to <= LogEnd(b), to <= LogEnd(leader)
  PROVE  RecoverTo(b, leader) = to
<1>1. LogEnd(b) \in Nat /\ LogEnd(leader) \in Nat
  BY Fields
<1>2. Min({d, LogEnd(leader), LogEnd(b)}) \in {d, LogEnd(leader), LogEnd(b)}
      /\ Min({d, LogEnd(leader), LogEnd(b)}) <= d
      /\ Min({d, LogEnd(leader), LogEnd(b)}) <= LogEnd(leader)
      /\ Min({d, LogEnd(leader), LogEnd(b)}) <= LogEnd(b)
  <2> HIDE DEF LogEnd
  <2> QED BY <1>1, MinOfThree
<1> HIDE DEF LogEnd
<1> QED BY <1>1, <1>2 DEF RecoverTo
----------------------------------------------------------------------------
(***************************************************************************)
(* One clean failover: the steps.                                          *)
(***************************************************************************)

\* Epochs, and who leads them.
LEMMA Leaders ==
  ASSUME OneCleanFailover, AlwaysInv
  PROVE  /\ leader_of[1] \in Broker
         /\ elector.epoch \in {1, 2}
         /\ \A b \in Broker : epoch[b] \in {1, 2} /\ epoch[b] <= elector.epoch
         /\ CurrentLeader \in Broker
         /\ elector.epoch = 1 => CurrentLeader = leader_of[1]
         /\ elector.epoch = 2 => CurrentLeader = leader_of[2]
         /\ \A b \in Broker : epoch[b] = 2 => elector.epoch = 2
         /\ \A b \in Broker : mode[b] = "serving" => leader_of[epoch[b]] = b
<1> USE ReplicationAssumption
<1>1. elector.epoch \in 1 .. MaxEpoch /\ \A b \in Broker : epoch[b] \in 1 .. MaxEpoch
  BY DEF AlwaysInv, Types, Epoch
<1>2. elector.epoch \in {1, 2} /\ \A b \in Broker : epoch[b] \in {1, 2}
  BY <1>1 DEF OneCleanFailover
<1>3. \A b \in Broker : epoch[b] <= elector.epoch
  BY DEF AlwaysInv, Elected
<1>4. \A b \in Broker : epoch[b] = 2 => elector.epoch = 2
  BY <1>2, <1>3
<1> QED BY <1>2, <1>3, <1>4 DEF AlwaysInv, Elected, CurrentLeader

\* After the failover.
LEMMA SecondLeader ==
  ASSUME OneCleanFailover, FailoverInv, Failover
  PROVE  /\ leader_of[2] \in Broker /\ CurrentLeader = leader_of[2]
         /\ AfterInv
         /\ Start2 \in Nat
         /\ entries[leader_of[2]] = << <<1, 0>>, <<2, Start2>> >>
              \/ (Start2 = 0 /\ entries[leader_of[2]] = << <<2, 0>> >>)
         /\ LeaderLog(log[leader_of[2]], entries[leader_of[2]], Start2)
<1>1. leader_of[2] \in Broker /\ CurrentLeader = leader_of[2]
  BY Leaders DEF FailoverInv, Failover
<1>2. AfterInv /\ LeaderLog(log[leader_of[2]], entries[leader_of[2]], Start2)
  BY DEF FailoverInv, AfterInv
<1>3. entries[leader_of[2]] = << <<1, 0>>, <<2, Start2>> >>
              \/ (Start2 = 0 /\ entries[leader_of[2]] = << <<2, 0>> >>)
  BY <1>2 DEF LeaderLog
<1>4. Start2 \in Nat
  <2>1. entries[leader_of[2]] \in Seq(Epoch \X Nat)
    BY <1>1, Fields DEF FailoverInv
  <2>2. entries[leader_of[2]] # <<>>
    BY <1>3
  <2>3. Len(entries[leader_of[2]]) \in DOMAIN entries[leader_of[2]]
    BY <2>1, <2>2, EmptySeq
  <2>4. entries[leader_of[2]][Len(entries[leader_of[2]])] \in Epoch \X Nat
    BY <2>1, <2>3
  <2> QED BY <2>4 DEF Start2, Last
<1> QED BY <1>1, <1>2, <1>3, <1>4

\* An old log is cut where the second epoch begins, or keeps what it has below.
SecondCut(b) == IF LogEnd(b) <= Start2 THEN LogEnd(b) ELSE Start2

\* A restarted broker with an old log.
LEMMA OldRecovers ==
  ASSUME OneCleanFailover, FailoverInv, Failover, NEW b \in Broker,
         OldLog(log[b], entries[b])
  PROVE  RecoverTo(b, leader_of[2]) = SecondCut(b)
<1> DEFINE w == leader_of[2]
<1>1. /\ AlwaysInv /\ w \in Broker /\ Start2 \in Nat
      /\ LogEnd(b) \in Nat /\ LogEnd(w) \in Nat /\ Start2 <= LogEnd(w)
      /\ entries[w] = << <<1, 0>>, <<2, Start2>> >> \/ (Start2 = 0 /\ entries[w] = << <<2, 0>> >>)
  BY SecondLeader, Fields DEF FailoverInv, LeaderLog
<1> HIDE DEF w
<1>2. CASE entries[b] = <<>>
  <2>1. LogEnd(b) = 0
    BY <1>2 DEF OldLog, LogEnd
  <2>2. DivergePoint(b, w) = 0
    BY <1>1, <1>2, NoneAgree
  <2>3. SecondCut(b) = 0
    BY <1>1, <2>1 DEF SecondCut
  <2> HIDE DEF LogEnd
  <2> QED BY <1>1, <2>1, <2>2, <2>3, RecoversTo DEF w
<1>3. CASE entries[b] = << <<1, 0>> >> /\ entries[w] = << <<1, 0>>, <<2, Start2>> >>
  <2>1. /\ entries[b] # <<>> /\ 1 \in DOMAIN entries[w] /\ entries[w][1] = <<1, 0>>
        /\ Last(entries[b]) = <<1, 0>> /\ DOMAIN entries[b] = {1} /\ entries[b][1] = <<1, 0>>
    BY <1>3 DEF Last
  <2>2. DivergePoint(b, w) = EpochEnd(b, w, 1)
    BY <1>1, <2>1, AllAgree
  <2>3. EpochEnd(b, w, 1) = Start2
    BY <1>3 DEF EpochEnd
  <2>4. /\ SecondCut(b) \in {Start2, LogEnd(b)} /\ SecondCut(b) \in Nat
        /\ SecondCut(b) <= Start2 /\ SecondCut(b) <= LogEnd(b) /\ SecondCut(b) <= LogEnd(w)
    <3> HIDE DEF LogEnd
    <3> QED BY <1>1 DEF SecondCut
  <2> QED BY <1>1, <2>2, <2>3, <2>4, RecoversTo DEF w
<1>4. CASE entries[b] = << <<1, 0>> >> /\ Start2 = 0 /\ entries[w] = << <<2, 0>> >>
  <2>1. DOMAIN entries[w] = {1} /\ entries[w][1] = <<2, 0>> /\ entries[b][1] = <<1, 0>>
        /\ <<1, 0>> # <<2, 0>>
    BY <1>4
  <2>2. DivergePoint(b, w) = 0
    BY <1>1, <2>1, NoneAgree
  <2>3. SecondCut(b) = 0
    BY <1>1, <1>4 DEF SecondCut
  <2> HIDE DEF LogEnd
  <2> QED BY <1>1, <2>2, <2>3, RecoversTo DEF w
<1> QED BY <1>1, <1>2, <1>3, <1>4 DEF OldLog

\* A restarted broker in line loses nothing.
LEMMA NewRecovers ==
  ASSUME OneCleanFailover, FailoverInv, Failover, NEW b \in Broker, IsNew(b)
  PROVE  RecoverTo(b, leader_of[2]) = LogEnd(b)
<1> DEFINE w == leader_of[2]
           n == LogEnd(b)
<1>1. /\ AlwaysInv /\ w \in Broker /\ Start2 \in Nat
      /\ n \in Nat /\ LogEnd(w) \in Nat /\ Start2 <= LogEnd(w) /\ n <= LogEnd(w)
      /\ entries[w] = << <<1, 0>>, <<2, Start2>> >> \/ (Start2 = 0 /\ entries[w] = << <<2, 0>> >>)
      /\ entries[b] = CacheOf(n, Start2)
  BY SecondLeader, Fields DEF FailoverInv, LeaderLog, IsNew, NewLog
<1>2. ASSUME NEW d \in Nat, DivergePoint(b, w) = d, n <= d
      PROVE  RecoverTo(b, w) = n
  <2> HIDE DEF w, LogEnd
  <2> QED BY <1>1, <1>2, RecoversTo
<1> HIDE DEF w, n
<1>3. CASE n = 0
  <2>1. entries[b] = <<>>
    BY <1>1, <1>3 DEF CacheOf
  <2>2. DivergePoint(b, w) = 0
    BY <1>1, <2>1, NoneAgree
  <2> QED BY <1>1, <1>2, <1>3, <2>2 DEF w, n
<1>4. CASE n > 0 /\ n <= Start2
  <2>1. entries[b] = << <<1, 0>> >> /\ entries[w] = << <<1, 0>>, <<2, Start2>> >>
    BY <1>1, <1>4 DEF CacheOf
  <2>2. /\ entries[b] # <<>> /\ 1 \in DOMAIN entries[w] /\ entries[w][1] = <<1, 0>>
        /\ Last(entries[b]) = <<1, 0>> /\ DOMAIN entries[b] = {1} /\ entries[b][1] = <<1, 0>>
    BY <2>1 DEF Last
  <2>3. DivergePoint(b, w) = EpochEnd(b, w, 1)
    BY <1>1, <2>2, AllAgree
  <2>4. EpochEnd(b, w, 1) = Start2
    BY <2>1 DEF EpochEnd
  <2> QED BY <1>1, <1>2, <1>4, <2>3, <2>4 DEF w, n
<1>5. CASE n > Start2 /\ Start2 = 0
  <2>1. entries[b] = << <<2, 0>> >>
    BY <1>1, <1>5 DEF CacheOf
  <2>2. /\ entries[b] # <<>> /\ DOMAIN entries[b] = {1} /\ entries[b][1] = <<2, 0>>
        /\ Last(entries[b]) = <<2, 0>>
    BY <2>1 DEF Last
  <2>3. PICK j \in DOMAIN entries[w] : entries[w][j] = <<2, 0>> /\ j = Len(entries[w])
    <3>1. CASE entries[w] = << <<1, 0>>, <<2, Start2>> >>
      <4>1. 2 \in DOMAIN entries[w] /\ entries[w][2] = <<2, 0>> /\ Len(entries[w]) = 2
        BY <3>1, <1>5
      <4> QED BY <4>1
    <3>2. CASE entries[w] = << <<2, 0>> >>
      <4>1. 1 \in DOMAIN entries[w] /\ entries[w][1] = <<2, 0>> /\ Len(entries[w]) = 1
        BY <3>2
      <4> QED BY <4>1
    <3> QED BY <1>1, <3>1, <3>2
  <2>4. DivergePoint(b, w) = EpochEnd(b, w, j)
    BY <1>1, <2>2, <2>3, AllAgree
  <2>5. Len(entries[w]) \in Nat
    BY <1>1, Fields
  <2>6. EpochEnd(b, w, j) = n
    BY <2>3, <2>5 DEF EpochEnd, n
  <2> QED BY <1>1, <1>2, <2>4, <2>6 DEF w, n
<1>6. CASE n > Start2 /\ Start2 > 0
  <2>1. entries[b] = << <<1, 0>>, <<2, Start2>> >> /\ entries[w] = entries[b]
    BY <1>1, <1>6 DEF CacheOf
  <2>2. /\ entries[b] # <<>> /\ 2 \in DOMAIN entries[w]
        /\ entries[w][2] = Last(entries[b]) /\ Len(entries[w]) = 2
        /\ \A i \in DOMAIN entries[b] : entries[w][i] = entries[b][i]
    BY <2>1 DEF Last
  <2>3. DivergePoint(b, w) = EpochEnd(b, w, 2)
    BY <1>1, <2>1, <2>2, AllAgree
  <2>4. EpochEnd(b, w, 2) = n
    BY <2>2 DEF EpochEnd, n
  <2> QED BY <1>1, <1>2, <2>3, <2>4 DEF w, n
<1> QED BY <1>1, <1>3, <1>4, <1>5, <1>6 DEF w, n

\* A broker restarted in the first epoch loses nothing.
LEMMA FirstRecovers ==
  ASSUME OneCleanFailover, FailoverInv, elector.epoch = 1, NEW b \in Broker
  PROVE  RecoverTo(b, leader_of[1]) = LogEnd(b) /\ OldLog(log[b], entries[b])
<1> DEFINE w == leader_of[1]
<1>1. /\ AlwaysInv /\ w \in Broker /\ epoch[w] = 1 /\ epoch[b] = 1
      /\ LogEnd(b) \in Nat /\ LogEnd(w) \in Nat
  BY Leaders, Fields DEF FailoverInv
<1>2. entries[w] = << <<1, 0>> >> /\ LogEnd(b) <= LogEnd(w)
  BY <1>1 DEF FailoverInv, FirstLeads
<1>3. OldLog(log[b], entries[b])
  BY DEF FailoverInv, Failover, BeforeInv
<1> HIDE DEF w
<1>4. CASE entries[b] = <<>>
  <2>1. LogEnd(b) = 0
    BY <1>3, <1>4 DEF OldLog, LogEnd
  <2>2. DivergePoint(b, w) = 0
    BY <1>1, <1>4, NoneAgree
  <2> HIDE DEF LogEnd
  <2> QED BY <1>1, <1>3, <2>1, <2>2, RecoversTo DEF w
<1>5. CASE entries[b] = << <<1, 0>> >>
  <2>1. /\ entries[b] # <<>> /\ 1 \in DOMAIN entries[w] /\ entries[w][1] = <<1, 0>>
        /\ Last(entries[b]) = <<1, 0>> /\ DOMAIN entries[b] = {1} /\ entries[b][1] = <<1, 0>>
        /\ Len(entries[w]) = 1
    BY <1>2, <1>5 DEF Last
  <2>2. DivergePoint(b, w) = EpochEnd(b, w, 1)
    BY <1>1, <2>1, AllAgree
  <2>3. EpochEnd(b, w, 1) = LogEnd(b)
    BY <2>1 DEF EpochEnd
  <2> HIDE DEF LogEnd
  <2> QED BY <1>1, <1>2, <1>3, <2>2, <2>3, RecoversTo DEF w
<1> QED BY <1>3, <1>4, <1>5 DEF OldLog

\* The handshake of a broker with an old log.
LEMMA OldReconciles ==
  ASSUME OneCleanFailover, FailoverInv, Failover, NEW b \in Broker,
         OldLog(log[b], entries[b])
  PROVE  TruncationPoint(b, leader_of[2]) = SecondCut(b)
<1> DEFINE w == leader_of[2]
<1>1. /\ AlwaysInv /\ w \in Broker /\ Start2 \in Nat
      /\ LogEnd(b) \in Nat /\ LogEnd(w) \in Nat /\ Start2 <= LogEnd(w)
      /\ entries[w] = << <<1, 0>>, <<2, Start2>> >> \/ (Start2 = 0 /\ entries[w] = << <<2, 0>> >>)
  BY SecondLeader, Fields DEF FailoverInv, LeaderLog
<1> HIDE DEF w
<1>2. CASE entries[b] = <<>>
  <2>1. LogEnd(b) = 0
    BY <1>2 DEF OldLog, LogEnd
  <2>2. SecondCut(b) = 0
    BY <1>1, <2>1 DEF SecondCut
  <2> QED BY <1>2, <2>1, <2>2 DEF TruncationPoint
<1>3. CASE entries[b] = << <<1, 0>> >>
  <2>1. entries[b] # <<>> /\ Last(entries[b])[1] = 1
    BY <1>3 DEF Last
  <2>2. CASE Start2 = 0 /\ entries[w] = << <<2, 0>> >>
    <3>1. Head(entries[w])[1] = 2
      BY <2>2
    <3>2. ~KnowsEpoch(w, 1)
      BY <3>1 DEF KnowsEpoch
    <3>3. TruncationPoint(b, w) = 0
      BY <2>1, <3>2 DEF TruncationPoint
    <3>4. SecondCut(b) = 0
      <4> HIDE DEF LogEnd
      <4> QED BY <1>1, <2>2 DEF SecondCut
    <3> QED BY <3>3, <3>4 DEF w
  <2> SUFFICES ASSUME ~(Start2 = 0 /\ entries[w] = << <<2, 0>> >>)
               PROVE  TruncationPoint(b, leader_of[2]) = SecondCut(b)
    BY <2>2
  <2>3. entries[w] = << <<1, 0>>, <<2, Start2>> >>
    BY <1>1
  <2>9. KnowsEpoch(w, 1)
    <3>1. entries[w] # <<>> /\ Head(entries[w])[1] = 1
      BY <2>3
    <3> QED BY <3>1 DEF KnowsEpoch
  <2>4. EndOffsetFor(w, 1) = Start2
    <3> DEFINE later == {i \in DOMAIN entries[w] : entries[w][i][1] > 1}
    <3>1. DOMAIN entries[w] = {1, 2} /\ entries[w][1][1] = 1 /\ entries[w][2] = <<2, Start2>>
      BY <2>3
    <3>2. later = {2}
      BY <3>1
    <3>3. Min({2}) = 2
      <4>1. {2} \in SUBSET Nat /\ {2} # {}
        OBVIOUS
      <4> QED BY <4>1, MinOfNaturals
    <3>4. EndOffsetFor(w, 1) = entries[w][Min(later)][2]
      BY <3>2 DEF EndOffsetFor
    <3>5. entries[w][2][2] = Start2
      BY <3>1
    <3> HIDE DEF later
    <3> QED BY <3>2, <3>3, <3>4, <3>5, Zenon
  <2>5. TruncationPoint(b, w) = Min({LogEnd(b), Start2})
    BY <2>1, <2>4, <2>9 DEF TruncationPoint
  <2> HIDE DEF LogEnd
  <2> QED BY <1>1, <2>5, MinOfTwo DEF SecondCut, w
<1> QED BY <1>2, <1>3 DEF OldLog

\* The in-sync set has no part in the invariant.
LEMMA FailoverInSync ==
  ASSUME OneCleanFailover, FailoverInv, AlwaysInv', NEW b \in Broker,
         EvictLaggards(b) \/ Readmit(b)
  PROVE  FailoverInv'
<1>1. UNCHANGED <<log, entries, epoch, mode, watermark, elector, leader_of, promised>>
  BY DEF EvictLaggards, Readmit, brokerVars
<1>2. FirstLeads' /\ (\A k \in Broker : mode'[k] = "stopped" => epoch'[k] = 2)
      /\ (Failover' <=> Failover) /\ Start2' = Start2
  BY <1>1 DEF FailoverInv, FirstLeads, LogEnd, Failover, Start2
<1>3. BeforeInv => BeforeInv'
  BY <1>1 DEF BeforeInv, LogEnd, CurrentLeader
<1>4. AfterInv => AfterInv'
  BY <1>1, <1>2 DEF AfterInv, LogEnd, IsOld, IsNew
<1> QED BY <1>2, <1>3, <1>4 DEF FailoverInv

\* Crashes, restarts and demotions.
LEMMA FailoverModes ==
  ASSUME OneCleanFailover, FailoverInv, AlwaysInv', NEW b \in Broker,
         Crash(b) \/ Restart(b) \/ StopServing(b)
  PROVE  FailoverInv'
<1>1. /\ UNCHANGED <<log, entries, watermark, elector, leader_of, promised>>
      /\ \A k \in Broker \ {b} : mode'[k] = mode[k] /\ epoch'[k] = epoch[k]
      /\ \/ mode'[b] \in {"down", "recovering"} /\ epoch'[b] = epoch[b]
         \/ /\ mode'[b] = "stopped" /\ epoch[b] = 1 /\ epoch'[b] = 2
            /\ elector.epoch = 2 /\ b # leader_of[2]
  <2>1. /\ mode \in [Broker -> {"serving", "fetching", "stopped", "recovering", "down"}]
        /\ epoch \in [Broker -> Epoch]
    BY DEF FailoverInv, AlwaysInv, Types
  <2>2. CASE Crash(b) \/ Restart(b)
    BY <2>1, <2>2 DEF Crash, Restart
  <2>3. CASE StopServing(b)
    <3>1. /\ epoch' = [epoch EXCEPT ![b] = elector.epoch]
          /\ mode' = [mode EXCEPT ![b] = "stopped"]
          /\ epoch[b] < elector.epoch /\ CurrentLeader # b
          /\ UNCHANGED <<log, entries, watermark, elector, leader_of, promised>>
      BY <2>3 DEF StopServing
    <3>2. elector.epoch \in {1, 2} /\ epoch[b] \in {1, 2}
          /\ (elector.epoch = 2 => CurrentLeader = leader_of[2])
      BY Leaders DEF FailoverInv
    <3> QED BY <2>1, <3>1, <3>2
  <2> QED BY <2>2, <2>3
<1>2. \A k \in Broker : mode'[k] = "stopped" => epoch'[k] = 2
  BY <1>1 DEF FailoverInv
<1>3. /\ leader_of[1] \in Broker /\ (elector.epoch = 2 => leader_of[2] \in Broker)
      /\ CurrentLeader \in Broker
  BY Leaders DEF FailoverInv
<1>4. FirstLeads'
  BY <1>1, <1>3 DEF FailoverInv, FirstLeads, LogEnd
<1>5. (Failover' <=> Failover) /\ Start2' = Start2
  BY <1>1, <1>3 DEF Failover, Start2
<1>6. ASSUME ~ Failover PROVE BeforeInv'
  BY <1>1, <1>6 DEF FailoverInv, BeforeInv, LogEnd, CurrentLeader
<1>7. ASSUME Failover PROVE AfterInv'
  <2>1. AfterInv /\ leader_of[2] \in Broker
    BY <1>3, <1>7 DEF FailoverInv, Failover
  <2>2. mode'[leader_of[2]] \in {"serving", "down", "recovering"}
    BY <1>1, <2>1 DEF AfterInv
  <2>3. ASSUME NEW k \in Broker \ {leader_of[2]}
        PROVE  /\ (IsOld(k) \/ IsNew(k))'
               /\ epoch'[k] = 1 \/ mode'[k] = "stopped" => IsOld(k)'
               /\ mode'[k] = "fetching" /\ epoch'[k] = 2 => IsNew(k)'
    <3>1. (IsOld(k)' <=> IsOld(k)) /\ (IsNew(k)' <=> IsNew(k))
      BY <1>1, <1>5 DEF IsOld, IsNew
    <3> QED BY <1>1, <2>1, <3>1 DEF AfterInv
  <2> QED BY <1>1, <1>5, <2>1, <2>2, <2>3 DEF AfterInv, LogEnd
<1> QED BY <1>2, <1>4, <1>5, <1>6, <1>7 DEF FailoverInv

\* A leader appends.
LEMMA FailoverProduce ==
  ASSUME OneCleanFailover, FailoverInv, AlwaysInv', NEW b \in Broker, Produce(b)
  PROVE  FailoverInv'
<1>1. /\ UNCHANGED <<entries, epoch, mode, watermark, elector, leader_of, promised>>
      /\ mode[b] = "serving"
      /\ log' = [log EXCEPT ![b] = Append(log[b], epoch[b])]
  BY DEF Produce
<1>2. /\ log \in [Broker -> Seq(Epoch)] /\ log[b] \in Seq(Epoch) /\ Len(log[b]) \in Nat
      /\ epoch[b] \in Epoch /\ AlwaysInv
  BY Fields DEF FailoverInv, AlwaysInv, Types
<1>3. /\ log'[b] = Append(log[b], epoch[b]) /\ Len(log'[b]) = Len(log[b]) + 1
      /\ \A i \in 1 .. Len(log[b]) : log'[b][i] = log[b][i]
      /\ log'[b][Len(log[b]) + 1] = epoch[b]
      /\ log'[b] \in Seq(Epoch)
      /\ \A k \in Broker \ {b} : log'[k] = log[k]
  BY <1>1, <1>2
<1>4. /\ leader_of[1] \in Broker /\ leader_of[epoch[b]] = b /\ epoch[b] \in {1, 2}
      /\ CurrentLeader \in Broker /\ (epoch[b] = 2 => elector.epoch = 2)
      /\ \A k \in Broker : epoch[k] <= elector.epoch
      /\ elector.epoch \in {1, 2}
  BY <1>1, <1>2, Leaders
<1>5. FirstLeads'
  <2> SUFFICES ASSUME epoch[leader_of[1]] = 1
               PROVE  /\ entries[leader_of[1]] = << <<1, 0>> >>
                      /\ \A k \in Broker : epoch[k] = 1 => Len(log'[k]) <= Len(log'[leader_of[1]])
    BY <1>1 DEF FirstLeads, LogEnd
  <2>1. /\ entries[leader_of[1]] = << <<1, 0>> >>
        /\ \A k \in Broker : epoch[k] = 1 => Len(log[k]) <= Len(log[leader_of[1]])
    BY DEF FailoverInv, FirstLeads, LogEnd
  <2>2. \A k \in Broker : Len(log[k]) \in Nat
    BY <1>2, Fields
  <2>3. CASE epoch[b] = 1
    BY <1>3, <1>4, <2>1, <2>2, <2>3
  <2>4. CASE epoch[b] = 2
    BY <1>3, <1>4, <2>1, <2>2, <2>4
  <2> QED BY <1>4, <2>1, <2>3, <2>4
<1>6. (Failover' <=> Failover) /\ Start2' = Start2
  BY <1>1 DEF Failover, Start2
<1>7. ASSUME epoch[b] = 1, OldLog(log[b], entries[b]) PROVE OldLog(log'[b], entries[b])
  <2>1. entries[b] = << <<1, 0>> >>
    BY <1>4, <1>7 DEF FailoverInv, FirstLeads
  <2>2. DOMAIN log'[b] = 1 .. Len(log[b]) + 1 /\ DOMAIN log[b] = 1 .. Len(log[b])
    BY <1>2, <1>3
  <2>3. \A i \in DOMAIN log'[b] : log'[b][i] = 1
    BY <1>2, <1>3, <1>7, <2>2 DEF OldLog
  <2> QED BY <2>1, <2>3 DEF OldLog
<1>8. ASSUME ~ Failover PROVE BeforeInv'
  <2>1. epoch[b] = 1 /\ BeforeInv
    BY <1>4, <1>8 DEF Failover, FailoverInv
  <2>2. \A k \in Broker : OldLog(log'[k], entries'[k])
    BY <1>1, <1>3, <1>7, <2>1 DEF BeforeInv
  <2>3. CurrentLeader' = CurrentLeader /\ Len(promised) \in Nat
    BY <1>1, <1>2 DEF CurrentLeader, AlwaysInv, Types
  <2>4. Len(promised) <= Len(log[CurrentLeader]) /\ Len(log[CurrentLeader]) \in Nat
    BY <1>2, <1>4, <2>1, Fields DEF BeforeInv, LogEnd
  <2>5. Len(promised) <= Len(log'[CurrentLeader])
    BY <1>3, <1>4, <2>3, <2>4
  <2> QED BY <1>1, <2>1, <2>2, <2>3, <2>5 DEF BeforeInv, LogEnd
<1>9. ASSUME Failover PROVE AfterInv'
  <2> DEFINE w == leader_of[2]
  <2>1. w \in Broker /\ AfterInv /\ Start2 \in Nat /\ LeaderLog(log[w], entries[w], Start2)
    BY <1>9, SecondLeader
  <2>2. Len(log[w]) \in Nat /\ Len(promised) \in Nat /\ log[w] \in Seq(Epoch)
        /\ DOMAIN promised = 1 .. Len(promised)
    <3>1. promised \in Seq(Epoch)
      BY <1>2 DEF AlwaysInv, Types
    <3>2. Len(log[w]) \in Nat /\ log[w] \in Seq(Epoch)
      BY <1>2, <2>1, Fields
    <3> QED BY <3>1, <3>2
  <2>3. CASE b # w
    <3>1. log'[w] = log[w] /\ epoch[b] = 1
      BY <1>3, <1>4, <2>1, <2>3
    <3>2. \A k \in Broker \ {w} : (IsOld(k) => IsOld(k)') /\ (k # b /\ IsNew(k) => IsNew(k)')
      BY <1>1, <1>3, <1>6, <1>7, <3>1 DEF IsOld, IsNew
    <3>3. IsOld(b)
      BY <2>1, <2>3, <3>1 DEF AfterInv
    <3> QED BY <1>1, <1>6, <2>1, <3>1, <3>2, <3>3 DEF AfterInv, LogEnd
  <2>4. CASE b = w
    <3>1. epoch[b] = 2
      BY <1>9, <2>4 DEF Failover
    <3>2. /\ Len(log'[w]) = Len(log[w]) + 1 /\ DOMAIN log'[w] = 1 .. Len(log[w]) + 1
          /\ DOMAIN log[w] = 1 .. Len(log[w])
          /\ (\A i \in 1 .. Len(log[w]) : log'[w][i] = log[w][i]) /\ log'[w][Len(log[w]) + 1] = 2
      BY <1>2, <1>3, <2>4, <3>1
    <3>3. LeaderLog(log'[w], entries[w], Start2)
      <4>1. Start2 <= Len(log'[w])
        BY <2>1, <2>2, <3>2 DEF LeaderLog
      <4>2. \A i \in DOMAIN log'[w] : log'[w][i] = IF i <= Start2 THEN 1 ELSE 2
        BY <2>1, <2>2, <3>2, SMTT(30) DEF LeaderLog
      <4> QED BY <2>1, <4>1, <4>2 DEF LeaderLog
    <3>4. \A i \in DOMAIN promised : promised[i] = log'[w][i]
      <4>1. Len(promised) <= Len(log[w]) /\ \A i \in DOMAIN promised : promised[i] = log[w][i]
        BY <2>1 DEF AfterInv, LogEnd
      <4> QED BY <2>2, <3>2, <4>1
    <3>5. Len(promised) <= Len(log'[w])
      BY <2>1, <2>2, <3>2 DEF AfterInv, LogEnd
    <3>6. ASSUME NEW k \in Broker \ {w}
          PROVE  (IsOld(k) => IsOld(k)') /\ (IsNew(k) => IsNew(k)')
      <4>1. log'[k] = log[k] /\ log[k] \in Seq(Epoch) /\ Len(log[k]) \in Nat
            /\ DOMAIN log[k] = 1 .. Len(log[k])
        BY <1>2, <1>3, <2>4, Fields
      <4>2. IsOld(k) => IsOld(k)'
        BY <1>1, <1>6, <4>1 DEF IsOld
      <4>3. NewLog(log[k], entries[k], log[w], Start2) => NewLog(log[k], entries[k], log'[w], Start2)
        <5> HIDE DEF w
        <5> QED BY <2>2, <3>2, <4>1, SMTT(30) DEF NewLog
      <4> QED BY <1>1, <1>6, <4>1, <4>2, <4>3 DEF IsNew
    <3> QED BY <1>1, <1>6, <2>1, <3>3, <3>4, <3>5, <3>6 DEF AfterInv, LogEnd
  <2> QED BY <2>3, <2>4
<1> QED BY <1>1, <1>5, <1>6, <1>8, <1>9 DEF FailoverInv

\* A follower fetches.
LEMMA FailoverFetch ==
  ASSUME OneCleanFailover, FailoverInv, AlwaysInv', NEW b \in Broker,
         NEW leader \in Broker \ {b}, Fetch(b, leader)
  PROVE  FailoverInv'
<1> DEFINE at == Len(log[b])
           e  == log[leader][at + 1]
<1>1. /\ UNCHANGED <<epoch, mode, elector, leader_of, promised>>
      /\ mode[b] = "fetching" /\ mode[leader] = "serving"
      /\ leader_of[epoch[b]] = leader /\ epoch[leader] = epoch[b]
      /\ watermark' = [watermark EXCEPT ![b] = Refreshed(watermark[b], watermark[leader])]
      /\ \/ UNCHANGED <<log, entries>>
         \/ /\ at < Len(log[leader])
            /\ log' = [log EXCEPT ![b] = Append(log[b], e)]
            /\ entries' = [entries EXCEPT ![b] = Assigned(entries[b], e, at)]
  BY DEF Fetch, Reachable, LogEnd
<1>2. /\ AlwaysInv /\ log \in [Broker -> Seq(Epoch)] /\ entries \in [Broker -> Seq(Epoch \X Nat)]
      /\ watermark \in [Broker -> Nat]
  BY DEF FailoverInv, AlwaysInv, Types
<1>3. /\ log[b] \in Seq(Epoch) /\ at \in Nat /\ DOMAIN log[b] = 1 .. at
      /\ log[leader] \in Seq(Epoch) /\ Len(log[leader]) \in Nat
      /\ watermark[b] \in Nat /\ watermark[leader] \in Nat
  BY <1>2, Fields
<1>4. /\ leader_of[1] \in Broker /\ epoch[b] \in {1, 2}
      /\ CurrentLeader \in Broker /\ (epoch[b] = 2 => elector.epoch = 2)
      /\ elector.epoch \in {1, 2} /\ (elector.epoch = 2 => CurrentLeader = leader_of[2])
  BY <1>2, Leaders
<1>5. /\ \A k \in Broker \ {b} : log'[k] = log[k] /\ entries'[k] = entries[k]
                                 /\ watermark'[k] = watermark[k]
      /\ watermark'[b] \in {watermark[b], watermark[leader]}
      /\ \/ log'[b] = log[b] /\ entries'[b] = entries[b]
         \/ /\ at < Len(log[leader]) /\ e \in Epoch
            /\ log'[b] = Append(log[b], e) /\ Len(log'[b]) = at + 1
            /\ entries'[b] = Assigned(entries[b], e, at)
  <2>1. Refreshed(watermark[b], watermark[leader]) \in {watermark[b], watermark[leader]}
    BY <1>3, RefreshedIs
  <2>2. at < Len(log[leader]) => e \in Epoch
    <3> HIDE DEF at
    <3> QED BY <1>3
  <2>3. at < Len(log[leader]) => Len(Append(log[b], e)) = at + 1
    BY <1>3, <2>2
  <2> HIDE DEF e, at
  <2>4. \A k \in Broker \ {b} : watermark'[k] = watermark[k]
    BY <1>1, <1>2
  <2>5. watermark'[b] = Refreshed(watermark[b], watermark[leader])
    BY <1>1, <1>2
  <2>6. CASE UNCHANGED <<log, entries>>
    BY <2>1, <2>4, <2>5, <2>6
  <2>7. CASE /\ at < Len(log[leader])
             /\ log' = [log EXCEPT ![b] = Append(log[b], e)]
             /\ entries' = [entries EXCEPT ![b] = Assigned(entries[b], e, at)]
    BY <1>2, <2>1, <2>2, <2>3, <2>4, <2>5, <2>7
  <2> QED BY <1>1, <2>6, <2>7
<1> HIDE DEF e, at
<1>6. Len(log'[b]) \in Nat /\ at <= Len(log'[b]) /\ (at <= Len(log[leader]) => Len(log'[b]) <= Len(log[leader]))
  <2>1. CASE log'[b] = log[b]
    BY <1>3, <2>1 DEF at
  <2>2. CASE at < Len(log[leader]) /\ Len(log'[b]) = at + 1
    BY <1>3, <2>2
  <2> QED BY <1>5, <2>1, <2>2
<1>7. CASE epoch[b] = 1
  <2>1. leader = leader_of[1] /\ epoch[leader] = 1
    BY <1>1, <1>7
  <2>2. /\ entries[leader] = << <<1, 0>> >>
        /\ \A k \in Broker : epoch[k] = 1 => Len(log[k]) <= Len(log[leader])
    BY <2>1 DEF FailoverInv, FirstLeads, LogEnd
  <2>3. /\ OldLog(log[b], entries[b]) /\ OldLog(log[leader], entries[leader])
        /\ (Failover => leader # leader_of[2] /\ b # leader_of[2] /\ IsOld(b) /\ IsOld(leader))
    <3>1. CASE ~ Failover
      BY <3>1 DEF FailoverInv, BeforeInv
    <3>2. CASE Failover
      <4>1. leader # leader_of[2] /\ b # leader_of[2]
        BY <1>7, <2>1, <3>2 DEF Failover
      <4> QED BY <1>7, <2>1, <3>2, <4>1 DEF FailoverInv, AfterInv, IsOld
    <3> QED BY <3>1, <3>2
  <2>4. OldLog(log'[b], entries'[b])
    <3>1. CASE log'[b] = log[b] /\ entries'[b] = entries[b]
      BY <2>3, <3>1
    <3>2. CASE /\ at < Len(log[leader])
               /\ log'[b] = Append(log[b], e) /\ entries'[b] = Assigned(entries[b], e, at)
      <4>1. at + 1 \in DOMAIN log[leader]
        BY <1>3, <3>2
      <4>2. e = 1
        BY <2>3, <4>1 DEF OldLog, e
      <4> QED BY <1>3, <2>3, <3>2, <4>2, OldGrows DEF at
    <3> QED BY <1>5, <3>1, <3>2
  <2>5. FirstLeads'
    <3>1. Len(log'[b]) <= Len(log[leader]) /\ log'[leader] = log[leader]
          /\ entries'[leader] = entries[leader]
      BY <1>5, <1>6, <1>7, <2>2 DEF at
    <3>2. \A k \in Broker : epoch[k] = 1 => Len(log'[k]) <= Len(log[leader])
      BY <1>5, <2>2, <3>1
    <3> QED BY <1>1, <2>1, <2>2, <3>1, <3>2 DEF FirstLeads, LogEnd
  <2>6. ASSUME ~ Failover PROVE ~ Failover' /\ BeforeInv'
    <3>1. \A k \in Broker : OldLog(log'[k], entries'[k])
      BY <1>5, <2>4, <2>6 DEF FailoverInv, BeforeInv
    <3>2. CurrentLeader' = CurrentLeader /\ Len(promised) \in Nat
      BY <1>1, <1>2 DEF CurrentLeader, AlwaysInv, Types
    <3>3. Len(promised) <= Len(log[CurrentLeader]) /\ Len(log[CurrentLeader]) \in Nat
      BY <1>2, <1>4, <2>6, Fields DEF FailoverInv, BeforeInv, LogEnd
    <3>4. Len(promised) <= Len(log'[CurrentLeader])
      <4>1. CASE CurrentLeader = b
        BY <1>6, <3>2, <3>3, <4>1 DEF at
      <4>2. CASE CurrentLeader # b
        BY <1>4, <1>5, <3>3, <4>2
      <4> QED BY <4>1, <4>2
    <3> QED BY <1>1, <2>6, <3>1, <3>2, <3>4 DEF FailoverInv, BeforeInv, LogEnd, Failover
  <2>7. ASSUME Failover PROVE Failover' /\ AfterInv'
    <3> DEFINE w == leader_of[2]
    <3>1. w \in Broker /\ AfterInv /\ Start2 \in Nat /\ w # b
      BY <2>3, <2>7, SecondLeader
    <3>2. log'[w] = log[w] /\ entries'[w] = entries[w] /\ Start2' = Start2 /\ Failover'
      BY <1>1, <1>5, <2>7, <3>1 DEF Failover, Start2
    <3>3. IsOld(b)'
      <4>1. watermark[b] <= Start2 /\ watermark[leader] <= Start2
        BY <2>3, <2>7 DEF IsOld
      <4> QED BY <1>5, <2>4, <3>2, <4>1 DEF IsOld
    <3>4. \A k \in Broker \ {w} : k # b => (IsOld(k)' <=> IsOld(k)) /\ (IsNew(k)' <=> IsNew(k))
      BY <1>1, <1>5, <3>2 DEF IsOld, IsNew
    <3> QED BY <1>1, <1>7, <3>1, <3>2, <3>3, <3>4 DEF AfterInv, LogEnd
  <2> QED BY <1>1, <2>5, <2>6, <2>7 DEF FailoverInv
<1>8. CASE epoch[b] = 2
  <2> DEFINE w == leader_of[2]
  <2>1. leader = w /\ epoch[w] = 2 /\ Failover
    BY <1>1, <1>4, <1>8 DEF Failover
  <2>2. w \in Broker /\ AfterInv /\ Start2 \in Nat /\ LeaderLog(log[w], entries[w], Start2) /\ w # b
    BY <2>1, SecondLeader
  <2>3. IsNew(b) /\ NewLog(log[b], entries[b], log[w], Start2)
    BY <1>1, <1>8, <2>2 DEF AfterInv, IsNew
  <2>4. log'[w] = log[w] /\ entries'[w] = entries[w] /\ Start2' = Start2 /\ Failover'
    BY <1>1, <1>5, <2>1, <2>2 DEF Failover, Start2
  <2>5. NewLog(log'[b], entries'[b], log[w], Start2)
    <3>1. CASE log'[b] = log[b] /\ entries'[b] = entries[b]
      BY <2>3, <3>1
    <3>2. CASE /\ at < Len(log[leader])
               /\ log'[b] = Append(log[b], e) /\ entries'[b] = Assigned(entries[b], e, at)
      BY <1>3, <2>1, <2>2, <2>3, <3>2, NewFetches DEF e, at
    <3> QED BY <1>5, <3>1, <3>2
  <2>6. IsNew(b)'
    BY <1>1, <2>4, <2>5 DEF IsNew
  <2>7. \A k \in Broker \ {w} : k # b => (IsOld(k)' <=> IsOld(k)) /\ (IsNew(k)' <=> IsNew(k))
    BY <1>1, <1>5, <2>4 DEF IsOld, IsNew
  <2>8. AfterInv'
    BY <1>1, <1>8, <2>2, <2>4, <2>6, <2>7 DEF AfterInv, LogEnd
  <2>9. FirstLeads'
    <3> SUFFICES ASSUME epoch[leader_of[1]] = 1 PROVE FirstLeads'
      BY <1>1 DEF FirstLeads
    <3>1. leader_of[1] # b
      BY <1>8
    <3>2. \A k \in Broker : epoch[k] = 1 => k # b
      BY <1>8
    <3> QED BY <1>1, <1>4, <1>5, <3>1, <3>2 DEF FailoverInv, FirstLeads, LogEnd
  <2> QED BY <1>1, <2>4, <2>8, <2>9 DEF FailoverInv
<1> QED BY <1>4, <1>7, <1>8

\* The leader commits.
LEMMA FailoverCommit ==
  ASSUME OneCleanFailover, FailoverInv, AlwaysInv', NEW b \in Broker, Commit(b)
  PROVE  FailoverInv'
<1> DEFINE to == InSyncMinimum(b)
<1>1. /\ UNCHANGED <<log, entries, epoch, mode, leader_of>>
      /\ mode[b] = "serving" /\ epoch[b] >= elector.epoch
      /\ watermark' = [watermark EXCEPT ![b] = to]
      /\ elector' = [elector EXCEPT !.committed_offset = Refreshed(@, to)]
      /\ Promise(b, to)
  BY DEF Commit, AcceptedFrom
<1>2. AlwaysInv /\ to \in 0 .. LogEnd(b) /\ LogEnd(b) \in Nat
  BY InSyncMinimumIs, Fields DEF FailoverInv, AlwaysInv
<1>3. /\ elector.epoch \in {1, 2} /\ epoch[b] \in {1, 2} /\ epoch[b] <= elector.epoch
      /\ leader_of[epoch[b]] = b /\ CurrentLeader \in Broker
  BY <1>1, <1>2, Leaders
<1>4. epoch[b] = elector.epoch /\ b = CurrentLeader
  BY <1>1, <1>3 DEF CurrentLeader
<1>5. elector'.epoch = elector.epoch
  BY <1>1, <1>2 DEF AlwaysInv, Types
<1> HIDE DEF to
<1>6. /\ promised' \in Seq(Epoch) /\ Len(promised') \in Nat /\ DOMAIN promised' = 1 .. Len(promised')
      /\ Len(promised) \in Nat
      /\ \/ promised' = promised
         \/ /\ Len(promised') = to /\ to <= Len(log[b])
            /\ \A i \in 1 .. to : promised'[i] = log[b][i]
  <2>1. to \in Nat /\ (to > Len(promised) => to <= LogEnd(b))
    BY <1>2
  <2>2. /\ promised' \in Seq(Epoch)
        /\ \/ promised' = promised
           \/ /\ Len(promised') = to /\ to <= Len(log[b])
              /\ \A i \in 1 .. to : promised'[i] = log[b][i]
    BY <1>1, <1>2, <2>1, PromiseIs
  <2>3. promised \in Seq(Epoch)
    BY <1>2 DEF AlwaysInv, Types
  <2> QED BY <2>2, <2>3
<1>7. FirstLeads' /\ (\A k \in Broker : mode'[k] = "stopped" => epoch'[k] = 2)
      /\ (Failover' <=> Failover) /\ Start2' = Start2 /\ CurrentLeader' = CurrentLeader
  BY <1>1, <1>5 DEF FailoverInv, FirstLeads, LogEnd, Failover, Start2, CurrentLeader
<1>8. ASSUME ~ Failover PROVE BeforeInv'
  <2>1. BeforeInv /\ OldLog(log[b], entries[b])
    BY <1>8 DEF FailoverInv, BeforeInv
  <2>2. Len(promised') <= Len(log[b]) /\ \A i \in DOMAIN promised' : promised'[i] = 1
    <3>1. CASE promised' = promised
      BY <1>4, <2>1, <3>1 DEF BeforeInv, LogEnd
    <3>2. CASE /\ Len(promised') = to /\ to <= Len(log[b])
               /\ \A i \in 1 .. to : promised'[i] = log[b][i]
      <4>1. \A i \in 1 .. to : i \in DOMAIN log[b]
        BY <1>2, <3>2, Fields
      <4> QED BY <1>6, <2>1, <3>2, <4>1 DEF OldLog
    <3> QED BY <1>6, <3>1, <3>2
  <2> QED BY <1>1, <1>4, <1>7, <2>1, <2>2 DEF BeforeInv, LogEnd
<1>9. ASSUME Failover PROVE AfterInv'
  <2> DEFINE w == leader_of[2]
  <2>1. w \in Broker /\ AfterInv /\ w = b
    BY <1>4, <1>9, SecondLeader
  <2>2. Len(promised') <= Len(log[w]) /\ \A i \in DOMAIN promised' : promised'[i] = log[w][i]
    <3>1. CASE promised' = promised
      BY <2>1, <3>1 DEF AfterInv, LogEnd
    <3>2. CASE /\ Len(promised') = to /\ to <= Len(log[b])
               /\ \A i \in 1 .. to : promised'[i] = log[b][i]
      BY <1>6, <2>1, <3>2
    <3> QED BY <1>6, <3>1, <3>2
  <2>3. \A k \in Broker \ {w} : watermark'[k] = watermark[k]
    BY <1>1, <1>2, <2>1 DEF AlwaysInv, Types
  <2>4. \A k \in Broker \ {w} : (IsOld(k)' <=> IsOld(k)) /\ (IsNew(k)' <=> IsNew(k))
    BY <1>1, <1>7, <2>3 DEF IsOld, IsNew
  <2> QED BY <1>1, <1>7, <2>1, <2>2, <2>4 DEF AfterInv, LogEnd
<1> QED BY <1>7, <1>8, <1>9 DEF FailoverInv

\* The clean election: the winner holds everything committed.
LEMMA FailoverElect ==
  ASSUME OneCleanFailover, FailoverInv, AlwaysInv', NEW b \in Broker, Elect(b)
  PROVE  FailoverInv'
<1> USE ReplicationAssumption
<1>1. /\ UNCHANGED <<log, entries, epoch, mode, watermark, promised>>
      /\ elector.epoch < MaxEpoch /\ b \in Voters
      /\ elector' = [elector EXCEPT !.epoch = @ + 1]
      /\ leader_of' = [leader_of EXCEPT ![elector.epoch + 1] = b]
  BY DEF Elect, brokerVars
<1>2. AlwaysInv /\ elector.epoch \in {1, 2} /\ elector.epoch \in Nat /\ leader_of[1] \in Broker
      /\ \A k \in Broker : epoch[k] \in {1, 2} /\ epoch[k] <= elector.epoch
  <2>1. AlwaysInv
    BY DEF FailoverInv
  <2> QED BY <2>1, Leaders
<1>3. elector.epoch = 1 /\ \A k \in Broker : epoch[k] = 1
  BY <1>1, <1>2 DEF OneCleanFailover
<1>4. /\ elector'.epoch = 2
      /\ leader_of'[2] = b /\ leader_of'[1] = leader_of[1]
  <2>1. /\ elector \in [epoch : Epoch, committed_offset : Nat]
        /\ leader_of \in [Epoch -> Broker \cup {None}]
        /\ 2 \in Epoch /\ 1 \in Epoch
    BY <1>1, <1>2, <1>3 DEF AlwaysInv, Types, Epoch
  <2>2. elector' = [elector EXCEPT !.epoch = 1 + 1] /\ leader_of' = [leader_of EXCEPT ![1 + 1] = b]
    BY <1>1, <1>3
  <2> QED BY <2>1, <2>2
<1>5. ~ Failover /\ ~ Failover' /\ CurrentLeader' = b
  BY <1>1, <1>3, <1>4 DEF Failover, CurrentLeader
<1>6. LogEnd(b) >= Len(promised)
  <2>1. b \in Eligible
    BY <1>1 DEF Voters, OneCleanFailover
  <2> QED BY <1>2, <2>1 DEF Eligible, AlwaysInv, Committed
<1>7. Len(promised) <= LogEnd(b)
  <2>1. Len(promised) \in Nat /\ LogEnd(b) \in Nat
    <3>1. promised \in Seq(Epoch)
      BY <1>2 DEF AlwaysInv, Types
    <3> QED BY <1>2, <3>1, Fields
  <2> QED BY <1>6, <2>1
<1>8. BeforeInv'
  BY <1>1, <1>5, <1>7 DEF FailoverInv, BeforeInv, LogEnd
<1>9. FirstLeads' /\ (\A k \in Broker : mode'[k] = "stopped" => epoch'[k] = 2)
  BY <1>1, <1>4 DEF FailoverInv, FirstLeads, LogEnd
<1> QED BY <1>5, <1>8, <1>9 DEF FailoverInv

\* The failover itself: the winner's log becomes the measure.
LEMMA FailoverBecomeLeader ==
  ASSUME OneCleanFailover, FailoverInv, AlwaysInv', NEW b \in Broker, BecomeLeader(b)
  PROVE  FailoverInv'
<1> DEFINE to    == Refreshed(watermark[b], InSyncMinimum(b))
           start == Len(log[b])
<1>1. /\ UNCHANGED <<log, leader_of>>
      /\ CurrentLeader = b /\ epoch[b] < elector.epoch
      /\ epoch' = [epoch EXCEPT ![b] = elector.epoch]
      /\ mode' = [mode EXCEPT ![b] = "serving"]
      /\ entries' = [entries EXCEPT ![b] = Assigned(@, elector.epoch, LogEnd(b))]
      /\ watermark' = [watermark EXCEPT ![b] = to]
      /\ elector' = [elector EXCEPT !.committed_offset = Refreshed(@, to)]
      /\ Promise(b, to)
  BY DEF BecomeLeader
<1>2. AlwaysInv
  BY DEF FailoverInv
<1>3. /\ InSyncMinimum(b) \in 0 .. start /\ start \in Nat /\ LogEnd(b) = start
      /\ watermark[b] \in Nat /\ elector.committed_offset \in Nat
      /\ Len(promised) = elector.committed_offset
      /\ log[b] \in Seq(Epoch) /\ DOMAIN log[b] = 1 .. start
      /\ \A k \in Broker : watermark[k] \in Nat /\ watermark[k] <= elector.committed_offset
  BY <1>2, InSyncMinimumIs, Fields DEF AlwaysInv, Committed
<1>4. elector.epoch = 2 /\ epoch[b] = 1 /\ b = leader_of[2] /\ leader_of[1] \in Broker
  <2>1. elector.epoch \in {1, 2} /\ epoch[b] \in {1, 2} /\ leader_of[1] \in Broker
    BY <1>2, Leaders
  <2> QED BY <1>1, <2>1 DEF CurrentLeader
<1>5. ~ Failover /\ BeforeInv /\ OldLog(log[b], entries[b])
      /\ Len(promised) <= start /\ \A i \in DOMAIN promised : promised[i] = 1
  BY <1>1, <1>4 DEF Failover, FailoverInv, BeforeInv, LogEnd
<1>6. /\ elector'.epoch = 2 /\ epoch'[b] = 2 /\ mode'[b] = "serving"
      /\ entries'[b] = Assigned(entries[b], 2, start)
      /\ \A k \in Broker \ {b} : /\ epoch'[k] = epoch[k] /\ mode'[k] = mode[k]
                                 /\ entries'[k] = entries[k] /\ watermark'[k] = watermark[k]
  <2> HIDE DEF to
  <2> QED BY <1>1, <1>2, <1>3, <1>4 DEF AlwaysInv, Types
<1>7. /\ entries'[b] = << <<1, 0>>, <<2, start>> >> \/ (start = 0 /\ entries'[b] = << <<2, 0>> >>)
      /\ Last(entries'[b])[2] = start
  <2> HIDE DEF start
  <2>1. CASE entries[b] = <<>>
    <3>1. start = 0
      BY <1>5, <2>1 DEF OldLog, start
    <3>2. entries'[b] = << <<2, 0>> >>
      BY <1>6, <2>1, <3>1 DEF Assigned
    <3>3. Last(<< <<2, 0>> >>)[2] = 0
      BY DEF Last
    <3> QED BY <3>1, <3>2, <3>3
  <2>2. CASE entries[b] = << <<1, 0>> >>
    <3>1. entries[b] # <<>> /\ Last(entries[b])[1] < 2
      BY <2>2 DEF Last
    <3>2. entries'[b] = Append(<< <<1, 0>> >>, <<2, start>>)
      BY <1>6, <2>2, <3>1 DEF Assigned
    <3>3. entries'[b] = << <<1, 0>>, <<2, start>> >>
      BY <1>3, <3>2, TwoEntries
    <3>4. Last(<< <<1, 0>>, <<2, start>> >>)[2] = start
      BY DEF Last
    <3> QED BY <3>3, <3>4
  <2> QED BY <1>5, <2>1, <2>2 DEF OldLog
<1>8. Failover' /\ Start2' = start /\ leader_of'[2] = b
  BY <1>1, <1>4, <1>6, <1>7 DEF Failover, Start2
<1>9. LeaderLog(log[b], entries'[b], start)
  BY <1>3, <1>5, <1>7 DEF LeaderLog, OldLog
<1>10. Len(promised') <= start /\ \A i \in DOMAIN promised' : promised'[i] = log[b][i]
  <2>1. to \in Nat /\ (to > Len(promised) => to <= LogEnd(b))
    <3> HIDE DEF InSyncMinimum, start
    <3> QED BY <1>3 DEF Refreshed
  <2> HIDE DEF to
  <2>2. /\ promised' \in Seq(Epoch)
        /\ \/ promised' = promised
           \/ /\ Len(promised') = to /\ to <= Len(log[b])
              /\ \A i \in 1 .. to : promised'[i] = log[b][i]
    BY <1>1, <1>2, <2>1, PromiseIs
  <2>3. CASE promised' = promised
    <3>1. DOMAIN promised = 1 .. Len(promised)
      BY <2>2, <2>3
    <3>2. \A i \in DOMAIN promised : i \in DOMAIN log[b]
      BY <1>3, <1>5, <3>1
    <3> QED BY <1>5, <2>3, <3>2 DEF OldLog
  <2>4. CASE /\ Len(promised') = to /\ to <= Len(log[b])
             /\ \A i \in 1 .. to : promised'[i] = log[b][i]
    BY <2>2, <2>4
  <2> QED BY <2>2, <2>3, <2>4
<1>11. ASSUME NEW k \in Broker \ {b}
       PROVE  IsOld(k)' /\ ~ (mode'[k] = "fetching" /\ epoch'[k] = 2)
  <2>1. OldLog(log[k], entries[k]) /\ (mode[k] = "fetching" => epoch[k] = 1)
    BY <1>5 DEF BeforeInv
  <2>2. watermark[k] <= start
    <3> HIDE DEF start
    <3> QED BY <1>3, <1>5
  <2> QED BY <1>1, <1>6, <1>8, <2>1, <2>2 DEF IsOld
<1>12. AfterInv'
  BY <1>1, <1>6, <1>8, <1>9, <1>10, <1>11 DEF AfterInv, LogEnd
<1>13. FirstLeads'
  <2> SUFFICES ASSUME epoch'[leader_of[1]] = 1 PROVE FirstLeads'
    BY <1>1 DEF FirstLeads
  <2>1. leader_of[1] # b /\ epoch[leader_of[1]] = 1
    BY <1>4, <1>6
  <2>2. \A k \in Broker : epoch'[k] = 1 => epoch[k] = 1
    BY <1>4, <1>6
  <2> QED BY <1>1, <1>4, <1>6, <2>1, <2>2 DEF FailoverInv, FirstLeads, LogEnd
<1>14. \A k \in Broker : mode'[k] = "stopped" => epoch'[k] = 2
  BY <1>6 DEF FailoverInv
<1> QED BY <1>8, <1>12, <1>13, <1>14 DEF FailoverInv

(***************************************************************************)
(* The two cuts: against the first leader nothing goes; against the second *)
(* what an old log has beyond the start of the second epoch.               *)
(***************************************************************************)
LEMMA Cuts ==
  ASSUME OneCleanFailover, FailoverInv, NEW b \in Broker, NEW leader \in Broker \ {b},
         Reconcile(b, leader) \/ Recover(b, leader)
  PROVE  \E to \in 0 .. LogEnd(b) :
           /\ TruncateTo(b, to)
           /\ epoch'[b] = elector.epoch /\ \A k \in Broker \ {b} : epoch'[k] = epoch[k]
           /\ \/ /\ elector.epoch = 1 /\ to = LogEnd(b) /\ b # leader_of[1]
                 /\ OldLog(log[b], entries[b])
              \/ /\ Failover /\ b # leader_of[2]
                 /\ \/ IsOld(b) /\ to = SecondCut(b)
                    \/ IsNew(b) /\ to = LogEnd(b)
<1>1. AlwaysInv /\ epoch \in [Broker -> Epoch]
  BY DEF FailoverInv, AlwaysInv, Types
<1>2. /\ elector.epoch \in {1, 2} /\ epoch[b] \in {1, 2}
      /\ (elector.epoch = 1 => CurrentLeader = leader_of[1])
      /\ (elector.epoch = 2 => CurrentLeader = leader_of[2])
      /\ \A k \in Broker : epoch[k] = 2 => elector.epoch = 2
  BY <1>1, Leaders
<1>3. CASE Reconcile(b, leader)
  <2>1. /\ mode[b] = "stopped" /\ epoch' = epoch
        /\ leader_of[epoch[b]] = leader /\ epoch[leader] = epoch[b]
        /\ TruncateTo(b, TruncationPoint(b, leader))
    BY <1>3 DEF Reconcile, Reachable
  <2>2. epoch[b] = 2 /\ elector.epoch = 2 /\ leader = leader_of[2] /\ Failover
    BY <1>2, <2>1 DEF FailoverInv, Failover
  <2>3. IsOld(b)
    BY <2>1, <2>2 DEF FailoverInv, AfterInv
  <2>4. TruncationPoint(b, leader) = SecondCut(b)
    BY <2>1, <2>2, <2>3, OldReconciles DEF IsOld
  <2>5. TruncationPoint(b, leader) \in 0 .. LogEnd(b)
    BY <1>1, TruncationPointIs DEF AlwaysInv
  <2> HIDE DEF TruncationPoint, LogEnd
  <2> QED BY <2>1, <2>2, <2>3, <2>4, <2>5
<1>4. CASE Recover(b, leader)
  <2>1. /\ leader = CurrentLeader /\ epoch[leader] = elector.epoch
        /\ TruncateTo(b, RecoverTo(b, leader))
        /\ epoch' = [epoch EXCEPT ![b] = elector.epoch]
    BY <1>4 DEF Recover
  <2>2. epoch'[b] = elector.epoch /\ \A k \in Broker \ {b} : epoch'[k] = epoch[k]
    BY <1>1, <2>1
  <2>3. RecoverTo(b, leader) \in 0 .. LogEnd(b)
    BY <1>1, RecoverToIs DEF AlwaysInv
  <2>4. CASE elector.epoch = 1
    <3>1. RecoverTo(b, leader) = LogEnd(b) /\ OldLog(log[b], entries[b]) /\ leader = leader_of[1]
      BY <1>2, <2>1, <2>4, FirstRecovers
    <3> HIDE DEF RecoverTo, LogEnd
    <3> QED BY <2>1, <2>2, <2>3, <2>4, <3>1
  <2>5. CASE elector.epoch = 2
    <3>1. leader = leader_of[2] /\ Failover /\ b # leader_of[2]
      BY <1>2, <2>1, <2>5 DEF Failover
    <3>2. IsOld(b) \/ IsNew(b)
      BY <3>1 DEF FailoverInv, AfterInv
    <3>3. IsOld(b) => RecoverTo(b, leader) = SecondCut(b)
      BY <3>1, OldRecovers DEF IsOld
    <3>4. IsNew(b) => RecoverTo(b, leader) = LogEnd(b)
      BY <3>1, NewRecovers
    <3> HIDE DEF RecoverTo, LogEnd
    <3> QED BY <2>1, <2>2, <2>3, <3>1, <3>2, <3>3, <3>4
  <2> QED BY <1>2, <2>4, <2>5
<1> QED BY <1>3, <1>4

\* A log is cut and its broker fetches at the elector's epoch.
LEMMA FailoverTruncate ==
  ASSUME OneCleanFailover, FailoverInv, AlwaysInv', NEW b \in Broker,
         NEW leader \in Broker \ {b}, Reconcile(b, leader) \/ Recover(b, leader)
  PROVE  FailoverInv'
<1>1. PICK to \in 0 .. LogEnd(b) :
        /\ TruncateTo(b, to)
        /\ epoch'[b] = elector.epoch /\ \A k \in Broker \ {b} : epoch'[k] = epoch[k]
        /\ \/ /\ elector.epoch = 1 /\ to = LogEnd(b) /\ b # leader_of[1]
              /\ OldLog(log[b], entries[b])
           \/ /\ Failover /\ b # leader_of[2]
              /\ \/ IsOld(b) /\ to = SecondCut(b)
                 \/ IsNew(b) /\ to = LogEnd(b)
  BY Cuts
<1>2. AlwaysInv /\ log \in [Broker -> Seq(Epoch)] /\ entries \in [Broker -> Seq(Epoch \X Nat)]
      /\ mode \in [Broker -> {"serving", "fetching", "stopped", "recovering", "down"}]
  BY DEF FailoverInv, AlwaysInv, Types
<1>3. /\ log[b] \in Seq(Epoch) /\ entries[b] \in Seq(Epoch \X Nat) /\ LogEnd(b) = Len(log[b])
      /\ Len(log[b]) \in Nat /\ CacheAscends(entries[b], Len(log[b]))
  BY <1>2, Fields
<1>4. /\ UNCHANGED <<watermark, elector, leader_of, promised>>
      /\ log'[b] = SubSeq(log[b], 1, to) /\ entries'[b] = KeptBelow(entries[b], to)
      /\ mode'[b] = "fetching"
      /\ \A k \in Broker \ {b} : log'[k] = log[k] /\ entries'[k] = entries[k] /\ mode'[k] = mode[k]
  BY <1>1, <1>2 DEF TruncateTo
<1>5. /\ leader_of[1] \in Broker /\ elector.epoch \in {1, 2} /\ CurrentLeader \in Broker
      /\ (elector.epoch = 1 => CurrentLeader = leader_of[1])
      /\ \A k \in Broker : epoch[k] \in {1, 2} /\ epoch[k] <= elector.epoch
  BY <1>2, Leaders
<1>6. \A k \in Broker : mode'[k] = "stopped" => epoch'[k] = 2
  BY <1>1, <1>4 DEF FailoverInv
<1>7. CASE elector.epoch = 1
  <2>1. ~ Failover /\ ~ Failover' /\ BeforeInv
    BY <1>4, <1>7 DEF Failover, FailoverInv
  <2>2. to = Len(log[b]) /\ b # leader_of[1] /\ OldLog(log[b], entries[b]) /\ epoch'[b] = 1
    BY <1>1, <1>3, <1>7, <2>1
  <2>3. log'[b] = log[b] /\ OldLog(log'[b], entries'[b])
    <3>1. /\ SubSeq(log[b], 1, Len(log[b])) = log[b]
          /\ OldLog(log[b], KeptBelow(entries[b], Len(log[b])))
      BY <1>3, <2>2, OldKept
    <3>2. log'[b] = log[b] /\ entries'[b] = KeptBelow(entries[b], Len(log[b]))
      BY <1>4, <2>2, <3>1
    <3> HIDE DEF KeptBelow, OldLog
    <3> QED BY <3>1, <3>2
  <2>4. \A k \in Broker : log'[k] = log[k] /\ OldLog(log'[k], entries'[k])
    BY <1>4, <2>1, <2>3 DEF BeforeInv
  <2>5. CurrentLeader' = CurrentLeader
    BY <1>4 DEF CurrentLeader
  <2>6. \A k \in Broker : epoch'[k] = epoch[k]
    BY <1>1, <1>5, <1>7, <2>2
  <2>7. BeforeInv'
    BY <1>4, <1>5, <2>1, <2>2, <2>4, <2>5, <2>6 DEF BeforeInv, LogEnd
  <2>8. FirstLeads'
    BY <1>4, <1>5, <2>2, <2>4, <2>6 DEF FailoverInv, FirstLeads, LogEnd
  <2> QED BY <1>6, <2>1, <2>7, <2>8 DEF FailoverInv
<1>8. CASE elector.epoch = 2
  <2> DEFINE w == leader_of[2]
  <2>1. Failover /\ b # w /\ ((IsOld(b) /\ to = SecondCut(b)) \/ (IsNew(b) /\ to = LogEnd(b)))
    BY <1>1, <1>8
  <2>2. w \in Broker /\ AfterInv /\ Start2 \in Nat /\ LeaderLog(log[w], entries[w], Start2)
    BY <2>1, SecondLeader
  <2>3. log'[w] = log[w] /\ entries'[w] = entries[w] /\ Start2' = Start2 /\ Failover'
    BY <1>1, <1>4, <2>1, <2>2 DEF Failover, Start2
  <2>4. log[w] \in Seq(Epoch)
    BY <1>2, <2>2, Fields
  <2>5. NewLog(log'[b], entries'[b], log[w], Start2)
    <3>1. CASE IsOld(b) /\ to = SecondCut(b)
      <4>1. to \in 0 .. Len(log[b]) /\ to <= Start2
        BY <1>3, <2>2, <3>1 DEF SecondCut
      <4> QED BY <1>3, <1>4, <2>2, <2>4, <3>1, <4>1, OldCut DEF IsOld
    <3>2. CASE IsNew(b) /\ to = LogEnd(b)
      <4>1. NewLog(log[b], entries[b], log[w], Start2) /\ to = Len(log[b])
        BY <1>3, <3>2 DEF IsNew
      <4>2. SubSeq(log[b], 1, Len(log[b])) = log[b] /\ KeptBelow(entries[b], Len(log[b])) = entries[b]
        BY <1>3, <2>2, <4>1, NewKept
      <4> QED BY <1>4, <4>1, <4>2
    <3> QED BY <2>1, <3>1, <3>2
  <2>6. IsNew(b)' /\ epoch'[b] = 2
    BY <1>1, <1>4, <1>8, <2>3, <2>5 DEF IsNew
  <2>7. \A k \in Broker \ {w} : k # b => (IsOld(k)' <=> IsOld(k)) /\ (IsNew(k)' <=> IsNew(k))
    BY <1>4, <2>3 DEF IsOld, IsNew
  <2>8. AfterInv'
    BY <1>1, <1>4, <2>1, <2>2, <2>3, <2>6, <2>7 DEF AfterInv, LogEnd
  <2>9. FirstLeads'
    <3> SUFFICES ASSUME epoch'[leader_of[1]] = 1 PROVE FirstLeads'
      BY <1>4 DEF FirstLeads
    <3>1. leader_of[1] # b /\ epoch[leader_of[1]] = 1
      BY <1>1, <1>5, <2>6
    <3>2. \A k \in Broker : epoch'[k] = 1 => k # b /\ epoch[k] = 1
      BY <1>1, <2>6
    <3> QED BY <1>4, <1>5, <3>1, <3>2 DEF FailoverInv, FirstLeads, LogEnd
  <2> QED BY <1>6, <2>3, <2>8, <2>9 DEF FailoverInv
<1> QED BY <1>5, <1>7, <1>8

\* At first nobody has a record.
LEMMA FailoverInit ==
  ASSUME Init
  PROVE  FailoverInv
<1>1. AlwaysInv
  BY AlwaysInit
<1>2. PICK first \in Broker :
        /\ log = [b \in Broker |-> <<>>]
        /\ entries = [b \in Broker |-> IF b = first THEN <<<<1, 0>>>> ELSE <<>>]
        /\ epoch = [b \in Broker |-> 1]
        /\ mode = [b \in Broker |-> IF b = first THEN "serving" ELSE "fetching"]
        /\ elector = [epoch |-> 1, committed_offset |-> 0]
        /\ leader_of = [e \in 1 .. MaxEpoch |-> IF e = 1 THEN first ELSE None]
        /\ promised = <<>>
  BY Zenon DEF Init
<1>3. elector.epoch = 1 /\ leader_of[1] = first /\ CurrentLeader = first
  BY <1>2, ReplicationAssumption DEF CurrentLeader
<1>4. \A b \in Broker : log[b] = <<>> /\ Len(log[b]) = 0 /\ epoch[b] = 1 /\ mode[b] # "stopped"
  BY <1>2
<1>5. entries[first] = << <<1, 0>> >>
  BY <1>2
<1>6. \A b \in Broker : entries[b] \in {<<>>, << <<1, 0>> >>}
  BY <1>2
<1>7. FirstLeads
  BY <1>3, <1>4, <1>5 DEF FirstLeads, LogEnd
<1>8. BeforeInv
  BY <1>2, <1>3, <1>4, <1>6 DEF BeforeInv, OldLog, LogEnd
<1>9. ~ Failover
  BY <1>3 DEF Failover
<1> QED BY <1>1, <1>4, <1>7, <1>8, <1>9 DEF FailoverInv

\* One clean failover's invariant is inductive.
LEMMA FailoverStep ==
  ASSUME OneCleanFailover, FailoverInv, [Next]_vars
  PROVE  FailoverInv'
<1>1. AlwaysInv'
  BY AlwaysStep DEF FailoverInv
<1>2. CASE UNCHANGED vars
  <2>1. UNCHANGED <<log, entries, epoch, mode, watermark, elector, leader_of, promised>>
    BY <1>2 DEF vars, brokerVars
  <2>2. FirstLeads' /\ (\A k \in Broker : mode'[k] = "stopped" => epoch'[k] = 2)
        /\ (Failover' <=> Failover) /\ Start2' = Start2
    BY <2>1 DEF FailoverInv, FirstLeads, LogEnd, Failover, Start2
  <2>3. BeforeInv => BeforeInv'
    BY <2>1 DEF BeforeInv, LogEnd, CurrentLeader
  <2>4. AfterInv => AfterInv'
    BY <2>1, <2>2 DEF AfterInv, IsOld, IsNew, LogEnd
  <2> QED BY <1>1, <2>2, <2>3, <2>4 DEF FailoverInv
<1>3. CASE Next
  <2>1. PICK b \in Broker :
          \/ Produce(b) \/ Commit(b) \/ EvictLaggards(b) \/ Readmit(b)
          \/ Elect(b) \/ BecomeLeader(b) \/ StopServing(b)
          \/ Crash(b) \/ Restart(b)
          \/ \E leader \in Broker \ {b} :
               Fetch(b, leader) \/ Reconcile(b, leader) \/ Recover(b, leader)
    BY <1>3, Zenon DEF Next
  <2>2. CASE Produce(b)
    BY <1>1, <2>2, FailoverProduce
  <2>3. CASE Commit(b)
    BY <1>1, <2>3, FailoverCommit
  <2>4. CASE Elect(b)
    BY <1>1, <2>4, FailoverElect
  <2>5. CASE BecomeLeader(b)
    BY <1>1, <2>5, FailoverBecomeLeader
  <2>6. CASE EvictLaggards(b) \/ Readmit(b)
    BY <1>1, <2>6, FailoverInSync
  <2>7. CASE StopServing(b) \/ Crash(b) \/ Restart(b)
    BY <1>1, <2>7, FailoverModes
  <2>8. ASSUME NEW leader \in Broker \ {b}, Fetch(b, leader) PROVE FailoverInv'
    BY <1>1, <2>8, FailoverFetch
  <2>9. ASSUME NEW leader \in Broker \ {b}, Reconcile(b, leader) \/ Recover(b, leader)
        PROVE  FailoverInv'
    BY <1>1, <2>9, FailoverTruncate
  <2> QED BY <2>1, <2>2, <2>3, <2>4, <2>5, <2>6, <2>7, <2>8, <2>9
<1> QED BY <1>2, <1>3

(***************************************************************************)
(* One clean failover keeps its invariant, for any set of brokers, any     *)
(* length of the logs, any lag, any number of crashes, and with the        *)
(* deposed leader still serving or not.                                    *)
(***************************************************************************)
THEOREM FailoverInvariant ==
  ASSUME OneCleanFailover
  PROVE  Spec => []FailoverInv
<1>1. Init => FailoverInv
  BY FailoverInit
<1>2. FailoverInv /\ [Next]_vars => FailoverInv'
  BY FailoverStep
<1> QED BY <1>1, <1>2, PTL DEF Spec
----------------------------------------------------------------------------
\* A sequence is a prefix of another when it is not longer and agrees with it.
LEMMA PrefixIs ==
  ASSUME NEW s \in Seq(Epoch), NEW t \in Seq(Epoch), Len(s) <= Len(t),
         \A i \in 1 .. Len(s) : s[i] = t[i]
  PROVE  IsPrefix(s, t)
<1>1. Len(s) \in Nat /\ Len(t) \in Nat /\ Len(s) \in 0 .. Len(s) /\ Len(s) \in 0 .. Len(t)
  OBVIOUS
<1>2. /\ SubSeq(s, 1, Len(s)) \in Seq(Epoch) /\ Len(SubSeq(s, 1, Len(s))) = Len(s)
      /\ \A i \in 1 .. Len(s) : SubSeq(s, 1, Len(s))[i] = s[i]
  BY <1>1, CutIs
<1>3. /\ SubSeq(t, 1, Len(s)) \in Seq(Epoch) /\ Len(SubSeq(t, 1, Len(s))) = Len(s)
      /\ \A i \in 1 .. Len(s) : SubSeq(t, 1, Len(s))[i] = t[i]
  BY <1>1, CutIs
<1>4. SubSeq(s, 1, Len(s)) = SubSeq(t, 1, Len(s))
  BY <1>1, <1>2, <1>3, SeqEqual
<1> QED BY <1>4 DEF IsPrefix

(***************************************************************************)
(* "The new leader must hold every committed record the old leader         *)
(* served": after a clean failover it does, whatever the followers had     *)
(* fetched, whoever crashed and whichever broker learnt of it when.        *)
(***************************************************************************)
THEOREM NewLeaderHasPromises ==
  ASSUME OneCleanFailover
  PROVE  Spec => []LeaderHasPromises
<1>1. FailoverInv => LeaderHasPromises
  <2> SUFFICES ASSUME FailoverInv, epoch[CurrentLeader] = elector.epoch
               PROVE  IsPrefix(promised, log[CurrentLeader])
    BY DEF LeaderHasPromises
  <2>1. AlwaysInv /\ promised \in Seq(Epoch)
    BY DEF FailoverInv, AlwaysInv, Types
  <2>2. /\ CurrentLeader \in Broker /\ elector.epoch \in {1, 2}
        /\ elector.epoch = 2 => CurrentLeader = leader_of[2]
    BY <2>1, Leaders
  <2>3. log[CurrentLeader] \in Seq(Epoch)
    BY <2>1, <2>2, Fields
  <2>4. /\ Len(promised) <= Len(log[CurrentLeader])
        /\ \A i \in 1 .. Len(promised) : promised[i] = log[CurrentLeader][i]
    <3>1. CASE Failover
      BY <2>1, <2>2, <3>1 DEF FailoverInv, AfterInv, Failover, LogEnd
    <3>2. CASE ~ Failover
      <4>1. BeforeInv /\ OldLog(log[CurrentLeader], entries[CurrentLeader])
        BY <2>2, <3>2 DEF FailoverInv, BeforeInv
      <4>2. Len(promised) \in Nat /\ Len(log[CurrentLeader]) \in Nat
            /\ Len(promised) <= Len(log[CurrentLeader])
        BY <2>1, <2>3, <4>1 DEF BeforeInv, LogEnd
      <4>3. \A i \in 1 .. Len(promised) : promised[i] = 1
        BY <2>1, <4>1 DEF BeforeInv
      <4>4. \A i \in 1 .. Len(log[CurrentLeader]) : log[CurrentLeader][i] = 1
        BY <2>3, <4>1 DEF OldLog
      <4> QED BY <4>2, <4>3, <4>4
    <3> QED BY <3>1, <3>2
  <2> QED BY <2>1, <2>3, <2>4, PrefixIs
<1> QED BY <1>1, FailoverInvariant, PTL

\* Below the promises every broker's records are the promised ones.
LEMMA PromisedRecords ==
  ASSUME OneCleanFailover, FailoverInv, NEW b \in Broker,
         NEW i \in 1 .. Len(promised), i <= Len(log[b]), i <= watermark[b]
  PROVE  log[b][i] = promised[i]
<1>1. AlwaysInv /\ promised \in Seq(Epoch) /\ i \in DOMAIN promised
  BY DEF FailoverInv, AlwaysInv, Types
<1>2. log[b] \in Seq(Epoch) /\ Len(log[b]) \in Nat /\ watermark[b] \in Nat /\ i \in DOMAIN log[b]
  BY <1>1, Fields
<1>3. CASE ~ Failover
  BY <1>1, <1>2, <1>3 DEF FailoverInv, BeforeInv, OldLog
<1>4. CASE Failover
  <2>1. /\ leader_of[2] \in Broker /\ AfterInv /\ Start2 \in Nat
        /\ LeaderLog(log[leader_of[2]], entries[leader_of[2]], Start2)
    BY <1>4, SecondLeader
  <2>2. log[leader_of[2]] \in Seq(Epoch) /\ Len(log[leader_of[2]]) \in Nat
    BY <1>1, <2>1, Fields
  <2>3. promised[i] = log[leader_of[2]][i] /\ i \in DOMAIN log[leader_of[2]]
    BY <1>1, <2>1, <2>2 DEF AfterInv, LogEnd
  <2>4. CASE b = leader_of[2]
    BY <2>3, <2>4
  <2>5. CASE b # leader_of[2] /\ IsNew(b)
    BY <1>2, <2>3, <2>5 DEF IsNew, NewLog
  <2>6. CASE b # leader_of[2] /\ IsOld(b)
    <3>1. log[b][i] = 1 /\ watermark[b] <= Start2
      BY <1>2, <2>6 DEF IsOld, OldLog
    <3>2. i <= Start2
      BY <1>2, <2>1, <3>1
    <3> QED BY <2>1, <2>3, <3>1, <3>2 DEF LeaderLog
  <2> QED BY <2>1, <2>4, <2>5, <2>6 DEF AfterInv
<1> QED BY <1>3, <1>4

(***************************************************************************)
(* Through one clean failover a consumer reads one history: what any       *)
(* broker exposes, the deposed leader and its followers included, is what  *)
(* was promised at that offset.                                            *)
(***************************************************************************)
THEOREM ReadersAgree ==
  ASSUME OneCleanFailover
  PROVE  Spec => []ReadsAgree
<1>1. FailoverInv => ReadsAgree
  <2> SUFFICES ASSUME FailoverInv, NEW b \in Broker
               PROVE  IsPrefix(SubSeq(log[b], 1, Min({watermark[b], LogEnd(b)})), promised)
    BY DEF ReadsAgree
  <2> DEFINE to == Min({watermark[b], LogEnd(b)})
             s  == SubSeq(log[b], 1, to)
  <2>1. AlwaysInv /\ promised \in Seq(Epoch) /\ Len(promised) \in Nat
    BY DEF FailoverInv, AlwaysInv, Types
  <2>2. /\ log[b] \in Seq(Epoch) /\ LogEnd(b) = Len(log[b]) /\ Len(log[b]) \in Nat
        /\ watermark[b] \in Nat
    BY <2>1, Fields
  <2>3. watermark[b] <= Len(promised)
    BY <2>1 DEF AlwaysInv, Committed
  <2>4. to = IF watermark[b] <= Len(log[b]) THEN watermark[b] ELSE Len(log[b])
    BY <2>2, MinOfTwo
  <2>5. to \in 0 .. Len(log[b]) /\ to <= watermark[b] /\ to <= Len(promised)
    <3> HIDE DEF to
    <3> QED BY <2>1, <2>2, <2>3, <2>4
  <2> HIDE DEF to
  <2>6. s \in Seq(Epoch) /\ Len(s) = to /\ \A i \in 1 .. to : s[i] = log[b][i]
    BY <2>2, <2>5, CutIs
  <2>7. \A i \in 1 .. to : s[i] = promised[i]
    <3> SUFFICES ASSUME NEW i \in 1 .. to PROVE s[i] = promised[i]
      OBVIOUS
    <3>1. i \in 1 .. Len(promised) /\ i <= Len(log[b]) /\ i <= watermark[b]
      BY <2>1, <2>2, <2>5
    <3>2. log[b][i] = promised[i]
      BY <3>1, PromisedRecords
    <3> QED BY <2>6, <3>2
  <2> HIDE DEF s
  <2>8. IsPrefix(s, promised)
    BY <2>1, <2>5, <2>6, <2>7, PrefixIs
  <2> QED BY <2>8 DEF s, to
<1> QED BY <1>1, FailoverInvariant, PTL

(***************************************************************************)
(* After one clean failover the epoch handshake and the recovery leave a   *)
(* log that is a prefix of the leader's, and fetching keeps it so; a third *)
(* epoch breaks this (run replica_diverges).                               *)
(***************************************************************************)
THEOREM FollowersArePrefixes ==
  ASSUME OneCleanFailover
  PROVE  Spec => []FollowerIsPrefix
<1>1. FailoverInv => FollowerIsPrefix
  <2> SUFFICES ASSUME FailoverInv, NEW b \in Broker, NEW leader \in Broker,
                      mode[b] = "fetching", b # leader, Reachable(b, leader)
               PROVE  IsPrefix(log[b], log[leader])
    BY DEF FollowerIsPrefix
  <2>1. AlwaysInv
    BY DEF FailoverInv
  <2>2. /\ log[b] \in Seq(Epoch) /\ Len(log[b]) \in Nat /\ LogEnd(b) = Len(log[b])
        /\ log[leader] \in Seq(Epoch) /\ Len(log[leader]) \in Nat
        /\ LogEnd(leader) = Len(log[leader])
    BY <2>1, Fields
  <2>3. leader_of[epoch[b]] = leader /\ epoch[leader] = epoch[b]
    BY DEF Reachable
  <2>4. epoch[b] \in {1, 2} /\ (epoch[b] = 2 => elector.epoch = 2)
    BY <2>1, Leaders
  <2>5. CASE epoch[b] = 1
    <3>1. Len(log[b]) <= Len(log[leader])
      BY <2>2, <2>3, <2>5 DEF FailoverInv, FirstLeads
    <3>2. OldLog(log[b], entries[b]) /\ OldLog(log[leader], entries[leader])
      <4>1. CASE Failover
        <5>1. b # leader_of[2] /\ leader # leader_of[2]
          BY <2>3, <2>5, <4>1 DEF Failover
        <5> QED BY <2>3, <2>5, <4>1, <5>1 DEF FailoverInv, AfterInv, IsOld
      <4>2. CASE ~ Failover
        BY <4>2 DEF FailoverInv, BeforeInv
      <4> QED BY <4>1, <4>2
    <3>3. \A i \in 1 .. Len(log[b]) : log[b][i] = log[leader][i]
      BY <2>2, <3>1, <3>2 DEF OldLog
    <3> QED BY <2>2, <3>1, <3>3, PrefixIs
  <2>6. CASE epoch[b] = 2
    <3>1. Failover /\ leader = leader_of[2]
      BY <2>3, <2>4, <2>6 DEF Failover
    <3>2. IsNew(b)
      BY <2>6, <3>1 DEF FailoverInv, AfterInv
    <3>3. Len(log[b]) <= Len(log[leader]) /\ \A i \in 1 .. Len(log[b]) : log[b][i] = log[leader][i]
      BY <2>2, <3>1, <3>2 DEF IsNew, NewLog
    <3> QED BY <2>2, <3>3, PrefixIs
  <2> QED BY <2>4, <2>5, <2>6
<1> QED BY <1>1, FailoverInvariant, PTL

\* Only the handshake and the recovery shorten a log.
LEMMA OthersNeverShorten ==
  ASSUME AlwaysInv, NEW b \in Broker,
         \/ Produce(b) \/ Commit(b) \/ EvictLaggards(b) \/ Readmit(b)
         \/ Elect(b) \/ BecomeLeader(b) \/ StopServing(b)
         \/ Crash(b) \/ Restart(b)
         \/ \E leader \in Broker \ {b} : Fetch(b, leader)
  PROVE  \A k \in Broker : Len(log'[k]) >= LogEnd(k)
<1>1. log \in [Broker -> Seq(Epoch)] /\ \A k \in Broker : LogEnd(k) = Len(log[k]) /\ Len(log[k]) \in Nat
  BY Fields DEF AlwaysInv, Types
<1>2. log' = log \/ \E e : log' = [log EXCEPT ![b] = Append(@, e)]
  <2>1. CASE Produce(b)
    BY <2>1 DEF Produce
  <2>2. CASE \E leader \in Broker \ {b} : Fetch(b, leader)
    <3>1. PICK leader \in Broker \ {b} : Fetch(b, leader)
      BY <2>2
    <3> QED BY <3>1 DEF Fetch
  <2>3. CASE Commit(b) \/ BecomeLeader(b) \/ StopServing(b) \/ Crash(b) \/ Restart(b)
    BY <2>3 DEF Commit, BecomeLeader, StopServing, Crash, Restart
  <2>4. CASE EvictLaggards(b) \/ Readmit(b) \/ Elect(b)
    BY <2>4 DEF EvictLaggards, Readmit, Elect, brokerVars
  <2> QED BY <2>1, <2>2, <2>3, <2>4
<1>3. ASSUME NEW e, log' = [log EXCEPT ![b] = Append(@, e)], NEW k \in Broker
      PROVE  Len(log'[k]) >= Len(log[k])
  <2>1. CASE k = b
    <3>1. log'[k] = Append(log[k], e) /\ log[k] \in Seq(Epoch \cup {e})
      BY <1>1, <1>3, <2>1
    <3>2. Len(Append(log[k], e)) = Len(log[k]) + 1
      BY <3>1
    <3> QED BY <1>1, <3>1, <3>2
  <2>2. CASE k # b
    BY <1>1, <1>3, <2>2
  <2> QED BY <2>1, <2>2
<1> QED BY <1>1, <1>2, <1>3

(***************************************************************************)
(* Through one clean failover no reconciliation discards a record its      *)
(* broker has exposed.                                                     *)
(***************************************************************************)
THEOREM TruncationIsSafe ==
  ASSUME OneCleanFailover
  PROVE  Spec => TruncationSparesPromised
<1> DEFINE Spared == \A b \in Broker :
             Len(log'[b]) < LogEnd(b) => Len(log'[b]) >= Min({watermark[b], LogEnd(b)})
<1>1. FailoverInv /\ [Next]_vars => [Spared]_vars
  <2> SUFFICES ASSUME FailoverInv, Next PROVE Spared
    OBVIOUS
  <2>1. AlwaysInv /\ log \in [Broker -> Seq(Epoch)]
    BY DEF FailoverInv, AlwaysInv, Types
  <2>2. PICK b \in Broker :
          \/ Produce(b) \/ Commit(b) \/ EvictLaggards(b) \/ Readmit(b)
          \/ Elect(b) \/ BecomeLeader(b) \/ StopServing(b)
          \/ Crash(b) \/ Restart(b)
          \/ \E leader \in Broker \ {b} :
               Fetch(b, leader) \/ Reconcile(b, leader) \/ Recover(b, leader)
    BY Zenon DEF Next
  <2>3. CASE \A k \in Broker : Len(log'[k]) >= LogEnd(k)
    <3> SUFFICES ASSUME NEW k \in Broker, Len(log'[k]) < LogEnd(k) PROVE FALSE
      OBVIOUS
    <3>1. Len(log'[k]) >= LogEnd(k) /\ LogEnd(k) \in Nat
      BY <2>1, <2>3, Fields
    <3>2. Len(log'[k]) \in Nat
      <4>1. AlwaysInv'
        BY <2>1, AlwaysStep
      <4> QED BY <4>1 DEF AlwaysInv, Types
    <3> QED BY <3>1, <3>2
  <2>4. ASSUME NEW leader \in Broker \ {b}, Reconcile(b, leader) \/ Recover(b, leader)
        PROVE  Spared
    <3>1. PICK to \in 0 .. LogEnd(b) :
            /\ TruncateTo(b, to)
            /\ to = LogEnd(b) \/ (Failover /\ IsOld(b) /\ to = SecondCut(b))
      BY <2>4, Cuts
    <3> SUFFICES ASSUME NEW k \in Broker, Len(log'[k]) < LogEnd(k)
                 PROVE  Len(log'[k]) >= Min({watermark[k], LogEnd(k)})
      OBVIOUS
    <3>2. /\ log[k] \in Seq(Epoch) /\ LogEnd(k) = Len(log[k]) /\ Len(log[k]) \in Nat
          /\ watermark[k] \in Nat
      BY <2>1, Fields
    <3>3. k = b
      BY <2>1, <3>1, <3>2 DEF TruncateTo
    <3>4. log'[k] = SubSeq(log[k], 1, to) /\ Len(log'[k]) = to
      BY <2>1, <3>1, <3>2, <3>3, CutIs DEF TruncateTo
    <3>5. to < LogEnd(k) /\ Failover /\ IsOld(k) /\ to = SecondCut(k)
      BY <3>1, <3>2, <3>3, <3>4
    <3>6. Start2 \in Nat /\ watermark[k] <= Start2
      BY <3>5, SecondLeader DEF IsOld
    <3>7. watermark[k] <= to
      BY <3>2, <3>5, <3>6 DEF SecondCut
    <3>8. Min({watermark[k], LogEnd(k)}) =
            IF watermark[k] <= LogEnd(k) THEN watermark[k] ELSE LogEnd(k)
      BY <3>2, MinOfTwo
    <3> QED BY <3>2, <3>4, <3>5, <3>7, <3>8
  <2>5. CASE \/ Produce(b) \/ Commit(b) \/ EvictLaggards(b) \/ Readmit(b)
             \/ Elect(b) \/ BecomeLeader(b) \/ StopServing(b)
             \/ Crash(b) \/ Restart(b)
             \/ \E leader \in Broker \ {b} : Fetch(b, leader)
    BY <2>1, <2>3, <2>5, OthersNeverShorten
  <2> HIDE DEF Spared
  <2> QED BY <2>2, <2>4, <2>5
<1> QED BY <1>1, FailoverInvariant, PTL DEF Spec, TruncationSparesPromised

\* The epoch a cache gives an offset: that of an entry none of the others that start in
\* time exceeds.
LEMMA EpochOfIs ==
  ASSUME NEW c \in Seq(Epoch \X Nat), NEW n \in Nat, NEW j \in DOMAIN c, c[j][2] <= n,
         \A k \in DOMAIN c : c[k][2] <= n => c[k][1] <= c[j][1]
  PROVE  EpochOf(c, n) = c[j][1]
<1> DEFINE S == {c[i][1] : i \in {k \in DOMAIN c : c[k][2] <= n}}
<1>1. \A k \in DOMAIN c : c[k][1] \in Nat
  <2>1. \A k \in DOMAIN c : c[k] \in Epoch \X Nat
    OBVIOUS
  <2>2. \A k \in DOMAIN c : c[k][1] \in Epoch
    BY <2>1
  <2> QED BY <2>2, ReplicationAssumption DEF Epoch
<1>2. c[j][1] \in S /\ \A x \in S : x \in Nat /\ c[j][1] >= x
  BY <1>1
<1>3. Max(S) \in S /\ \A x \in S : Max(S) >= x
  BY <1>2 DEF Max
<1>4. Max(S) = c[j][1]
  <2> HIDE DEF S
  <2> QED BY <1>2, <1>3
<1> QED BY <1>4 DEF EpochOf

\* A log of the first epoch and its cache.
LEMMA OldDescribes ==
  ASSUME NEW s \in Seq(Epoch), NEW c \in Seq(Epoch \X Nat), OldLog(s, c), NEW i \in DOMAIN s
  PROVE  (\E j \in DOMAIN c : c[j][2] <= i - 1) /\ EpochOf(c, i - 1) = s[i]
<1>1. i \in Nat /\ i >= 1 /\ i - 1 \in Nat /\ s # <<>>
  OBVIOUS
<1>2. c = << <<1, 0>> >> /\ s[i] = 1
  BY <1>1 DEF OldLog
<1>3. DOMAIN c = {1} /\ c[1][1] = 1 /\ c[1][2] = 0
  BY <1>2
<1>4. EpochOf(c, i - 1) = c[1][1]
  BY <1>1, <1>3, EpochOfIs
<1> QED BY <1>1, <1>2, <1>3, <1>4

\* A log with records of both epochs, split at start, and the cache of the two epochs.
LEMMA TwoDescribe ==
  ASSUME NEW s \in Seq(Epoch), NEW c \in Seq(Epoch \X Nat), NEW start \in Nat,
         NEW i \in DOMAIN s, s[i] = (IF i <= start THEN 1 ELSE 2),
         \/ c = << <<1, 0>>, <<2, start>> >>
         \/ start = 0 /\ c = << <<2, 0>> >>
         \/ i <= start /\ c = << <<1, 0>> >>
  PROVE  (\E j \in DOMAIN c : c[j][2] <= i - 1) /\ EpochOf(c, i - 1) = s[i]
<1>1. i \in Nat /\ i >= 1 /\ i - 1 \in Nat
  OBVIOUS
<1>2. CASE c = << <<1, 0>>, <<2, start>> >>
  <2>1. DOMAIN c = {1, 2} /\ c[1][1] = 1 /\ c[1][2] = 0 /\ c[2][1] = 2 /\ c[2][2] = start
    BY <1>2, TwoEntries
  <2>2. CASE i <= start
    <3>1. /\ 1 \in DOMAIN c /\ c[1][2] <= i - 1
          /\ \A k \in DOMAIN c : c[k][2] <= i - 1 => c[k][1] <= c[1][1]
      BY <1>1, <2>1, <2>2
    <3>2. EpochOf(c, i - 1) = c[1][1]
      BY <1>1, <3>1, EpochOfIs
    <3> QED BY <2>1, <2>2, <3>1, <3>2
  <2>3. CASE i > start
    <3>0. start <= i - 1
      BY <1>1, <2>3
    <3>1. /\ 2 \in DOMAIN c /\ c[2][2] <= i - 1
          /\ \A k \in DOMAIN c : c[k][2] <= i - 1 => c[k][1] <= c[2][1]
      BY <2>1, <3>0
    <3>2. EpochOf(c, i - 1) = c[2][1]
      BY <1>1, <3>1, EpochOfIs
    <3> QED BY <1>1, <2>1, <2>3, <3>1, <3>2
  <2> QED BY <1>1, <2>2, <2>3
<1>3. CASE start = 0 /\ c = << <<2, 0>> >>
  <2>1. DOMAIN c = {1} /\ c[1][1] = 2 /\ c[1][2] = 0
    BY <1>3
  <2>2. EpochOf(c, i - 1) = c[1][1]
    BY <1>1, <2>1, EpochOfIs
  <2> QED BY <1>1, <1>3, <2>1, <2>2
<1>4. CASE i <= start /\ c = << <<1, 0>> >>
  <2>1. DOMAIN c = {1} /\ c[1][1] = 1 /\ c[1][2] = 0
    BY <1>4
  <2>2. EpochOf(c, i - 1) = c[1][1]
    BY <1>1, <2>1, EpochOfIs
  <2> QED BY <1>1, <1>4, <2>1, <2>2
<1> QED BY <1>2, <1>3, <1>4

(***************************************************************************)
(* Through one clean failover the epoch caches, on which the handshake and *)
(* the recovery rely, describe the logs: truncation and fetching keep the  *)
(* two in step.                                                            *)
(***************************************************************************)
THEOREM CachesDescribeLogs ==
  ASSUME OneCleanFailover
  PROVE  Spec => []CacheDescribesLog
<1>1. FailoverInv => CacheDescribesLog
  <2> SUFFICES ASSUME FailoverInv, NEW b \in Broker, NEW i \in DOMAIN log[b]
               PROVE  /\ \E j \in DOMAIN entries[b] : entries[b][j][2] <= i - 1
                      /\ EpochOf(entries[b], i - 1) = log[b][i]
    BY DEF CacheDescribesLog
  <2>1. AlwaysInv
    BY DEF FailoverInv
  <2>2. log[b] \in Seq(Epoch) /\ entries[b] \in Seq(Epoch \X Nat) /\ Len(log[b]) \in Nat
    BY <2>1, Fields
  <2>3. CASE OldLog(log[b], entries[b])
    BY <2>2, <2>3, OldDescribes
  <2>4. CASE Failover /\ ~ OldLog(log[b], entries[b])
    <3>1. /\ leader_of[2] \in Broker /\ AfterInv /\ Start2 \in Nat
          /\ LeaderLog(log[leader_of[2]], entries[leader_of[2]], Start2)
      BY <2>4, SecondLeader
    <3>2. log[leader_of[2]] \in Seq(Epoch) /\ Len(log[leader_of[2]]) \in Nat
      BY <2>1, <3>1, Fields
    <3>3. CASE b = leader_of[2]
      <4>1. /\ log[b][i] = (IF i <= Start2 THEN 1 ELSE 2)
            /\ entries[b] = << <<1, 0>>, <<2, Start2>> >>
                 \/ (Start2 = 0 /\ entries[b] = << <<2, 0>> >>)
        BY <3>1, <3>3 DEF LeaderLog
      <4> HIDE DEF Start2
      <4> QED BY <2>2, <3>1, <4>1, TwoDescribe
    <3>4. CASE b # leader_of[2]
      <4>1. NewLog(log[b], entries[b], log[leader_of[2]], Start2)
        BY <2>4, <3>1, <3>4 DEF AfterInv, IsOld, IsNew
      <4>2. i \in DOMAIN log[leader_of[2]] /\ log[b][i] = log[leader_of[2]][i]
        BY <2>2, <3>2, <4>1 DEF NewLog
      <4>3. log[b][i] = (IF i <= Start2 THEN 1 ELSE 2)
        BY <3>1, <4>2 DEF LeaderLog
      <4>4. entries[b] = CacheOf(Len(log[b]), Start2) /\ i \in 1 .. Len(log[b])
        BY <2>2, <4>1 DEF NewLog
      <4> HIDE DEF Start2
      <4>5. \/ entries[b] = << <<1, 0>>, <<2, Start2>> >>
            \/ Start2 = 0 /\ entries[b] = << <<2, 0>> >>
            \/ i <= Start2 /\ entries[b] = << <<1, 0>> >>
        BY <2>2, <3>1, <4>4 DEF CacheOf
      <4> QED BY <2>2, <3>1, <4>3, <4>5, TwoDescribe
    <3> QED BY <3>3, <3>4
  <2> QED BY <2>3, <2>4 DEF FailoverInv, BeforeInv
<1> QED BY <1>1, FailoverInvariant, PTL
============================================================================
