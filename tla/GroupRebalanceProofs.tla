------------------------ MODULE GroupRebalanceProofs ------------------------
(***************************************************************************)
(* The eager rebalance, proved for every set of members and partitions,    *)
(* every length of the logs and any number of faults: what sticky_assign   *)
(* computes, and what the group's generations make of it.  Then the groups *)
(* beyond it: cooperative rebalances, committed offsets, delayed           *)
(* rebalances and weighted shares.                                         *)
(***************************************************************************)
EXTENDS GroupRebalance, GroupParts, NaturalsOrder, FiniteSetTheorems, FunctionTheorems, TLAPS

\* Members that joined: a finite group.
Group(members) == members \in SUBSET Nat /\ IsFiniteSet(members) /\ members # {}

\* What a plan on its way has not given to anybody.
Unplaced(result) == Partition \ UNION Range(result)

\* No two members get the same partition.
Disjoint(members, result) ==
  \A m, k \in members : m # k => result[m] \cap result[k] = {}

(***************************************************************************)
(* A plan on its way: nothing is given twice, nobody has more than its     *)
(* share, and so many partitions are still to be placed.                   *)
(***************************************************************************)
Partial(members, result, left) ==
  /\ result \in [members -> SUBSET Partition]
  /\ Disjoint(members, result)
  /\ \A m \in members : Cardinality(result[m]) <= TargetIn(members, m)
  /\ Cardinality(Unplaced(result)) = left

(***************************************************************************)
(* The group between steps.                                                *)
(***************************************************************************)
Clients == {"out", "joined", "owner", "revoking", "crashed", "closed"}

\* The types of the state.
Types ==
  /\ state \in States
  /\ generation \in Nat
  /\ live \in SUBSET Member
  /\ joined \in Seq(Member)
  /\ submitted \in BOOLEAN
  /\ assignment \in [Member -> SUBSET Partition]
  /\ store \in Seq([partition : Partition, offset : 0 .. LogEnd])
  /\ replayed_to \in 0 .. Len(store)
  /\ client \in [Member -> Clients]
  /\ gen \in [Member -> Nat]
  /\ owned \in [Member -> SUBSET Partition]
  /\ position \in [Member -> [Partition -> 0 .. LogEnd]]
  /\ processed \in [Partition -> SUBSET Nat]

\* A plan is there only between its submission and the next rebalance, for the members
\* that joined; no plan gives a partition twice.
Planned ==
  /\ NoOverlap(assignment)
  /\ state \in {"CompletingRebalance", "Stable"} => joined # <<>>
  /\ state = "Stable" => submitted
  /\ submitted => state \in {"CompletingRebalance", "Stable"} /\ PlanIsComplete /\ PlanIsFair

\* Who holds what: its slice of this generation's plan, or something of an earlier one.
Holding(m) ==
  /\ gen[m] <= generation
  /\ client[m] \notin {"owner", "revoking"} => owned[m] = {}
  /\ client[m] \in {"owner", "revoking"} /\ gen[m] = generation
       => submitted /\ owned[m] = assignment[m]

\* A consumer stands behind records that were processed.
Positions == \A m \in Member : \A p \in Partition : 0 .. position[m][p] - 1 \subseteq processed[p]

\* The store: each commit of a partition is beyond the ones before it, and behind what was
\* processed.
Growing(s, done) ==
  \A i \in 1 .. Len(s) :
    /\ 0 .. s[i].offset - 1 \subseteq done[s[i].partition]
    /\ \A j \in 1 .. i - 1 : s[j].partition = s[i].partition => s[j].offset < s[i].offset

\* The inductive invariant.
IInv ==
  /\ Types
  /\ Planned
  /\ \A m \in Member : Holding(m)
  /\ Positions
  /\ Growing(store, processed)
----------------------------------------------------------------------------
\* Partitions can be counted.
LEMMA PartitionsAreFinite ==
  /\ Cardinality(Partition) \in Nat
  /\ \A S \in SUBSET Partition : IsFiniteSet(S) /\ Cardinality(S) \in Nat
<1>1. IsFiniteSet(Partition)
  BY GroupRebalanceAssumption
<1>2. \A S \in SUBSET Partition : IsFiniteSet(S)
  BY <1>1, FS_Subset
<1> QED BY <1>1, <1>2, FS_CardinalityType

(***************************************************************************)
(* The shares _balanced_counts hands out: naturals one apart at most that  *)
(* are the sizes of the parts of a set as large as the partitions.         *)
(***************************************************************************)
LEMMA SharesAddUp ==
  ASSUME NEW members, Group(members)
  PROVE  /\ \A m \in members : TargetIn(members, m) \in Nat
         /\ \A m, k \in members : TargetIn(members, m) <= TargetIn(members, k) + 1
         /\ \E a \in [members -> SUBSET (0 .. Cardinality(Partition) - 1)] :
              /\ \A x \in 0 .. Cardinality(Partition) - 1 : \E m \in members : x \in a[m]
              /\ Disjoint(members, a)
              /\ \A m \in members : Cardinality(a[m]) = TargetIn(members, m)
<1> DEFINE n == Cardinality(members)
           c == Cardinality(Partition)
           a == [m \in members |-> {x \in 0 .. c - 1 : x % n = Rank(members, m)}]
<1>1. c \in Nat
  BY PartitionsAreFinite
<1>2. n \in Nat \ {0}
  BY FS_CardinalityType, FS_EmptySet DEF Group
<1>3. /\ \A m \in members : Rank(members, m) \in 0 .. n - 1
      /\ \A m, k \in members : Rank(members, m) = Rank(members, k) => m = k
      /\ \A j \in 0 .. n - 1 : \E m \in members : Rank(members, m) = j
  BY RankOrders, RankReaches DEF Group
<1>4. \A m \in members :
        TargetIn(members, m) = (c \div n) + (IF Rank(members, m) < c % n THEN 1 ELSE 0)
  BY DEF TargetIn, Rank
<1> HIDE DEF c, n
<1>5. c \div n \in Nat
  BY <1>1, <1>2, Division
<1>6. \A m \in members : Cardinality(a[m]) = TargetIn(members, m)
  BY <1>1, <1>2, <1>3, <1>4, Remainders
<1>7. \A x \in 0 .. c - 1 : x % n \in 0 .. n - 1
  BY <1>1, <1>2, Division
<1>8. \A x \in 0 .. c - 1 : \E m \in members : x \in a[m]
  BY <1>3, <1>7
<1>9. Disjoint(members, a)
  BY <1>3 DEF Disjoint
<1>10. a \in [members -> SUBSET (0 .. c - 1)]
  OBVIOUS
<1>11. \A m \in members : TargetIn(members, m) \in Nat
  BY <1>4, <1>5
<1>12. \A m, k \in members : TargetIn(members, m) <= TargetIn(members, k) + 1
  BY <1>4, <1>5
<1> HIDE DEF a
<1> QED BY <1>6, <1>8, <1>9, <1>10, <1>11, <1>12 DEF c

\* What a partial plan has placed, and what it has not.
LEMMA Placed ==
  ASSUME NEW members, NEW result \in [members -> SUBSET Partition]
  PROVE  /\ \A p \in Partition : p \notin Unplaced(result) <=> \E m \in members : p \in result[m]
         /\ Unplaced(result) \in SUBSET Partition
BY DEF Unplaced, Range

(***************************************************************************)
(* While a partition is unplaced, somebody is below its share.             *)
(***************************************************************************)
LEMMA RoomIsLeft ==
  ASSUME NEW members, Group(members),
         NEW result \in [members -> SUBSET Partition], Disjoint(members, result),
         Unplaced(result) # {}
  PROVE  \E m \in members : Cardinality(result[m]) < TargetIn(members, m)
<1> SUFFICES ASSUME \A m \in members : ~(Cardinality(result[m]) < TargetIn(members, m))
             PROVE  FALSE
  OBVIOUS
<1> DEFINE c == Cardinality(Partition)
           V == 0 .. c - 1
           U == Partition \ Unplaced(result)
<1>1. PICK a \in [members -> SUBSET V] :
        /\ \A x \in V : \E m \in members : x \in a[m]
        /\ \A m \in members : Cardinality(a[m]) = TargetIn(members, m)
  BY SharesAddUp
<1>2. c \in Nat
  BY PartitionsAreFinite
<1>3. \A m \in members : Cardinality(a[m]) <= Cardinality(result[m])
  <2>1. \A m \in members : TargetIn(members, m) \in Nat /\ Cardinality(result[m]) \in Nat
    BY SharesAddUp, PartitionsAreFinite
  <2> QED BY <1>1, <2>1
<1>4. U \in SUBSET Partition /\ U # Partition
  BY Placed
<1>5. result \in [members -> SUBSET U]
  BY Placed
<1>6. IsFiniteSet(U) /\ Cardinality(U) \in Nat
  BY <1>4, PartitionsAreFinite
<1>7. IsFiniteSet(V) /\ Cardinality(V) = c
  <2> HIDE DEF c
  <2> QED BY <1>2, FS_Interval
<1> HIDE DEF c, V, U
<1>8. \A m, k \in members : m # k => result[m] \cap result[k] = {}
  BY DEF Disjoint
<1>9. Cardinality(V) <= Cardinality(U)
  BY <1>1, <1>3, <1>5, <1>6, <1>7, <1>8, FamiliesCompare
<1>10. IsFiniteSet(Partition)
  BY GroupRebalanceAssumption
<1>11. Cardinality(U) <= c /\ (c = Cardinality(U) => Partition = U)
  BY <1>4, <1>10, FS_Subset DEF c
<1> QED BY <1>2, <1>4, <1>6, <1>7, <1>9, <1>11

(***************************************************************************)
(* When all are placed and nobody has more than its share, all have theirs.*)
(***************************************************************************)
LEMMA SharesAreMet ==
  ASSUME NEW members, Group(members), NEW result, Partial(members, result, 0)
  PROVE  \A m \in members : Cardinality(result[m]) = TargetIn(members, m)
<1> SUFFICES ASSUME NEW m \in members, Cardinality(result[m]) # TargetIn(members, m)
             PROVE  FALSE
  OBVIOUS
<1> DEFINE c == Cardinality(Partition)
           V == 0 .. c - 1
<1>1. PICK a \in [members -> SUBSET V] :
        /\ Disjoint(members, a)
        /\ \A k \in members : Cardinality(a[k]) = TargetIn(members, k)
  BY SharesAddUp
<1>2. c \in Nat
  BY PartitionsAreFinite
<1>3. \A k \in members : /\ TargetIn(members, k) \in Nat
                         /\ Cardinality(result[k]) \in Nat
                         /\ Cardinality(result[k]) <= TargetIn(members, k)
  BY SharesAddUp, PartitionsAreFinite DEF Partial
<1>4. IsFiniteSet(V) /\ Cardinality(V) = c
  <2> HIDE DEF c
  <2> QED BY <1>2, FS_Interval
<1> HIDE DEF c, V
<1>5. Cardinality(result[m]) < Cardinality(a[m]) /\ Cardinality(a[m]) \in Nat
  BY <1>1, <1>3
<1>6. IsFiniteSet(a[m])
  BY <1>1, <1>4, FS_Subset
<1>7. PICK y : y \in a[m]
  BY <1>5, <1>6, <1>3, FS_EmptySet
<1> DEFINE b == [a EXCEPT ![m] = @ \ {y}]
<1>8. b \in [members -> SUBSET (V \ {y})]
  BY <1>1, <1>7 DEF Disjoint
<1>9. \A k, o \in members : k # o => b[k] \cap b[o] = {}
  BY <1>1 DEF Disjoint
<1>10. Cardinality(a[m] \ {y}) = Cardinality(a[m]) - 1
  BY <1>6, <1>7, FS_RemoveElement
<1>11. \A k \in members : Cardinality(result[k]) <= Cardinality(b[k])
  BY <1>1, <1>3, <1>5, <1>10
<1>12. /\ IsFiniteSet(V \ {y})
       /\ Cardinality(V \ {y}) = c - 1
  BY <1>4, <1>7, <1>1, FS_RemoveElement
<1>13. result \in [members -> SUBSET Partition] /\ Unplaced(result) = {}
  <2>1. result \in [members -> SUBSET Partition]
    BY DEF Partial
  <2>2. IsFiniteSet(Unplaced(result)) /\ Cardinality(Unplaced(result)) = 0
    BY <2>1, Placed, PartitionsAreFinite DEF Partial
  <2> QED BY <2>1, <2>2, FS_EmptySet
<1>14. \A x \in Partition : \E k \in members : x \in result[k]
  BY <1>13, Placed
<1>15. IsFiniteSet(Partition)
  BY GroupRebalanceAssumption
<1> HIDE DEF b
<1>16. Cardinality(Partition) <= Cardinality(V \ {y})
  BY <1>8, <1>9, <1>11, <1>12, <1>13, <1>14, <1>15, FamiliesCompare
<1> QED BY <1>2, <1>12, <1>16 DEF c

\* The member min() picks: none is further below its share.
LEMMA NeediestIsBelow ==
  ASSUME NEW members, Group(members), NEW result \in [members -> SUBSET Partition]
  PROVE  /\ Neediest(members, result) \in members
         /\ \A o \in members :
              Cardinality(result[Neediest(members, result)]) + TargetIn(members, o)
                <= Cardinality(result[o]) + TargetIn(members, Neediest(members, result))
<1> DEFINE has(m)   == Cardinality(result[m])
           share(m) == TargetIn(members, m)
           best(m)  == \A o \in members \ {m} :
                         \/ has(m) + share(o) < has(o) + share(m)
                         \/ has(m) + share(o) = has(o) + share(m) /\ m < o
<1>1. \A m \in members : has(m) \in Nat /\ share(m) \in Nat
  BY SharesAddUp, PartitionsAreFinite
<1>2. \A m, k \in members : share(m) <= share(k) + 1
  BY SharesAddUp
<1>3. Neediest(members, result) = CHOOSE m \in members : best(m)
  BY DEF Neediest
<1>4. PICK any \in members : members \in SUBSET Nat
  BY DEF Group
<1> HIDE DEF has, share
<1> DEFINE gap(m) == has(m) + share(any) + 1 - share(m)
           gaps   == {gap(m) : m \in members}
<1>5. \A m \in members : gap(m) \in Nat
  BY <1>1, <1>2, <1>4
<1>6. \A m, o \in members : gap(m) <= gap(o) <=> has(m) + share(o) <= has(o) + share(m)
  BY <1>1, <1>4
<1> HIDE DEF gap
<1>7. PICK k \in members : \A o \in members : gap(k) <= gap(o)
  <2>1. gaps \in SUBSET Nat /\ gaps # {}
    BY <1>4, <1>5
  <2>2. \E g \in gaps : \A h \in gaps : g <= h
    BY <2>1, LeastNatural
  <2> QED BY <2>2
<1> DEFINE first == {m \in members : gap(m) = gap(k)}
<1>8. PICK m \in first : \A o \in first : m <= o
  <2>1. first \in SUBSET Nat /\ first # {}
    BY <1>4
  <2> HIDE DEF first
  <2> QED BY <2>1, LeastNatural
<1>9. best(m)
  <2> SUFFICES ASSUME NEW o \in members \ {m}
               PROVE  \/ has(m) + share(o) < has(o) + share(m)
                      \/ has(m) + share(o) = has(o) + share(m) /\ m < o
    OBVIOUS
  <2>1. gap(m) <= gap(o) /\ m \in members /\ o \in members
    BY <1>7, <1>8
  <2>2. has(m) + share(o) <= has(o) + share(m)
    BY <2>1, <1>6
  <2>3. ASSUME has(m) + share(o) = has(o) + share(m) PROVE m < o
    <3>1. gap(o) <= gap(m)
      BY <2>1, <2>3, <1>6, <1>1
    <3>2. o \in first
      BY <2>1, <3>1, <1>5, <1>8
    <3> QED BY <3>2, <2>1, <1>8, <1>4
  <2> QED BY <2>1, <2>2, <2>3, <1>1
<1>10. \E x \in members : best(x)
  BY <1>8, <1>9
<1>11. Neediest(members, result) \in members /\ best(Neediest(members, result))
  <2> HIDE DEF best
  <2> QED BY <1>3, <1>10
<1>12. \A o \in members : has(Neediest(members, result)) + share(o)
                            <= has(o) + share(Neediest(members, result))
  BY <1>1, <1>11
<1> QED BY <1>11, <1>12 DEF has, share

(***************************************************************************)
(* Placing one more partition keeps a plan on its way.                     *)
(***************************************************************************)
LEMMA PlaceOneMore ==
  ASSUME NEW members, Group(members), NEW result, NEW left \in Nat \ {0},
         Partial(members, result, left)
  PROVE  Partial(members, Place(members, result), left - 1)
<1> DEFINE k    == Neediest(members, result)
           p    == Min(Unplaced(result))
           next == [result EXCEPT ![k] = @ \cup {p}]
<1>1. Place(members, result) = next
  BY DEF Place, Unplaced
<1>2. result \in [members -> SUBSET Partition] /\ Disjoint(members, result)
  BY DEF Partial
<1>3. /\ Unplaced(result) \in SUBSET Partition /\ IsFiniteSet(Unplaced(result))
      /\ Cardinality(Unplaced(result)) = left /\ Unplaced(result) # {}
  BY <1>2, Placed, PartitionsAreFinite, FS_EmptySet DEF Partial
<1>4. p \in Unplaced(result) /\ p \in Partition
  BY <1>3, MinOfNaturals, GroupRebalanceAssumption
<1>5. k \in members
  BY <1>2, NeediestIsBelow
<1>6. \A m \in members : p \notin result[m]
  BY <1>2, <1>4, Placed
<1>7. \A m \in members : /\ Cardinality(result[m]) \in Nat
                         /\ Cardinality(result[m]) <= TargetIn(members, m)
                         /\ TargetIn(members, m) \in Nat
                         /\ IsFiniteSet(result[m])
  BY <1>2, SharesAddUp, PartitionsAreFinite DEF Partial
<1>8. Cardinality(result[k]) < TargetIn(members, k)
  <2>1. PICK o \in members : Cardinality(result[o]) < TargetIn(members, o)
    BY <1>2, <1>3, RoomIsLeft
  <2>2. Cardinality(result[k]) + TargetIn(members, o)
          <= Cardinality(result[o]) + TargetIn(members, k)
    BY <1>2, NeediestIsBelow
  <2> HIDE DEF k
  <2> QED BY <2>1, <2>2, <1>5, <1>7
<1> HIDE DEF k, p
<1>9. next \in [members -> SUBSET Partition]
  BY <1>2, <1>4, <1>5
<1>10. Disjoint(members, next)
  BY <1>2, <1>5, <1>6 DEF Disjoint
<1>11. Cardinality(result[k] \cup {p}) = Cardinality(result[k]) + 1
  BY <1>5, <1>6, <1>7, FS_AddElement
<1>12. \A m \in members : Cardinality(next[m]) <= TargetIn(members, m)
  BY <1>2, <1>5, <1>7, <1>8, <1>11
<1>13. Unplaced(next) = Unplaced(result) \ {p}
  <2>1. \A q \in Partition : (\E m \in members : q \in next[m])
                               <=> q = p \/ \E m \in members : q \in result[m]
    BY <1>2, <1>5, <1>4
  <2>2. \A q \in Partition : q \in Unplaced(next) <=> q \in Unplaced(result) /\ q # p
    <3> HIDE DEF next
    <3> QED BY <2>1, <1>2, <1>9, Placed
  <2>3. Unplaced(next) \in SUBSET Partition /\ Unplaced(result) \in SUBSET Partition
    BY DEF Unplaced
  <2> HIDE DEF next
  <2> QED BY <2>2, <2>3
<1> HIDE DEF next
<1>14. Cardinality(Unplaced(next)) = left - 1
  BY <1>3, <1>4, <1>13, FS_RemoveElement
<1> QED BY <1>1, <1>9, <1>10, <1>12, <1>14 DEF Partial

\* A member keeps its first partitions, up to its share.
LEMMA KeptIsPartial ==
  ASSUME NEW members \in SUBSET Member, Group(members),
         NEW previous \in [Member -> SUBSET Partition], Disjoint(members, previous)
  PROVE  LET kept == [m \in members |-> KeptBy(members, m, previous)]
         IN  Partial(members, kept, Cardinality(Unplaced(kept)))
<1> DEFINE kept == [m \in members |-> KeptBy(members, m, previous)]
<1>1. ASSUME NEW m \in members
      PROVE  /\ KeptBy(members, m, previous) \in SUBSET previous[m]
             /\ Cardinality(KeptBy(members, m, previous)) <= TargetIn(members, m)
  <2> DEFINE had  == previous[m]
             K    == KeptBy(members, m, previous)
             goal == 0 .. TargetIn(members, m) - 1
             f    == [p \in K |-> Rank(had, p)]
  <2>1. K = {p \in had : Rank(had, p) < TargetIn(members, m)}
    BY DEF KeptBy, Rank
  <2>2. TargetIn(members, m) \in Nat
    BY SharesAddUp
  <2>3. had \in SUBSET Partition /\ had \in SUBSET Nat /\ IsFiniteSet(had)
    BY PartitionsAreFinite, GroupRebalanceAssumption
  <2>4. /\ \A p \in had : Rank(had, p) \in Nat
        /\ \A p, q \in had : Rank(had, p) = Rank(had, q) => p = q
    BY <2>3, RankOrders
  <2>5. f \in [K -> goal] /\ \A p, q \in K : f[p] = f[q] => p = q
    BY <2>1, <2>2, <2>4
  <2>6. IsFiniteSet(goal) /\ Cardinality(goal) = TargetIn(members, m)
    <3> DEFINE t == TargetIn(members, m)
    <3> HIDE DEF t
    <3>1. t \in Nat => IsFiniteSet(0 .. t - 1) /\ Cardinality(0 .. t - 1) = t
      BY FS_Interval
    <3> QED BY <3>1, <2>2 DEF t
  <2> HIDE DEF f, goal, K
  <2>7. f \in Injection(K, goal)
    BY <2>5, Fun_IsInj
  <2>8. Cardinality(K) <= Cardinality(goal)
    BY <2>6, <2>7, FS_Injection
  <2> QED BY <2>1, <2>6, <2>8 DEF K
<1>2. kept \in [members -> SUBSET Partition]
  BY <1>1
<1>3. Disjoint(members, kept)
  BY <1>1 DEF Disjoint
<1>4. \A m \in members : Cardinality(kept[m]) <= TargetIn(members, m)
  BY <1>1
<1> HIDE DEF kept
<1>5. Partial(members, kept, Cardinality(Unplaced(kept)))
  BY <1>2, <1>3, <1>4 DEF Partial
<1> QED BY <1>5 DEF kept

\* The recursion of StickyAssign: after i steps, i partitions fewer are unplaced.
LEMMA PlacingEnds ==
  ASSUME NEW members, Group(members), NEW kept, NEW missing \in Nat,
         Partial(members, kept, missing)
  PROVE  LET placed[i \in 0 .. missing] ==
               IF i = 0 THEN kept ELSE Place(members, placed[i - 1])
         IN  Partial(members, placed[missing], 0)
<1> DEFINE Follows(h, n) ==
             h = [i \in 0 .. n |-> IF i = 0 THEN kept ELSE Place(members, h[i - 1])]
           placed[i \in 0 .. missing] ==
             IF i = 0 THEN kept ELSE Place(members, placed[i - 1])
           Undefined == {n \in Nat : ~ \E h : Follows(h, n)}
<1>1. Undefined = {}
  <2> SUFFICES ASSUME Undefined # {} PROVE FALSE
    OBVIOUS
  <2>1. Undefined \in SUBSET Nat
    OBVIOUS
  <2>2. PICK n \in Undefined : \A o \in Undefined : n <= o
    <3> HIDE DEF Undefined
    <3> QED BY <2>1, LeastNatural
  <2>3. n # 0
    <3>1. Follows([i \in 0 .. 0 |-> kept], 0)
      OBVIOUS
    <3> QED BY <2>2, <3>1
  <2>4. n \in Nat /\ n - 1 \in Nat /\ n - 1 \notin Undefined
    BY <2>2, <2>3
  <2>5. PICK h : Follows(h, n - 1)
    BY <2>4
  <2> DEFINE g == [i \in 0 .. n |-> IF i < n THEN h[i] ELSE Place(members, h[n - 1])]
  <2>6. \A i \in 0 .. n : g[i] = IF i = 0 THEN kept ELSE Place(members, g[i - 1])
    <3> SUFFICES ASSUME NEW i \in 0 .. n
                 PROVE  g[i] = IF i = 0 THEN kept ELSE Place(members, g[i - 1])
      OBVIOUS
    <3>1. \A j \in 0 .. n - 1 : h[j] = IF j = 0 THEN kept ELSE Place(members, h[j - 1])
      BY <2>5
    <3>2. CASE i < n
      <4>1. i \in 0 .. n - 1 /\ g[i] = h[i] /\ (i # 0 => i - 1 \in 0 .. n /\ g[i - 1] = h[i - 1])
        BY <3>2, <2>4
      <4> QED BY <4>1, <3>1
    <3>3. CASE i = n
      <4>1. n - 1 \in 0 .. n /\ g[n] = Place(members, h[n - 1]) /\ g[n - 1] = h[n - 1]
        BY <2>4
      <4> QED BY <4>1, <3>3, <2>3
    <3> QED BY <3>2, <3>3
  <2>7. Follows(g, n)
    <3>1. g = [i \in 0 .. n |-> g[i]]
      OBVIOUS
    <3> HIDE DEF g
    <3> QED BY <3>1, <2>6
  <2> QED BY <2>2, <2>7
<1>2. Follows(placed, missing)
  <2>1. \E h : Follows(h, missing)
    BY <1>1
  <2>2. placed = CHOOSE h : Follows(h, missing)
    OBVIOUS
  <2> HIDE DEF Follows, placed
  <2> QED BY <2>1, <2>2
<1> HIDE DEF placed
<1>3. \A i \in 0 .. missing : placed[i] = IF i = 0 THEN kept ELSE Place(members, placed[i - 1])
  BY <1>2
<1> DEFINE Wrong == {i \in 0 .. missing : ~Partial(members, placed[i], missing - i)}
<1>4. Wrong = {}
  <2> SUFFICES ASSUME Wrong # {} PROVE FALSE
    OBVIOUS
  <2>1. Wrong \in SUBSET Nat
    OBVIOUS
  <2>2. PICK n \in Wrong : \A o \in Wrong : n <= o
    <3> HIDE DEF Wrong
    <3> QED BY <2>1, LeastNatural
  <2>3. n \in 0 .. missing /\ ~Partial(members, placed[n], missing - n)
    BY <2>2
  <2>4. n # 0
    BY <2>3, <1>3
  <2>5. n - 1 \in 0 .. missing /\ n - 1 \notin Wrong
    BY <2>2, <2>3, <2>4
  <2> DEFINE r == placed[n - 1]
             k == missing - (n - 1)
  <2>6. Partial(members, r, k) /\ k \in Nat \ {0} /\ k - 1 = missing - n
    BY <2>3, <2>4, <2>5
  <2>7. placed[n] = Place(members, r)
    BY <2>3, <2>4, <1>3
  <2> HIDE DEF r, k
  <2>8. Partial(members, Place(members, r), k - 1)
    BY <2>6, PlaceOneMore
  <2> QED BY <2>3, <2>6, <2>7, <2>8
<1>5. Partial(members, placed[missing], missing - missing)
  BY <1>4
<1>6. missing - missing = 0
  OBVIOUS
<1> QED BY <1>5, <1>6 DEF placed

(***************************************************************************)
(* sticky_assign, from any earlier plan without overlaps: every partition  *)
(* has one owner among the members, and their counts differ by one at most.*)
(***************************************************************************)
THEOREM StickyAssignIsFair ==
  ASSUME NEW members \in SUBSET Member, IsFiniteSet(members), members # {},
         NEW previous \in [Member -> SUBSET Partition], NoOverlap(previous)
  PROVE  LET plan == StickyAssign(members, previous)
         IN  /\ plan \in [Member -> SUBSET Partition]
             /\ NoOverlap(plan)
             /\ UNION Range(plan) = Partition
             /\ \A m, n \in members : Cardinality(plan[m]) <= Cardinality(plan[n]) + 1
<1> DEFINE kept    == [m \in members |-> KeptBy(members, m, previous)]
           missing == Cardinality(Unplaced(kept))
           placed[i \in 0 .. missing] ==
             IF i = 0 THEN kept ELSE Place(members, placed[i - 1])
           last    == placed[missing]
           plan    == [m \in Member |-> IF m \in members THEN last[m] ELSE {}]
<1>1. StickyAssign(members, previous) = plan
  BY DEF StickyAssign, Unplaced
<1>2. Group(members) /\ Disjoint(members, previous)
  BY GroupRebalanceAssumption DEF Group, NoOverlap, Disjoint
<1>3. Partial(members, kept, missing)
  BY <1>2, KeptIsPartial
<1>4. missing \in Nat
  <2>1. Unplaced(kept) \in SUBSET Partition
    BY DEF Unplaced
  <2> HIDE DEF kept
  <2> QED BY <2>1, PartitionsAreFinite
<1>5. Partial(members, last, 0)
  <2> HIDE DEF kept, missing
  <2> QED BY <1>2, <1>3, <1>4, PlacingEnds
<1> HIDE DEF last, placed, kept, missing
<1>6. last \in [members -> SUBSET Partition] /\ Disjoint(members, last)
  BY <1>5 DEF Partial
<1>7. \A m \in members : Cardinality(last[m]) = TargetIn(members, m)
  BY <1>2, <1>5, SharesAreMet
<1>8. plan \in [Member -> SUBSET Partition] /\ NoOverlap(plan)
  BY <1>6 DEF NoOverlap, Disjoint
<1>9. Unplaced(last) = {}
  <2>1. IsFiniteSet(Unplaced(last)) /\ Cardinality(Unplaced(last)) = 0
    BY <1>5, <1>6, Placed, PartitionsAreFinite DEF Partial
  <2> QED BY <2>1, FS_EmptySet
<1>10. \A p \in Partition : \E m \in members : p \in last[m]
  BY <1>6, <1>9, Placed
<1>11. UNION Range(plan) = Partition
  <2>1. \A p \in Partition : \E m \in Member : p \in plan[m]
    BY <1>10
  <2> HIDE DEF plan
  <2> QED BY <2>1, <1>8 DEF Range
<1>12. \A m, n \in members : Cardinality(plan[m]) <= Cardinality(plan[n]) + 1
  BY <1>2, <1>7, SharesAddUp
<1> HIDE DEF plan
<1> QED BY <1>1, <1>8, <1>11, <1>12
----------------------------------------------------------------------------
\* Types, read off the committed offsets.
LEMMA StoreTypes ==
  ASSUME Types
  PROVE  /\ LogEnd \in Nat /\ Len(store) \in Nat
         /\ replayed_to \in Nat /\ replayed_to <= Len(store)
         /\ \A i \in 1 .. Len(store) : /\ store[i].partition \in Partition
                                       /\ store[i].offset \in 0 .. LogEnd
<1> DEFINE Rec == [partition : Partition, offset : 0 .. LogEnd]
<1>1. store \in Seq(Rec) /\ replayed_to \in 0 .. Len(store)
  BY DEF Types
<1>2. \A r \in Rec : r.partition \in Partition /\ r.offset \in 0 .. LogEnd
  OBVIOUS
<1> HIDE DEF Rec
<1>3. \A i \in 1 .. Len(store) : store[i] \in Rec
  BY <1>1
<1>4. Len(store) \in Nat
  BY <1>1
<1>5. LogEnd \in Nat
  BY GroupRebalanceAssumption
<1> QED BY <1>1, <1>2, <1>3, <1>4, <1>5

\* OffsetStore.fetch: the newest commit replayed; when all are, none is beyond it.
LEMMA CommittedIsLast ==
  ASSUME Types, Growing(store, processed), NEW p \in Partition
  PROVE  /\ Committed(p) \in 0 .. LogEnd
         /\ 0 .. Committed(p) - 1 \subseteq processed[p]
         /\ Loaded => \A i \in 1 .. Len(store) :
              store[i].partition = p => store[i].offset <= Committed(p)
<1> DEFINE mine == {i \in 1 .. replayed_to : store[i].partition = p}
<1>1. /\ LogEnd \in Nat /\ replayed_to \in Nat /\ replayed_to <= Len(store)
      /\ Len(store) \in Nat
      /\ \A i \in 1 .. Len(store) : /\ store[i].partition \in Partition
                                    /\ store[i].offset \in 0 .. LogEnd
  BY StoreTypes
<1>2. CASE mine = {}
  <2>1. Committed(p) = 0
    BY <1>2 DEF Committed
  <2>2. Loaded => \A i \in 1 .. Len(store) : store[i].partition # p
    BY <1>1, <1>2 DEF Loaded
  <2> QED BY <1>1, <2>1, <2>2
<1>3. CASE mine # {}
  <2>1. mine \in SUBSET Nat /\ \A i \in mine : i <= replayed_to
    BY <1>1
  <2> DEFINE k == Max(mine)
  <2>2. k \in mine /\ \A i \in mine : i <= k
    <3> HIDE DEF mine
    <3> QED BY <1>1, <1>3, <2>1, MaxOfNaturals
  <2>3. Committed(p) = store[k].offset
    BY <1>3 DEF Committed
  <2> HIDE DEF k
  <2>4. k \in 1 .. Len(store) /\ store[k].partition = p
    BY <2>2, <1>1
  <2>5. 0 .. store[k].offset - 1 \subseteq processed[p]
    BY <2>4 DEF Growing
  <2>6. ASSUME Loaded, NEW i \in 1 .. Len(store), store[i].partition = p
        PROVE  store[i].offset <= store[k].offset
    <3>1. i \in mine
      BY <2>6, <1>1 DEF Loaded
    <3>2. i <= k
      BY <3>1, <2>2
    <3>3. CASE i = k
      BY <3>3, <2>4, <1>1
    <3>4. CASE i < k
      <4>1. i \in 1 .. k - 1
        BY <3>4, <2>4, <2>6
      <4>2. store[i].offset < store[k].offset
        BY <4>1, <2>4, <2>6 DEF Growing
      <4> QED BY <4>2, <2>4, <1>1
    <3> QED BY <3>2, <3>3, <3>4, <2>4
  <2> QED BY <1>1, <2>3, <2>4, <2>5, <2>6
<1> QED BY <1>2, <1>3

\* SetToSeq lists a finite set, each element once.
LEMMA ListsOnce ==
  ASSUME NEW S, IsFiniteSet(S)
  PROVE  /\ SetToSeq(S) \in [1 .. Cardinality(S) -> S]
         /\ \A i, j \in 1 .. Cardinality(S) : SetToSeq(S)[i] = SetToSeq(S)[j] => i = j
<1> DEFINE n == Cardinality(S)
<1>1. PICK f : f \in Bijection(1 .. n, S)
  BY FS_CardinalityType, Fun_ExistsBij
<1> HIDE DEF n
<1>2. f \in [1 .. n -> S] /\ \A i, j \in 1 .. n : f[i] = f[j] => i = j
  BY <1>1, Fun_BijectionProperties, Zenon
<1>3. IsInjective(f)
  BY <1>2 DEF IsInjective
<1>4. SetToSeq(S) = CHOOSE g \in [1 .. n -> S] : IsInjective(g)
  BY DEF SetToSeq, n
<1>5. SetToSeq(S) \in [1 .. n -> S] /\ IsInjective(SetToSeq(S))
  BY <1>2, <1>3, <1>4
<1> QED BY <1>5 DEF IsInjective, n

(***************************************************************************)
(* Commits that advance, of one consumer and appended by a coordinator     *)
(* that has loaded, keep the store growing over processed records.         *)
(***************************************************************************)
LEMMA RecordsGrow ==
  ASSUME Types, Positions, Growing(store, processed), Loaded,
         NEW m \in Member, NEW ps \in SUBSET Partition, \A p \in ps : Advances(m, p),
         NEW s, s = store \o Records(m, ps)
  PROVE  /\ s \in Seq([partition : Partition, offset : 0 .. LogEnd])
         /\ Len(s) \in Nat
         /\ Growing(s, processed)
         /\ \A i \in Len(store) + 1 .. Len(s) :
              s[i].partition \in ps /\ s[i].offset = position[m][s[i].partition]
<1> DEFINE new == Records(m, ps)
           k   == Cardinality(ps)
           Rec == [partition : Partition, offset : 0 .. LogEnd]
<1>1. IsFiniteSet(ps) /\ k \in Nat
  BY PartitionsAreFinite
<1>2. /\ SetToSeq(ps) \in [1 .. k -> ps]
      /\ \A i, j \in 1 .. k : SetToSeq(ps)[i] = SetToSeq(ps)[j] => i = j
  BY <1>1, ListsOnce
<1>3. new = [i \in 1 .. k |-> [partition |-> SetToSeq(ps)[i],
                               offset |-> position[m][SetToSeq(ps)[i]]]]
  BY DEF Records
<1>4. position[m] \in [Partition -> 0 .. LogEnd]
  BY DEF Types
<1>5. \A i \in 1 .. k : /\ new[i] \in Rec
                        /\ new[i].partition \in ps
                        /\ new[i].offset = position[m][new[i].partition]
                        /\ new[i].partition = SetToSeq(ps)[i]
  <2> HIDE DEF new, k
  <2> QED BY <1>2, <1>3, <1>4
<1>6. new \in Seq(Rec) /\ Len(new) = k
  <2>1. new \in [1 .. k -> Rec]
    <3> HIDE DEF Rec, k
    <3> QED BY <1>3, <1>5
  <2> HIDE DEF new, k, Rec
  <2> QED BY <1>1, <2>1
<1>7. store \in Seq(Rec)
  BY DEF Types
<1> HIDE DEF new, k
<1>8. /\ s \in Seq(Rec) /\ Len(s) = Len(store) + k /\ Len(store) \in Nat
      /\ \A i \in 1 .. Len(store) : s[i] = store[i]
      /\ \A i \in Len(store) + 1 .. Len(s) : s[i] = new[i - Len(store)]
  <2> HIDE DEF Rec
  <2>1. s = store \o new
    BY DEF new
  <2>2. s \in Seq(Rec) /\ Len(s) = Len(store) + k /\ Len(store) \in Nat
    <3>1. \A u, v \in Seq(Rec) : u \o v \in Seq(Rec)
      OBVIOUS
    <3>2. \A u, v \in Seq(Rec) : Len(u \o v) = Len(u) + Len(v) /\ Len(u) \in Nat
      OBVIOUS
    <3> QED BY <2>1, <1>6, <1>7, <3>1, <3>2
  <2>3. \A i \in 1 .. Len(store) : s[i] = store[i]
    BY <2>1, <1>6, <1>7
  <2>4. \A i \in Len(store) + 1 .. Len(store) + k : s[i] = new[i - Len(store)]
    BY <2>1, <1>1, <1>6, <1>7
  <2> QED BY <2>2, <2>3, <2>4
<1>9. \A i \in Len(store) + 1 .. Len(s) :
        /\ i - Len(store) \in 1 .. k
        /\ s[i].partition \in ps /\ s[i].offset = position[m][s[i].partition]
        /\ s[i].partition = SetToSeq(ps)[i - Len(store)]
  BY <1>1, <1>5, <1>8, SMTT(30)
<1>10. Growing(s, processed)
  <2> SUFFICES ASSUME NEW i \in 1 .. Len(s)
               PROVE  /\ 0 .. s[i].offset - 1 \subseteq processed[s[i].partition]
                      /\ \A j \in 1 .. i - 1 :
                           s[j].partition = s[i].partition => s[j].offset < s[i].offset
    BY DEF Growing
  <2>1. CASE i \in 1 .. Len(store)
    <3>1. s[i] = store[i] /\ \A j \in 1 .. i - 1 : j \in 1 .. Len(store) /\ s[j] = store[j]
      BY <2>1, <1>8
    <3> QED BY <2>1, <3>1 DEF Growing
  <2>2. CASE i \in Len(store) + 1 .. Len(s)
    <3> DEFINE p == s[i].partition
    <3>1. p \in Partition /\ p \in ps /\ s[i].offset = position[m][p]
      BY <2>2, <1>9
    <3>2. 0 .. s[i].offset - 1 \subseteq processed[p]
      BY <3>1 DEF Positions
    <3>3. ASSUME NEW j \in 1 .. i - 1, s[j].partition = p
          PROVE  s[j].offset < s[i].offset
      <4>1. CASE j \in 1 .. Len(store)
        <5>1. store[j].partition = p /\ store[j].offset = s[j].offset
          BY <4>1, <3>3, <1>8
        <5>2. store[j].offset <= Committed(p) /\ Committed(p) \in 0 .. LogEnd
          BY <4>1, <5>1, <3>1, CommittedIsLast
        <5>3. position[m][p] > Committed(p)
          BY <3>1 DEF Advances
        <5>4. store[j].offset \in 0 .. LogEnd /\ position[m][p] \in 0 .. LogEnd /\ LogEnd \in Nat
          BY <4>1, <3>1, <1>4, StoreTypes
        <5> HIDE DEF p
        <5> QED BY <5>1, <5>2, <5>3, <5>4, <3>1, SMTT(30)
      <4>2. CASE j \in Len(store) + 1 .. Len(s)
        <5>1. SetToSeq(ps)[i - Len(store)] = SetToSeq(ps)[j - Len(store)]
          BY <2>2, <4>2, <3>3, <1>9
        <5>2. i - Len(store) = j - Len(store)
          BY <5>1, <2>2, <4>2, <1>9, <1>2
        <5> QED BY <5>2, <2>2, <4>2, <3>3, <1>8
      <4> QED BY <4>1, <4>2, <2>2, <1>1, <1>8
    <3> QED BY <3>2, <3>3
  <2>3. i \in 1 .. Len(store) \/ i \in Len(store) + 1 .. Len(s)
    BY <1>1, <1>8
  <2> QED BY <2>1, <2>2, <2>3, Zenon
<1> QED BY <1>1, <1>8, <1>9, <1>10
----------------------------------------------------------------------------
\* A group starts empty, with nothing committed.
LEMMA InitIInv == Init => IInv
<1> SUFFICES ASSUME Init PROVE IInv
  OBVIOUS
<1>1. LogEnd \in Nat
  BY GroupRebalanceAssumption
<1>2. Types
  <2>1. /\ store \in Seq([partition : Partition, offset : 0 .. LogEnd])
        /\ joined \in Seq(Member) /\ replayed_to \in 0 .. Len(store)
    BY DEF Init
  <2>2. position \in [Member -> [Partition -> 0 .. LogEnd]]
    BY <1>1 DEF Init
  <2>3. submitted \in BOOLEAN
    BY DEF Init
  <2> QED BY <2>1, <2>2, <2>3 DEF Init, Types, States, Clients
<1>3. Planned
  BY DEF Init, Planned, NoOverlap
<1>4. \A m \in Member : Holding(m)
  BY DEF Init, Holding
<1>5. Positions
  BY DEF Init, Positions
<1>6. Growing(store, processed)
  BY DEF Init, Growing
<1> QED BY <1>2, <1>3, <1>4, <1>5, <1>6 DEF IInv

\* A step that leaves the store, the positions and what was processed alone.
LEMMA ProgressKept ==
  ASSUME IInv, UNCHANGED <<store, position, processed>>
  PROVE  Positions' /\ Growing(store, processed)'
BY DEF IInv, Positions, Growing

\* A step that leaves the plan and its phase alone.
LEMMA PlanKept ==
  ASSUME IInv, UNCHANGED <<state, joined, submitted, assignment>>
  PROVE  Planned'
BY DEF IInv, Planned, PlanIsComplete, PlanIsFair, JoinedSet, NoOverlap

\* A rebalance begins: there is no plan, and whoever owns something owns it of old.
LEMMA PrepareKeeps ==
  ASSUME IInv, NEW first \in Seq(Member), Prepare(first)
  PROVE  /\ state' \in States /\ generation' \in Nat /\ joined' \in Seq(Member)
         /\ submitted' \in BOOLEAN /\ assignment' \in [Member -> SUBSET Partition]
         /\ generation' = generation + 1
         /\ Planned'
<1>1. /\ state' = "PreparingRebalance" /\ joined' = first /\ submitted' = FALSE
      /\ assignment' = assignment /\ generation' = generation + 1
  BY DEF Prepare
<1>2. Types /\ NoOverlap(assignment)
  BY DEF IInv, Planned
<1>3. Planned'
  BY <1>1, <1>2 DEF Planned, NoOverlap
<1>4. submitted' \in BOOLEAN
  BY <1>1
<1>5. /\ state' \in States /\ generation' \in Nat /\ joined' \in Seq(Member)
      /\ assignment' \in [Member -> SUBSET Partition]
  BY <1>1, <1>2 DEF Types, States
<1> QED BY <1>1, <1>3, <1>4, <1>5

\* A join that opens a rebalance ends the plan; what is owned is of an earlier generation.
LEMMA JoinStep ==
  ASSUME IInv, NEW m \in Member, Join(m)
  PROVE  IInv'
<1>1. Types /\ \A k \in Member : Holding(k)
  BY DEF IInv
<1>2. /\ UNCHANGED <<store, replayed_to, owned, position, processed>>
      /\ live' = live \cup {m}
      /\ client' = [client EXCEPT ![m] = "joined"]
      /\ gen' = [gen EXCEPT ![m] = generation']
      /\ client[m] \in {"out", "joined"}
  BY DEF Join, WantsIn, storeVars
<1>3. CASE state \in {"Empty", "Stable"} /\ Prepare(<<m>>)
  <2>1. <<m>> \in Seq(Member)
    OBVIOUS
  <2>2. /\ state' \in States /\ generation' \in Nat /\ joined' \in Seq(Member)
        /\ submitted' \in BOOLEAN /\ assignment' \in [Member -> SUBSET Partition]
        /\ generation' = generation + 1
        /\ Planned'
    BY <1>3, <2>1, PrepareKeeps
  <2>3. Types'
    BY <1>1, <1>2, <2>2 DEF Types, Clients
  <2>4. \A k \in Member : Holding(k)'
    BY <1>1, <1>2, <2>2 DEF Types, Holding
  <2> QED BY <2>2, <2>3, <2>4, <1>2, ProgressKept DEF IInv
<1>4. CASE /\ state = "PreparingRebalance"
           /\ joined' = IF m \in JoinedSet THEN joined ELSE Append(joined, m)
           /\ UNCHANGED <<state, generation, submitted, assignment, synced>>
  <2>1. joined' \in Seq(Member)
    BY <1>1, <1>4 DEF Types
  <2>2. Types'
    BY <1>1, <1>2, <1>4, <2>1 DEF Types, Clients
  <2>3. ~submitted /\ Planned'
    BY <1>4 DEF IInv, Planned, NoOverlap
  <2>4. \A k \in Member : Holding(k)'
    BY <1>1, <1>2, <1>4, <2>3 DEF Types, Holding
  <2> QED BY <2>2, <2>3, <2>4, <1>2, ProgressKept DEF IInv
<1> QED BY <1>3, <1>4 DEF Join

\* The join window closes on a new generation: nobody owns anything of it yet.
LEMMA CloseWindowStep ==
  ASSUME IInv, CloseWindow
  PROVE  IInv'
<1>1. Types /\ \A k \in Member : Holding(k)
  BY DEF IInv
<1>2. /\ UNCHANGED <<generation, joined, submitted, assignment, store, replayed_to,
                     client, gen, owned, position, processed>>
      /\ live' = live \cap JoinedSet
      /\ state = "PreparingRebalance"
      /\ state' = IF joined = <<>> THEN "Empty" ELSE "CompletingRebalance"
  BY DEF CloseWindow, storeVars, clientVars
<1>3. Types'
  BY <1>1, <1>2 DEF Types, States
<1>4. ~submitted
  BY <1>2 DEF IInv, Planned
<1>5. Planned'
  BY <1>2, <1>4 DEF IInv, Planned, NoOverlap
<1>6. \A k \in Member : Holding(k)'
  BY <1>1, <1>2 DEF Holding
<1> QED BY <1>2, <1>3, <1>5, <1>6, ProgressKept DEF IInv

\* The leader's plan: complete, fair and without overlap, by StickyAssignIsFair.
LEMMA SubmitStep ==
  ASSUME IInv, NEW m \in Member, Submit(m)
  PROVE  IInv'
<1>1. Types /\ \A k \in Member : Holding(k)
  BY DEF IInv
<1>2. /\ UNCHANGED <<state, generation, live, joined, store, replayed_to,
                     client, gen, owned, position, processed>>
      /\ state = "CompletingRebalance" /\ ~submitted
      /\ submitted' = TRUE
      /\ assignment' = StickyAssign(JoinedSet, assignment)
  BY DEF Submit, storeVars, clientVars
<1>3. JoinedSet \in SUBSET Member /\ JoinedSet # {} /\ IsFiniteSet(JoinedSet)
  <2>1. joined \in Seq(Member) /\ joined # <<>>
    BY <1>1, <1>2 DEF Types, IInv, Planned
  <2>2. Len(joined) \in Nat \ {0} /\ joined \in [1 .. Len(joined) -> Member]
    BY <2>1
  <2> DEFINE D == 1 .. Len(joined)
  <2>3. IsFiniteSet(D) /\ 1 \in D
    BY <2>2, FS_Interval
  <2> HIDE DEF D
  <2>4. joined \in Surjection(D, Range(joined)) /\ Range(joined) \subseteq Member
    BY <2>2, Fun_RangeProperties DEF D
  <2>5. IsFiniteSet(Range(joined))
    BY <2>3, <2>4, FS_Surjection
  <2>6. joined[1] \in Range(joined)
    BY <2>2, <2>3 DEF D, Range
  <2> QED BY <2>4, <2>5, <2>6 DEF JoinedSet
<1>4. NoOverlap(assignment) /\ assignment \in [Member -> SUBSET Partition]
  BY <1>1 DEF IInv, Planned, Types
<1>5. /\ assignment' \in [Member -> SUBSET Partition]
      /\ NoOverlap(assignment')
      /\ UNION Range(assignment') = Partition
      /\ \A k, n \in JoinedSet : Cardinality(assignment'[k]) <= Cardinality(assignment'[n]) + 1
  BY <1>2, <1>3, <1>4, StickyAssignIsFair
<1>6. Types'
  BY <1>1, <1>2, <1>5 DEF Types
<1>7. joined # <<>>
  BY <1>2 DEF IInv, Planned
<1>8. Planned'
  BY <1>2, <1>5, <1>7 DEF Planned, PlanIsComplete, PlanIsFair, JoinedSet, NoOverlap
<1>9. \A k \in Member : Holding(k)'
  BY <1>1, <1>2 DEF Holding
<1> QED BY <1>2, <1>6, <1>8, <1>9, ProgressKept DEF IInv

\* A member takes its slice of the plan, and stands where the group committed.
LEMMA SyncStep ==
  ASSUME IInv, NEW m \in Member, Sync(m)
  PROVE  IInv'
<1>1. Types /\ (\A k \in Member : Holding(k)) /\ Positions /\ Growing(store, processed)
  BY DEF IInv
<1>2. /\ UNCHANGED <<generation, live, joined, submitted, assignment, store, replayed_to,
                     gen, processed>>
      /\ state = "CompletingRebalance" /\ submitted
      /\ client[m] = "joined" /\ gen[m] = generation
      /\ state' \in {"CompletingRebalance", "Stable"}
      /\ client' = [client EXCEPT ![m] = "owner"]
      /\ owned' = [owned EXCEPT ![m] = @ \cup assignment[m]]
      /\ position' = [position EXCEPT ![m] = [p \in Partition |-> Committed(p)]]
  BY DEF Sync, storeVars
<1>3. \A p \in Partition : /\ Committed(p) \in 0 .. LogEnd
                           /\ 0 .. Committed(p) - 1 \subseteq processed[p]
  BY <1>1, CommittedIsLast
<1>4. [p \in Partition |-> Committed(p)] \in [Partition -> 0 .. LogEnd]
  BY <1>3
<1>5. position' \in [Member -> [Partition -> 0 .. LogEnd]]
  BY <1>1, <1>2, <1>4 DEF Types
<1>6. Types'
  BY <1>1, <1>2, <1>5 DEF Types, States, Clients
<1>7. Planned'
  BY <1>2 DEF IInv, Planned, PlanIsComplete, PlanIsFair, JoinedSet, NoOverlap
<1>8. \A k \in Member : Holding(k)'
  BY <1>1, <1>2 DEF Types, Holding
<1>9. Positions'
  <2> SUFFICES ASSUME NEW k \in Member, NEW p \in Partition
               PROVE  0 .. position'[k][p] - 1 \subseteq processed[p]
    BY <1>2 DEF Positions
  <2>1. CASE k = m
    <3>1. position'[k][p] = Committed(p)
      BY <2>1, <1>1, <1>2 DEF Types
    <3> QED BY <3>1, <1>3
  <2>2. CASE k # m
    <3>1. position'[k] = position[k]
      BY <2>2, <1>1, <1>2 DEF Types
    <3> QED BY <3>1, <1>1 DEF Positions
  <2> QED BY <2>1, <2>2
<1>10. Growing(store, processed)'
  BY <1>1, <1>2 DEF Growing
<1> QED BY <1>6, <1>7, <1>8, <1>9, <1>10 DEF IInv

\* A member processes the next record of a partition it owns.
LEMMA ProcessStep ==
  ASSUME IInv, NEW m \in Member, NEW p \in Partition, Process(m, p)
  PROVE  IInv'
<1>1. Types /\ (\A k \in Member : Holding(k)) /\ Positions /\ Growing(store, processed)
  BY DEF IInv
<1>2. /\ UNCHANGED <<state, generation, live, joined, submitted, assignment, store,
                     replayed_to, client, gen, owned>>
      /\ position[m][p] < LogEnd
      /\ position' = [position EXCEPT ![m][p] = @ + 1]
      /\ processed' = [processed EXCEPT ![p] = @ \cup {position[m][p]}]
  BY DEF Process, coordVars, storeVars
<1>3. position \in [Member -> [Partition -> 0 .. LogEnd]] /\ LogEnd \in Nat
  BY <1>1, GroupRebalanceAssumption DEF Types
<1>4. position[m][p] \in Nat /\ position[m][p] + 1 \in 0 .. LogEnd
  BY <1>2, <1>3
<1>5. position' \in [Member -> [Partition -> 0 .. LogEnd]]
  BY <1>2, <1>3, <1>4
<1>6. processed' \in [Partition -> SUBSET Nat]
  BY <1>1, <1>2, <1>4 DEF Types
<1>7. Types'
  BY <1>1, <1>2, <1>5, <1>6 DEF Types
<1>8. \A q \in Partition : processed[q] \subseteq processed'[q]
  BY <1>1, <1>2 DEF Types
<1>9. Positions'
  <2> SUFFICES ASSUME NEW k \in Member, NEW q \in Partition
               PROVE  0 .. position'[k][q] - 1 \subseteq processed'[q]
    BY DEF Positions
  <2>1. 0 .. position[k][q] - 1 \subseteq processed'[q]
    BY <1>1, <1>8 DEF Positions
  <2>2. CASE k = m /\ q = p
    <3>1. position'[k][q] = position[m][p] + 1 /\ position[m][p] \in processed'[p]
      BY <2>2, <1>1, <1>2, <1>3 DEF Types
    <3> QED BY <2>1, <2>2, <3>1, <1>4
  <2>3. CASE ~(k = m /\ q = p)
    <3>1. position'[k][q] = position[k][q]
      BY <2>3, <1>2, <1>3
    <3> QED BY <2>1, <3>1
  <2> QED BY <2>2, <2>3
<1>10. Growing(store, processed)'
  <2>1. \A i \in 1 .. Len(store) : store[i].partition \in Partition
    BY <1>1, StoreTypes
  <2> QED BY <2>1, <1>1, <1>2, <1>8 DEF Growing
<1>11. \A k \in Member : Holding(k)'
  BY <1>1, <1>2 DEF Holding
<1> QED BY <1>2, <1>7, <1>9, <1>10, <1>11, PlanKept DEF IInv

\* Commits change the store only.
LEMMA StoreStep ==
  ASSUME IInv, Loaded, NEW m \in Member, NEW ps \in SUBSET Partition,
         \A p \in ps : Advances(m, p), Store(m, ps), UNCHANGED <<position, processed>>
  PROVE  /\ store' \in Seq([partition : Partition, offset : 0 .. LogEnd])
         /\ replayed_to' \in 0 .. Len(store')
         /\ Positions' /\ Growing(store, processed)'
         /\ \A i \in Len(store) + 1 .. Len(store') :
              store'[i].partition \in ps /\ store'[i].offset = position[m][store'[i].partition]
<1> DEFINE s == store \o Records(m, ps)
<1>1. Types /\ Positions /\ Growing(store, processed)
  BY DEF IInv
<1>2. store' = s /\ replayed_to' = Len(store') /\ s = store \o Records(m, ps)
  BY DEF Store
<1> HIDE DEF s
<1>3. /\ s \in Seq([partition : Partition, offset : 0 .. LogEnd])
      /\ Len(s) \in Nat
      /\ Growing(s, processed)
      /\ \A i \in Len(store) + 1 .. Len(s) :
           s[i].partition \in ps /\ s[i].offset = position[m][s[i].partition]
  <2>1. \A x : x = store \o Records(m, ps) =>
                 /\ x \in Seq([partition : Partition, offset : 0 .. LogEnd])
                 /\ Len(x) \in Nat
                 /\ Growing(x, processed)
                 /\ \A i \in Len(store) + 1 .. Len(x) :
                      x[i].partition \in ps /\ x[i].offset = position[m][x[i].partition]
    BY <1>1, RecordsGrow
  <2> QED BY <1>2, <2>1, Zenon
<1>4. Positions' /\ Growing(store, processed)'
  <2>1. Positions'
    BY <1>1, <1>2, <1>3, SMTT(30) DEF Positions
  <2>2. Growing(store', processed')
    <3>1. processed' = processed
      OBVIOUS
    <3> QED BY <1>2, <1>3, <3>1, Zenon
  <2> QED BY <2>1, <2>2, Zenon DEF Growing
<1>5. replayed_to' \in 0 .. Len(store')
  BY <1>2, <1>3
<1> QED BY <1>2, <1>3, <1>4, <1>5, Zenon

\* A fenced commit that goes beyond the last one of its partition.
LEMMA CommitStep ==
  ASSUME IInv, NEW m \in Member, NEW p \in Partition, Commit(m, p)
  PROVE  IInv'
<1>1. Types /\ (\A k \in Member : Holding(k))
  BY DEF IInv
<1>2. /\ UNCHANGED <<state, generation, live, joined, submitted, assignment,
                     client, gen, owned, position, processed>>
      /\ Loaded /\ Store(m, {p}) /\ \A q \in {p} : Advances(m, q)
  BY DEF Commit, Admitted, coordVars, clientVars
<1>3. /\ store' \in Seq([partition : Partition, offset : 0 .. LogEnd])
      /\ replayed_to' \in 0 .. Len(store')
      /\ Positions' /\ Growing(store, processed)'
  BY <1>2, StoreStep
<1>4. Types'
  BY <1>1, <1>2, <1>3 DEF Types
<1>5. \A k \in Member : Holding(k)'
  BY <1>1, <1>2 DEF Holding
<1> QED BY <1>2, <1>3, <1>4, <1>5, PlanKept DEF IInv

\* A member's own steps: what it holds is let go, or stays while it is revoking.
LEMMA MemberLetsGo ==
  ASSUME IInv, NEW m \in Member, NEW c \in Clients,
         UNCHANGED <<state, generation, live, joined, submitted, assignment, store,
                     replayed_to, gen, position, processed>>,
         client' = [client EXCEPT ![m] = c],
         \/ owned' = [owned EXCEPT ![m] = {}] /\ c \notin {"owner", "revoking"}
         \/ owned' = owned /\ owned[m] = {} /\ c \notin {"owner", "revoking"}
         \/ owned' = owned /\ client[m] = "owner" /\ c = "revoking"
  PROVE  IInv'
<1>1. Types /\ (\A k \in Member : Holding(k))
  BY DEF IInv
<1>2. Types'
  BY <1>1 DEF Types
<1>3. \A k \in Member : Holding(k)'
  BY <1>1 DEF Types, Holding
<1> QED BY <1>2, <1>3, PlanKept, ProgressKept DEF IInv

\* The coordinator gives a member up, or hears it leave.
LEMMA DepartKeeps ==
  ASSUME IInv, NEW m \in Member, Depart(m)
  PROVE  /\ state' \in States /\ generation' \in Nat /\ joined' \in Seq(Member)
         /\ submitted' \in BOOLEAN /\ assignment' \in [Member -> SUBSET Partition]
         /\ live' \in SUBSET Member
         /\ \/ generation' = generation + 1
            \/ generation' = generation /\ submitted' = submitted /\ assignment' = assignment
         /\ Planned'
<1>1. Types
  BY DEF IInv
<1>2. live' \in SUBSET Member
  BY <1>1 DEF Depart, Types
<1>3. CASE Prepare(<<>>)
  <2>1. <<>> \in Seq(Member)
    OBVIOUS
  <2> QED BY <1>2, <1>3, <2>1, PrepareKeeps
<1>4. CASE UNCHANGED <<state, generation, joined, submitted, assignment, synced>>
  <2>1. Planned'
    BY <1>4, PlanKept
  <2>2. submitted' \in BOOLEAN
    BY <1>1, <1>4 DEF Types
  <2> QED BY <1>1, <1>2, <1>4, <2>1, <2>2 DEF Types
<1> QED BY <1>3, <1>4 DEF Depart

\* A member that closes commits what it owns first, where it may and that goes beyond.
LEMMA CloseStep ==
  ASSUME IInv, NEW m \in Member, Close(m)
  PROVE  IInv'
<1> DEFINE ps == {p \in owned[m] : Advances(m, p)}
<1>1. Types /\ (\A k \in Member : Holding(k))
  BY DEF IInv
<1>2. /\ UNCHANGED <<gen, position, processed>>
      /\ Loaded /\ Depart(m)
      /\ Store(m, ps) \/ UNCHANGED <<store, replayed_to>>
      /\ client' = [client EXCEPT ![m] = "closed"]
      /\ owned' = [owned EXCEPT ![m] = {}]
  BY DEF Close, storeVars
<1>3. ps \in SUBSET Partition /\ \A p \in ps : Advances(m, p)
  BY <1>1 DEF Types
<1> HIDE DEF ps
<1>4. /\ store' \in Seq([partition : Partition, offset : 0 .. LogEnd])
      /\ replayed_to' \in 0 .. Len(store')
      /\ Positions' /\ Growing(store, processed)'
  <2>1. CASE Store(m, ps)
    BY <1>2, <1>3, <2>1, StoreStep
  <2>2. CASE UNCHANGED <<store, replayed_to>>
    BY <1>1, <1>2, <2>2, ProgressKept DEF Types
  <2> QED BY <1>2, <2>1, <2>2
<1>5. /\ state' \in States /\ generation' \in Nat /\ joined' \in Seq(Member)
      /\ submitted' \in BOOLEAN /\ assignment' \in [Member -> SUBSET Partition]
      /\ live' \in SUBSET Member
      /\ \/ generation' = generation + 1
         \/ generation' = generation /\ submitted' = submitted /\ assignment' = assignment
      /\ Planned'
  BY <1>2, DepartKeeps
<1>6. Types'
  BY <1>1, <1>2, <1>4, <1>5 DEF Types, Clients
<1>7. ASSUME NEW k \in Member PROVE Holding(k)'
  <2>1. gen[k] \in Nat /\ generation \in Nat /\ Holding(k) /\ gen'[k] = gen[k]
    BY <1>1, <1>2 DEF Types
  <2>2. CASE k = m
    <3>1. client'[k] = "closed" /\ owned'[k] = {}
      BY <2>2, <1>1, <1>2 DEF Types
    <3> QED BY <2>1, <3>1, <1>5 DEF Holding
  <2>3. CASE k # m
    <3>1. client'[k] = client[k] /\ owned'[k] = owned[k]
      BY <2>3, <1>1, <1>2 DEF Types
    <3> QED BY <2>1, <3>1, <1>5 DEF Holding
  <2> QED BY <2>2, <2>3
<1> QED BY <1>4, <1>5, <1>6, <1>7 DEF IInv

\* A member that was silent for too long is put out; it may still think it owns.
LEMMA EvictStep ==
  ASSUME IInv, NEW m \in Member, Evict(m)
  PROVE  IInv'
<1>1. Types /\ (\A k \in Member : Holding(k))
  BY DEF IInv
<1>2. /\ UNCHANGED <<store, replayed_to, client, gen, owned, position, processed>>
      /\ Depart(m)
  BY DEF Evict, storeVars, clientVars
<1>3. /\ state' \in States /\ generation' \in Nat /\ joined' \in Seq(Member)
      /\ submitted' \in BOOLEAN /\ assignment' \in [Member -> SUBSET Partition]
      /\ live' \in SUBSET Member
      /\ \/ generation' = generation + 1
         \/ generation' = generation /\ submitted' = submitted /\ assignment' = assignment
      /\ Planned'
  BY <1>2, DepartKeeps
<1>4. Types'
  BY <1>1, <1>2, <1>3 DEF Types
<1>5. \A k \in Member : Holding(k)'
  BY <1>1, <1>2, <1>3 DEF Types, Holding
<1> QED BY <1>2, <1>3, <1>4, <1>5, ProgressKept DEF IInv

\* The group starts over without the members that were lost while they joined.
LEMMA StartOverStep ==
  ASSUME IInv, StartOver
  PROVE  IInv'
<1>1. Types /\ (\A k \in Member : Holding(k))
  BY DEF IInv
<1>2. /\ UNCHANGED <<live, store, replayed_to, client, gen, owned, position, processed>>
      /\ Prepare(<<>>)
  BY DEF StartOver, storeVars, clientVars
<1>3. <<>> \in Seq(Member)
  OBVIOUS
<1>4. /\ state' \in States /\ generation' \in Nat /\ joined' \in Seq(Member)
      /\ submitted' \in BOOLEAN /\ assignment' \in [Member -> SUBSET Partition]
      /\ generation' = generation + 1
      /\ Planned'
  BY <1>2, <1>3, PrepareKeeps
<1>5. Types'
  BY <1>1, <1>2, <1>4 DEF Types
<1>6. \A k \in Member : Holding(k)'
  BY <1>1, <1>2, <1>4 DEF Types, Holding
<1> QED BY <1>2, <1>4, <1>5, <1>6, ProgressKept DEF IInv

\* The store is replayed, after a restart: only the replay position moves.
LEMMA ReplayStep ==
  ASSUME IInv, UNCHANGED <<state, generation, live, joined, submitted, assignment, store,
                           client, gen, owned, position, processed>>,
         replayed_to' \in 0 .. Len(store)
  PROVE  IInv'
<1>1. Types /\ (\A k \in Member : Holding(k))
  BY DEF IInv
<1>2. Types'
  BY <1>1 DEF Types
<1>3. \A k \in Member : Holding(k)'
  BY <1>1 DEF Holding
<1> QED BY <1>2, <1>3, PlanKept, ProgressKept DEF IInv

(***************************************************************************)
(* The invariant is inductive.                                             *)
(***************************************************************************)
LEMMA NextIInv ==
  ASSUME IInv, [Next]_vars
  PROVE  IInv'
<1> USE DEF coordVars, storeVars, clientVars
<1>1. Types /\ (\A k \in Member : Holding(k)) /\ Len(store) \in Nat /\ replayed_to \in 0 .. Len(store)
  BY StoreTypes DEF IInv, Types
<1>2. ASSUME NEW m \in Member, Heartbeat(m) PROVE IInv'
  <2>1. "revoking" \in Clients
    BY DEF Clients
  <2> QED BY <1>2, <2>1, MemberLetsGo DEF Heartbeat
<1>3. ASSUME NEW m \in Member, CompleteRevoke(m) PROVE IInv'
  <2>1. "out" \in Clients
    BY DEF Clients
  <2> QED BY <1>3, <2>1, MemberLetsGo DEF CompleteRevoke
<1>4. ASSUME NEW m \in Member, Crash(m) PROVE IInv'
  <2>1. "crashed" \in Clients
    BY DEF Clients
  <2> QED BY <1>4, <2>1, MemberLetsGo DEF Crash
<1>5. ASSUME NEW m \in Member, Restart(m) PROVE IInv'
  <2>1. "out" \in Clients
    BY DEF Clients
  <2>2. owned[m] = {}
    BY <1>1, <1>5 DEF Restart, Holding
  <2> QED BY <1>5, <2>1, <2>2, MemberLetsGo DEF Restart
<1>6. CASE Failover
  <2>1. replayed_to' \in 0 .. Len(store)
    BY <1>1, <1>6 DEF Failover
  <2> QED BY <1>6, <2>1, ReplayStep DEF Failover
<1>7. CASE Replay
  <2>1. replayed_to' \in 0 .. Len(store)
    BY <1>1, <1>7 DEF Replay, Loaded
  <2> QED BY <1>7, <2>1, ReplayStep DEF Replay
<1>8. CASE UNCHANGED vars
  BY <1>1, <1>8, ReplayStep DEF vars
<1>9. ASSUME NEW m \in Member, MemberStep(m) PROVE IInv'
  BY <1>9, <1>2, <1>3, <1>5, JoinStep, SubmitStep, SyncStep, ProcessStep, CommitStep
     DEF MemberStep
<1> QED BY <1>4, <1>6, <1>7, <1>8, <1>9, CloseWindowStep, StartOverStep, CloseStep, EvictStep
       DEF Next

\* The invariant holds throughout.
LEMMA Invariance == Spec => []IInv
<1>1. Init => IInv
  BY InitIInv
<1>2. IInv /\ [Next]_vars => IInv'
  BY NextIInv
<1> QED BY <1>1, <1>2, PTL DEF Spec

(***************************************************************************)
(* A Stable group is fully, exclusively and fairly assigned, and its       *)
(* members hold exactly their slice (StableIsAssigned), however they came, *)
(* crashed, closed or were given up.                                       *)
(***************************************************************************)
THEOREM AlwaysAssigned == Spec => []StableIsAssigned
<1>1. IInv => StableIsAssigned
  <2> SUFFICES ASSUME IInv, state = "Stable"
               PROVE  PlanIsComplete /\ PlanIsExclusive /\ PlanIsFair /\ PlanIsHeld
    BY DEF StableIsAssigned
  <2>1. PlanIsComplete /\ PlanIsFair /\ NoOverlap(assignment)
    BY DEF IInv, Planned
  <2>2. JoinedSet \in SUBSET Member
    BY DEF IInv, Types, JoinedSet, Range
  <2>3. PlanIsExclusive
    BY <2>1, <2>2 DEF PlanIsExclusive, NoOverlap
  <2>4. PlanIsHeld
    BY <2>2 DEF PlanIsHeld, IInv, Holding
  <2> QED BY <2>1, <2>3, <2>4
<1> QED BY <1>1, Invariance, PTL

(***************************************************************************)
(* No commit skips a record nobody processed, and none goes back           *)
(* (CommitsAreProgress): not the one of a zombie, not one taken while the  *)
(* coordinator moves, and not the last one of a consumer that closes.      *)
(***************************************************************************)
THEOREM AlwaysProgress == Spec => []CommitsAreProgress
<1>1. IInv => CommitsAreProgress
  <2> SUFFICES ASSUME IInv PROVE CommitsAreProgress
    OBVIOUS
  <2>1. DOMAIN store = 1 .. Len(store)
    BY DEF IInv, Types
  <2> QED BY <2>1 DEF CommitsAreProgress, IInv, Growing
<1> QED BY <1>1, Invariance, PTL

(***************************************************************************)
(* A commit is taken from the member the current plan gives the partition  *)
(* to, while the group is Stable, and from nobody else (OnlyOwnersCommit). *)
(***************************************************************************)
THEOREM OwnersOnly == Spec => OnlyOwnersCommit
<1> DEFINE Owned == \A i \in Len(store) + 1 .. Len(store') :
        /\ state = "Stable"
        /\ \E m \in live : /\ store'[i].partition \in assignment[m]
                           /\ store'[i].offset = position[m][store'[i].partition]
<1>1. IInv /\ [Next]_vars => [Owned]_vars
  <2> SUFFICES ASSUME IInv, Next PROVE Owned
    OBVIOUS
  <2>1. Types /\ (\A k \in Member : Holding(k)) /\ Len(store) \in Nat
    BY StoreTypes DEF IInv
  <2>2. ASSUME NEW m \in Member, NEW ps \in SUBSET owned[m], Store(m, ps), Admitted(m),
               client[m] \in {"owner", "revoking"}, \A p \in ps : Advances(m, p),
               UNCHANGED <<position, processed>>
        PROVE  Owned
    <3>1. /\ Loaded /\ state = "Stable" /\ m \in live
          /\ owned[m] = assignment[m] /\ owned[m] \in SUBSET Partition
      BY <2>1, <2>2 DEF Admitted, Holding, Types
    <3>2. \A i \in Len(store) + 1 .. Len(store') :
            store'[i].partition \in ps /\ store'[i].offset = position[m][store'[i].partition]
      BY <2>2, <3>1, StoreStep
    <3> QED BY <3>1, <3>2
  <2>3. ASSUME NEW m \in Member, NEW p \in Partition, Commit(m, p) PROVE Owned
    <3>1. {p} \in SUBSET owned[m] /\ \A q \in {p} : Advances(m, q)
      BY <2>3 DEF Commit
    <3>2. /\ Store(m, {p}) /\ Admitted(m) /\ client[m] \in {"owner", "revoking"}
          /\ UNCHANGED <<position, processed>>
      BY <2>3 DEF Commit, clientVars
    <3> HIDE DEF Owned
    <3> QED BY <3>1, <3>2, <2>2
  <2>4. ASSUME NEW m \in Member, Close(m) PROVE Owned
    <3> DEFINE ps == {p \in owned[m] : Advances(m, p)}
    <3>1. ps \in SUBSET owned[m] /\ \A q \in ps : Advances(m, q)
      OBVIOUS
    <3>2. UNCHANGED <<position, processed>>
      BY <2>4 DEF Close
    <3>3. CASE ~Admitted(m)
      BY <2>4, <2>1, <3>3 DEF Close, storeVars
    <3>4. CASE Admitted(m) /\ client[m] \in {"owner", "revoking"}
      <4>1. Store(m, ps)
        BY <2>4, <3>4 DEF Close
      <4> HIDE DEF Owned, ps
      <4> QED BY <3>1, <3>2, <3>4, <4>1, <2>2
    <3>5. CASE Admitted(m) /\ client[m] \notin {"owner", "revoking"}
      <4>1. Store(m, ps)
        BY <2>4, <3>5 DEF Close
      <4>2. owned[m] = {}
        BY <2>1, <3>5 DEF Holding
      <4>3. Loaded /\ ps \in SUBSET Partition
        BY <3>5, <4>2 DEF Admitted
      <4> HIDE DEF ps
      <4>4. \A i \in Len(store) + 1 .. Len(store') : store'[i].partition \in ps
        BY <3>1, <3>2, <4>1, <4>3, StoreStep
      <4>5. ps = {}
        BY <3>1, <4>2
      <4> QED BY <4>4, <4>5
    <3> QED BY <3>3, <3>4, <3>5
  <2>5. ASSUME store' = store PROVE Owned
    BY <2>1, <2>5
  <2> HIDE DEF Owned
  <2>6. ASSUME NEW m \in Member, MemberStep(m) PROVE Owned
    BY <2>3, <2>5, <2>6 DEF MemberStep, Join, Submit, Sync, Heartbeat, CompleteRevoke,
       Restart, Process, storeVars
  <2> QED BY <2>4, <2>5, <2>6 DEF Next, CloseWindow, StartOver, Replay, Failover, Evict,
       Crash, storeVars
<1> QED BY <1>1, Invariance, PTL DEF Spec, OnlyOwnersCommit

----------------------------------------------------------------------------
(***************************************************************************)
(* The groups beyond the eager protocol.  The constants are counts, ticks  *)
(* and bounds, and RebalanceDelay refuses a maximum below the base.        *)
(***************************************************************************)
CareConstants ==
  /\ Partitions \in Nat /\ GroupTimeout \in Nat /\ OffsetRetention \in Nat /\ MaxRetries \in Nat
  /\ BaseDelay \in Nat /\ MaxDelay \in Nat /\ BaseDelay <= MaxDelay
  /\ MaxGeneration \in Nat /\ MaxOffset \in Nat /\ MaxTicks \in Nat

\* The members, and the partitions they share.
Trio == 1 .. 3
Shared == 0 .. Partitions - 1

\* What f gives the elements of s, member by member.
Summed(f, s) ==
  (IF 1 \in s THEN f[1] ELSE 0) + (IF 2 \in s THEN f[2] ELSE 0) + (IF 3 \in s THEN f[3] ELSE 0)

\* A sum over members is the sum member by member, whatever their order.
LEMMA SumMemberwise ==
  ASSUME NEW S \in SUBSET Trio, NEW f, \A x \in S : f[x] \in Int
  PROVE  Groups!SumFunctionOnSet(f, S) = Summed(f, S)
<1> DEFINE Is(g) == g = [s \in SUBSET S |->
                           IF s = {} THEN 0
                           ELSE f[CHOOSE x \in s : TRUE] + g[s \ {CHOOSE x \in s : TRUE}]]
           sum == [s \in SUBSET S |-> Summed(f, s)]
           iter == CHOOSE g : Is(g)
<1>1. Groups!SumFunctionOnSet(f, S) = iter[S]
  BY Zenon DEF Groups!SumFunctionOnSet, Groups!FoldFunctionOnSet, Groups!MapThenFoldSet
<1>2. ASSUME NEW s \in SUBSET S, NEW x \in s
      PROVE  Summed(f, s) = f[x] + Summed(f, s \ {x})
  <2>1. x = 1 \/ x = 2 \/ x = 3
    BY DEF Trio
  <2>2. (1 \in s => f[1] \in Int) /\ (2 \in s => f[2] \in Int) /\ (3 \in s => f[3] \in Int)
    OBVIOUS
  <2> QED BY <2>1, <2>2 DEF Summed
<1>3. Is(sum)
  <2>1. ASSUME NEW s \in SUBSET S
        PROVE  sum[s] = IF s = {} THEN 0
                        ELSE f[CHOOSE x \in s : TRUE] + sum[s \ {CHOOSE x \in s : TRUE}]
    <3>1. CASE s = {}
      BY <3>1 DEF Summed
    <3>2. CASE s # {}
      <4> DEFINE x == CHOOSE y \in s : TRUE
      <4>1. x \in s
        BY <3>2
      <4> HIDE DEF x
      <4>2. sum[s] = f[x] + sum[s \ {x}]
        BY <1>2, <4>1
      <4> QED BY <3>2, <4>2 DEF x
    <3> QED BY <3>1, <3>2
  <2>2. sum = [s \in SUBSET S |-> sum[s]]
    OBVIOUS
  <2> HIDE DEF sum
  <2> QED BY <2>1, <2>2
<1>4. Is(iter)
  <2> HIDE DEF sum
  <2>1. \E g : Is(g)
    BY <1>3
  <2> HIDE DEF Is
  <2> QED BY <2>1
<1>5. ASSUME NEW s \in SUBSET S, \A x \in s : iter[s \ {x}] = Summed(f, s \ {x})
      PROVE  iter[s] = Summed(f, s)
  <2>1. iter[s] = IF s = {} THEN 0
                  ELSE f[CHOOSE x \in s : TRUE] + iter[s \ {CHOOSE x \in s : TRUE}]
    <3> HIDE DEF iter
    <3> QED BY <1>4
  <2> HIDE DEF iter
  <2>2. CASE s = {}
    BY <2>1, <2>2 DEF Summed
  <2>3. CASE s # {}
    <3> DEFINE x == CHOOSE y \in s : TRUE
    <3>1. x \in s
      BY <2>3
    <3>2. iter[s] = f[x] + iter[s \ {x}]
      BY <2>1, <2>3
    <3> HIDE DEF x
    <3> QED BY <1>2, <1>5, <3>1, <3>2
  <2> QED BY <2>2, <2>3
<1> HIDE DEF iter, Is
<1>6. iter[{}] = Summed(f, {})
  BY <1>5
<1>7. ASSUME NEW x \in S PROVE iter[{x}] = Summed(f, {x})
  <2>1. \A y \in {x} : {x} \ {y} = {}
    OBVIOUS
  <2> QED BY <1>5, <1>6, <2>1
<1>8. ASSUME NEW x \in S, NEW y \in S PROVE iter[{x, y}] = Summed(f, {x, y})
  <2>1. \A z \in {x, y} : {x, y} \ {z} \in {{}, {x}, {y}}
    BY Zenon
  <2>2. \A z \in {x, y} : iter[{x, y} \ {z}] = Summed(f, {x, y} \ {z})
    BY <1>6, <1>7, <2>1
  <2>3. {x, y} \in SUBSET S
    OBVIOUS
  <2> QED BY <1>5, <2>2, <2>3
<1>9. ASSUME NEW x \in S PROVE iter[S \ {x}] = Summed(f, S \ {x})
  <2>1. CASE S \ {x} = {}
    BY <1>6, <2>1
  <2>2. CASE S \ {x} # {}
    <3>1. PICK y \in S, z \in S : S \ {x} = {y, z}
      <4>1. PICK y \in S : y # x
        BY <2>2
      <4>2. CASE S \ {x, y} = {}
        BY <4>1, <4>2
      <4>3. CASE S \ {x, y} # {}
        <5>1. PICK z \in S : z # x /\ z # y
          BY <4>3
        <5>2. \A u \in S : u = x \/ u = y \/ u = z
          BY <4>1, <5>1 DEF Trio
        <5> QED BY <4>1, <5>1, <5>2
      <4> QED BY <4>2, <4>3
    <3> QED BY <1>8, <3>1
  <2> QED BY <2>1, <2>2
<1>10. iter[S] = Summed(f, S)
  BY <1>5, <1>9
<1> QED BY <1>1, <1>10

----------------------------------------------------------------------------
\* The assignment of the partitions to the members of c: nothing twice, nothing
\* left over, and shares that differ by one at most.
Even(t, c) ==
  /\ t \in [Trio -> SUBSET Shared]
  /\ \A m \in Trio \ c : t[m] = {}
  /\ \A m, k \in Trio : m # k => t[m] \cap t[k] = {}
  /\ c # {} => /\ \A p \in Shared : \E m \in c : p \in t[m]
               /\ \E q \in Nat : \A m \in c : Cardinality(t[m]) = q \/ Cardinality(t[m]) = q + 1

\* The number of elements as the instance writes it.
LEMMA CareCount == ASSUME NEW S PROVE Groups!Cardinality(S) = Cardinality(S)
BY Zenon DEF Cardinality, Groups!Cardinality

\* The members of c before m.
Below(c, m) == {k \in c : k < m}

\* The shares of the members of c.
SharesOf(f, c) ==
  /\ f \in [c -> Nat]
  /\ \A m \in c : f[m] = Groups!RangeSize(Cardinality(Below(c, m)), Cardinality(c))

\* Member m of c has its run after those of the members before it.
RunsAt(t, f, c, m) ==
  /\ t \in [Trio -> SUBSET Int]
  /\ \A k \in Trio \ c : t[k] = {}
  /\ t[m] = Summed(f, Below(c, m)) .. (Summed(f, Below(c, m)) + f[m] - 1)

\* What range_assign gives to m, from its place among the members.
LEMMA RangeIsPlaced ==
  ASSUME CareConstants, NEW c \in SUBSET Trio, NEW f, SharesOf(f, c), NEW m \in c
  PROVE  RunsAt(Groups!RangeAssign(c), f, c, m)
<1> DEFINE sizes == [k \in c |-> Groups!RangeSize(Groups!Cardinality({j \in c : j < k}), Groups!Cardinality(c))]
           from(k) == Groups!SumFunctionOnSet(sizes, {j \in c : j < k})
<1>1. sizes = f
  <2>1. \A k \in c : Groups!RangeSize(Groups!Cardinality(Below(c, k)), Groups!Cardinality(c)) = f[k]
    BY CareCount DEF SharesOf
  <2> QED BY <2>1 DEF Below, SharesOf
<1>2. Groups!RangeAssign(c) = [k \in Trio |-> IF k \in c THEN from(k) .. (from(k) + sizes[k] - 1) ELSE {}]
  BY Zenon DEF Groups!RangeAssign, Groups!MEMBERS, Trio
<1>3. from(m) = Summed(f, Below(c, m))
  <2>1. Below(c, m) \in SUBSET Trio /\ \A k \in Below(c, m) : f[k] \in Int
    BY DEF Below, SharesOf
  <2>2. from(m) = Groups!SumFunctionOnSet(f, Below(c, m))
    BY <1>1 DEF Below
  <2> QED BY <2>1, <2>2, SumMemberwise
<1>4. \A k \in Trio : k \in c => from(k) .. (from(k) + sizes[k] - 1) \in SUBSET Int
  OBVIOUS
<1> HIDE DEF sizes, from
<1>5. Groups!RangeAssign(c)[m] = from(m) .. (from(m) + sizes[m] - 1)
  BY <1>2
<1> QED BY <1>1, <1>2, <1>3, <1>4, <1>5 DEF RunsAt

\* The size of a run of partitions.
LEMMA RunSize ==
  ASSUME NEW a \in Nat, NEW k \in Nat
  PROVE  Cardinality(a .. (a + k - 1)) = k
<1>1. a \in Int /\ a + k - 1 \in Int
  OBVIOUS
<1>2. Cardinality(a .. (a + k - 1)) = IF a > a + k - 1 THEN 0 ELSE (a + k - 1) - a + 1
  BY <1>1, FS_Interval
<1> QED BY <1>2

\* The size of a run, from its place: a whole part, and one of the rest.
LEMMA RangeSizeIs ==
  ASSUME CareConstants, NEW n \in 1 .. 3
  PROVE  \E q \in Nat, r \in 0 .. n - 1 :
           /\ Partitions = q * n + r
           /\ \A i \in Nat : Groups!RangeSize(i, n) = IF i < r THEN q + 1 ELSE q
<1>1. /\ Partitions \div n \in Nat /\ Partitions % n \in 0 .. n - 1
      /\ Partitions = (Partitions \div n) * n + (Partitions % n)
  BY Division DEF CareConstants
<1>2. \A i \in Nat : Groups!RangeSize(i, n)
        = IF i < Partitions % n THEN (Partitions \div n) + 1 ELSE Partitions \div n
  BY <1>1 DEF Groups!RangeSize
<1> QED BY <1>1, <1>2

\* One member takes everything.
LEMMA OneTakesAll ==
  ASSUME CareConstants, NEW a \in Trio
  PROVE  Even(Groups!RangeAssign({a}), {a})
<1> DEFINE c == {a}
           t == Groups!RangeAssign(c)
<1>1. PICK q \in Nat, r \in 0 .. 1 - 1 :
        /\ Partitions = q * 1 + r
        /\ \A i \in Nat : Groups!RangeSize(i, 1) = IF i < r THEN q + 1 ELSE q
  BY RangeSizeIs
<1>2. Cardinality(c) = 1 /\ Below(c, a) = {} /\ Cardinality({}) = 0 /\ c \in SUBSET Trio
  <2>1. a \in {1, 2, 3}
    BY DEF Trio
  <2>2. Below(c, a) = {}
    BY <2>1 DEF Below
  <2>3. Cardinality({a}) = 1 /\ Cardinality({}) = 0
    BY FS_Singleton, FS_EmptySet, Zenon
  <2> QED BY <2>2, <2>3
<1> DEFINE f == [m \in c |-> q]
<1>3. SharesOf(f, c)
  BY <1>1, <1>2 DEF SharesOf
<1>4. Summed(f, {}) = 0
  BY DEF Summed
<1>5. /\ t \in [Trio -> SUBSET Int] /\ \A k \in Trio \ c : t[k] = {}
      /\ t[a] = Summed(f, Below(c, a)) .. (Summed(f, Below(c, a)) + f[a] - 1)
  <2>1. a \in c
    OBVIOUS
  <2> HIDE DEF c, f
  <2>2. RunsAt(t, f, c, a)
    BY <1>2, <1>3, <2>1, RangeIsPlaced
  <2> HIDE DEF t
  <2> QED BY <2>2 DEF RunsAt
<1>6. f[a] = q /\ Partitions = q
  BY <1>1
<1> HIDE DEF c, t, f
<1>7. t[a] = 0 .. (0 + q - 1) /\ t[a] = Shared
  <2>1. t[a] = 0 .. (0 + q - 1)
    BY <1>2, <1>4, <1>5, <1>6
  <2>2. 0 + q - 1 = Partitions - 1
    BY <1>6
  <2> QED BY <2>1, <2>2 DEF Shared
<1>8. Cardinality(t[a]) = q
  BY <1>7, RunSize
<1>9. \A m \in Trio : m # a => t[m] = {}
  BY <1>5 DEF c
<1>10. t \in [Trio -> SUBSET Shared]
  BY <1>5, <1>7, <1>9
<1>11. Even(t, c)
  BY <1>5, <1>7, <1>8, <1>9, <1>10 DEF Even, c
<1> QED BY <1>11 DEF c, t

\* Two members take a half each, the first one more if need be.
LEMMA TwoTakeHalves ==
  ASSUME CareConstants, NEW a \in Trio, NEW b \in Trio, a < b
  PROVE  Even(Groups!RangeAssign({a, b}), {a, b})
<1> DEFINE c == {a, b}
           t == Groups!RangeAssign(c)
<1>1. PICK q \in Nat, r \in 0 .. 2 - 1 :
        /\ Partitions = q * 2 + r
        /\ \A i \in Nat : Groups!RangeSize(i, 2) = IF i < r THEN q + 1 ELSE q
  BY RangeSizeIs
<1>0. a \in {1, 2, 3} /\ b \in {1, 2, 3}
  BY DEF Trio
<1>2. /\ Cardinality(c) = 2 /\ Below(c, a) = {} /\ Below(c, b) = {a}
      /\ Cardinality({}) = 0 /\ Cardinality({a}) = 1 /\ c \in SUBSET Trio
  <2>1. Cardinality(c) = 2
    <3>1. IsFiniteSet({a}) /\ Cardinality({a}) = 1 /\ b \notin {a}
      <4>1. IsFiniteSet({a}) /\ Cardinality({a}) = 1
        BY FS_Singleton, Zenon
      <4> QED BY <1>0, <4>1
    <3>2. Cardinality({a} \cup {b}) = Cardinality({a}) + 1
      BY <3>1, FS_AddElement
    <3>3. {a} \cup {b} = {a, b}
      OBVIOUS
    <3> QED BY <3>1, <3>2, <3>3
  <2>2. Below(c, a) = {} /\ Below(c, b) = {a}
    BY <1>0 DEF Below
  <2> QED BY <2>1, <2>2, FS_Singleton, FS_EmptySet
<1> DEFINE x == IF 0 < r THEN q + 1 ELSE q
           f == [m \in c |-> IF m = a THEN x ELSE q]
<1>3. f \in [c -> Nat] /\ f[a] = x /\ f[b] = q /\ x \in Nat
  BY <1>0
<1>4. SharesOf(f, c)
  <2>1. Groups!RangeSize(0, 2) = x /\ Groups!RangeSize(1, 2) = q
    BY <1>1
  <2> HIDE DEF f, x
  <2> QED BY <1>2, <1>3, <2>1 DEF SharesOf
<1>5. Summed(f, {}) = 0 /\ Summed(f, {a}) = x
  <2> HIDE DEF f, x
  <2> QED BY <1>0, <1>3 DEF Summed
<1> HIDE DEF f
<1>6. /\ t \in [Trio -> SUBSET Int] /\ \A k \in Trio \ c : t[k] = {}
      /\ t[a] = Summed(f, Below(c, a)) .. (Summed(f, Below(c, a)) + f[a] - 1)
      /\ t[b] = Summed(f, Below(c, b)) .. (Summed(f, Below(c, b)) + f[b] - 1)
  <2>1. a \in c /\ b \in c
    OBVIOUS
  <2> HIDE DEF c
  <2>2. RunsAt(t, f, c, a) /\ RunsAt(t, f, c, b)
    BY <1>2, <1>4, <2>1, RangeIsPlaced
  <2> HIDE DEF t
  <2> QED BY <2>2 DEF RunsAt
<1>7. Partitions = x + q /\ (x = q \/ x = q + 1)
  BY <1>1
<1> HIDE DEF c, t, x
<1>8. t[a] = 0 .. (0 + x - 1) /\ t[b] = x .. (x + q - 1)
  BY <1>2, <1>3, <1>5, <1>6
<1>9. Cardinality(t[a]) = x /\ Cardinality(t[b]) = q
  BY <1>3, <1>8, RunSize
<1>10. \A m \in Trio : m \notin {a, b} => t[m] = {}
  BY <1>6 DEF c
<1>11. /\ t[a] \in SUBSET Shared /\ t[b] \in SUBSET Shared /\ t[a] \cap t[b] = {}
       /\ \A p \in Shared : p \in t[a] \/ p \in t[b]
  BY <1>3, <1>7, <1>8 DEF Shared
<1>12. t \in [Trio -> SUBSET Shared]
  BY <1>6, <1>10, <1>11
<1>13. \A m, k \in Trio : m # k => t[m] \cap t[k] = {}
  BY <1>10, <1>11
<1>14. Even(t, c)
  BY <1>7, <1>9, <1>10, <1>11, <1>12, <1>13 DEF Even, c
<1> QED BY <1>14 DEF c, t

\* Three members take a third each, the first ones more if need be.
LEMMA ThreeTakeThirds ==
  ASSUME CareConstants
  PROVE  Even(Groups!RangeAssign(Trio), Trio)
<1> DEFINE t == Groups!RangeAssign(Trio)
<1>1. PICK q \in Nat, r \in 0 .. 3 - 1 :
        /\ Partitions = q * 3 + r
        /\ \A i \in Nat : Groups!RangeSize(i, 3) = IF i < r THEN q + 1 ELSE q
  BY RangeSizeIs
<1>2. /\ Cardinality(Trio) = 3 /\ Cardinality({}) = 0 /\ Cardinality({1}) = 1
      /\ Cardinality({1, 2}) = 2
  <2>1. Cardinality(1 .. 3) = 3 /\ Cardinality(1 .. 2) = 2 /\ Cardinality(1 .. 1) = 1
    <3>1. 1 + 3 - 1 = 3 /\ 1 + 2 - 1 = 2 /\ 1 + 1 - 1 = 1 /\ 1 \in Nat /\ 2 \in Nat /\ 3 \in Nat
      OBVIOUS
    <3>2. Cardinality(1 .. (1 + 3 - 1)) = 3
      BY <3>1, RunSize
    <3>3. Cardinality(1 .. (1 + 2 - 1)) = 2
      BY <3>1, RunSize
    <3>4. Cardinality(1 .. (1 + 1 - 1)) = 1
      BY <3>1, RunSize
    <3> QED BY <3>1, <3>2, <3>3, <3>4
  <2>2. 1 .. 1 = {1} /\ 1 .. 2 = {1, 2}
    OBVIOUS
  <2> QED BY <2>1, <2>2, FS_EmptySet DEF Trio
<1>3. Below(Trio, 1) = {} /\ Below(Trio, 2) = {1} /\ Below(Trio, 3) = {1, 2}
  BY DEF Below, Trio
<1> DEFINE x == IF 0 < r THEN q + 1 ELSE q
           y == IF 1 < r THEN q + 1 ELSE q
           f == [m \in Trio |-> IF m = 1 THEN x ELSE IF m = 2 THEN y ELSE q]
<1>4. /\ f \in [Trio -> Nat] /\ f[1] = x /\ f[2] = y /\ f[3] = q /\ x \in Nat /\ y \in Nat
  BY DEF Trio
<1>5. SharesOf(f, Trio)
  <2>1. Groups!RangeSize(0, 3) = x /\ Groups!RangeSize(1, 3) = y /\ Groups!RangeSize(2, 3) = q
    BY <1>1
  <2>2. \A m \in Trio : m = 1 \/ m = 2 \/ m = 3
    BY DEF Trio
  <2> HIDE DEF f, x, y
  <2> QED BY <1>2, <1>3, <1>4, <2>1, <2>2 DEF SharesOf
<1>6. Summed(f, {}) = 0 /\ Summed(f, {1}) = x /\ Summed(f, {1, 2}) = x + y
  <2> HIDE DEF f, x, y
  <2> QED BY <1>4 DEF Summed
<1> HIDE DEF f
<1>7. RunsAt(t, f, Trio, 1) /\ RunsAt(t, f, Trio, 2) /\ RunsAt(t, f, Trio, 3)
  <2>1. 1 \in Trio /\ 2 \in Trio /\ 3 \in Trio /\ Trio \in SUBSET Trio
    BY DEF Trio
  <2> QED BY <1>5, <2>1, RangeIsPlaced
<1>8. /\ Partitions = x + y + q /\ (x = q \/ x = q + 1) /\ (y = q \/ y = q + 1)
  BY <1>1
<1> HIDE DEF t, x, y
<1>9. /\ t \in [Trio -> SUBSET Int]
      /\ t[1] = 0 .. (0 + x - 1) /\ t[2] = x .. (x + y - 1) /\ t[3] = (x + y) .. (x + y + q - 1)
  BY <1>3, <1>4, <1>6, <1>7 DEF RunsAt
<1>10. Cardinality(t[1]) = x /\ Cardinality(t[2]) = y /\ Cardinality(t[3]) = q
  <2>1. 0 \in Nat /\ x + y \in Nat
    BY <1>4
  <2>2. Cardinality(0 .. (0 + x - 1)) = x /\ Cardinality(x .. (x + y - 1)) = y
    BY <1>4, <2>1, RunSize
  <2>3. Cardinality((x + y) .. ((x + y) + q - 1)) = q
    BY <2>1, RunSize
  <2> QED BY <1>4, <1>9, <2>2, <2>3
<1>11. /\ t[1] \in SUBSET Shared /\ t[2] \in SUBSET Shared /\ t[3] \in SUBSET Shared
       /\ t[1] \cap t[2] = {} /\ t[1] \cap t[3] = {} /\ t[2] \cap t[3] = {}
       /\ \A p \in Shared : p \in t[1] \/ p \in t[2] \/ p \in t[3]
  BY <1>4, <1>8, <1>9 DEF Shared
<1>12. \A m \in Trio : m = 1 \/ m = 2 \/ m = 3
  BY DEF Trio
<1>13. t \in [Trio -> SUBSET Shared]
  BY <1>9, <1>11, <1>12
<1>14. \A m, k \in Trio : m # k => t[m] \cap t[k] = {}
  BY <1>11, <1>12
<1>15. \A p \in Shared : \E m \in Trio : p \in t[m]
  BY <1>11 DEF Trio
<1>16. \A m \in Trio : Cardinality(t[m]) = q \/ Cardinality(t[m]) = q + 1
  BY <1>8, <1>10, <1>12
<1>17. Even(t, Trio)
  BY <1>13, <1>14, <1>15, <1>16 DEF Even
<1> QED BY <1>17 DEF t

\* Range assignment shares the partitions out evenly among any members.
LEMMA RangeIsEven ==
  ASSUME CareConstants, NEW c \in SUBSET Trio, c # {}
  PROVE  Even(Groups!RangeAssign(c), c)
<1>1. CASE \E a \in Trio : c = {a}
  BY <1>1, OneTakesAll
<1>2. CASE \E a, b \in Trio : a < b /\ c = {a, b}
  <2>1. PICK a \in Trio, b \in Trio : a < b /\ c = {a, b}
    BY <1>2
  <2> QED BY <2>1, TwoTakeHalves
<1>3. CASE c = Trio
  BY <1>3, ThreeTakeThirds
<1>4. \/ \E a \in Trio : c = {a}
      \/ \E a, b \in Trio : a < b /\ c = {a, b}
      \/ c = Trio
  <2>1. PICK a \in c : \A y \in c : a <= y
    <3>1. c \in SUBSET Nat
      BY DEF Trio
    <3> QED BY <3>1, LeastNatural
  <2>2. CASE c \ {a} = {}
    BY <2>2
  <2>3. CASE c \ {a} # {}
    <3>1. PICK b \in c : b # a
      BY <2>3
    <3>2. a < b /\ a \in 1 .. 3 /\ b \in 1 .. 3
      BY <2>1, <3>1 DEF Trio
    <3>3. CASE c \ {a, b} = {}
      <4>1. c = {a, b} /\ a \in Trio /\ b \in Trio
        BY <3>3
      <4> QED BY <3>2, <4>1
    <3>4. CASE c \ {a, b} # {}
      <4>1. PICK d \in c : d # a /\ d # b
        BY <3>4
      <4>2. \A u \in Trio : u = a \/ u = b \/ u = d
        BY <3>1, <4>1 DEF Trio
      <4> QED BY <4>1, <4>2
    <3> QED BY <3>3, <3>4
  <2> QED BY <2>2, <2>3
<1> QED BY <1>1, <1>2, <1>3, <1>4

----------------------------------------------------------------------------
\* The fields of a cooperative group.
CoopRecord ==
  [class : {"coop"}, live : SUBSET Trio, quiet : [Trio -> Nat], generation : Nat,
   current : [Trio -> SUBSET Shared], target : [Trio -> SUBSET Shared],
   before : [Trio -> SUBSET Shared], plan : SUBSET Trio, revoked : SUBSET Shared,
   phase : {"start", "revoked", "done"}]

(***************************************************************************)
(* A target is even for the members it was made for.  Until the members    *)
(* have revoked, what is owned is what was owned before; then only what is *)
(* kept; and at the end it is the target.                                  *)
(***************************************************************************)
Coop ==
  /\ obj \in CoopRecord
  /\ Even(obj.target, obj.plan)
  /\ \A m, k \in Trio : m # k => obj.current[m] \cap obj.current[k] = {}
  /\ obj.phase = "start" => obj.before = obj.current
  /\ obj.phase = "revoked" => \A m \in Trio : obj.current[m] = obj.before[m] \cap obj.target[m]
  /\ obj.phase = "done" => obj.current = obj.target

\* The fields, one by one.
LEMMA CoopFields ==
  ASSUME obj \in CoopRecord
  PROVE  /\ obj.class = "coop" /\ obj.live \in SUBSET Trio /\ obj.quiet \in [Trio -> Nat]
         /\ obj.generation \in Nat /\ obj.current \in [Trio -> SUBSET Shared]
         /\ obj.target \in [Trio -> SUBSET Shared] /\ obj.before \in [Trio -> SUBSET Shared]
         /\ obj.plan \in SUBSET Trio /\ obj.revoked \in SUBSET Shared
         /\ obj.phase \in {"start", "revoked", "done"}
BY DEF CoopRecord

\* A new field of the group that ownership does not depend on.
LEMMA CoopKeeps ==
  ASSUME Coop, obj' \in CoopRecord, obj'.current = obj.current, obj'.target = obj.target,
         obj'.before = obj.before, obj'.plan = obj.plan, obj'.phase = obj.phase
  PROVE  Coop'
BY DEF Coop

\* Members come, beat, lapse and are swept.
LEMMA MembersStep ==
  ASSUME CareConstants, Coop,
         \/ Groups!CoopTick \/ Groups!Sweep
         \/ \E m \in Groups!MEMBERS : Groups!Join(m) \/ Groups!Beat(m)
  PROVE  Coop'
<1>0. /\ obj \in CoopRecord /\ obj.live \in SUBSET Trio /\ obj.quiet \in [Trio -> Nat]
      /\ obj.generation \in Nat /\ Groups!MEMBERS = Trio
  BY CoopFields DEF Coop, Groups!MEMBERS, Trio
<1>1. CASE Groups!CoopTick
  <2> DEFINE quiet == [m \in Trio |-> IF m \in obj.live
                                      THEN Groups!Min({obj.quiet[m] + 1, GroupTimeout + 1}) ELSE 0]
  <2>1. obj' = [obj EXCEPT !.quiet = quiet]
    BY <1>0, <1>1, Zenon DEF Groups!CoopTick
  <2>2. quiet \in [Trio -> Nat]
    <3>1. \A m \in Trio : Groups!Min({obj.quiet[m] + 1, GroupTimeout + 1}) \in Nat
      <4> SUFFICES ASSUME NEW m \in Trio
                   PROVE  Groups!Min({obj.quiet[m] + 1, GroupTimeout + 1}) \in Nat
        OBVIOUS
      <4> DEFINE S == {obj.quiet[m] + 1, GroupTimeout + 1}
      <4>1. S \in SUBSET Nat /\ S # {}
        BY <1>0 DEF CareConstants
      <4> HIDE DEF S
      <4>2. Min(S) \in Nat
        BY <4>1, MinOfNaturals
      <4>3. Groups!Min(S) = Min(S)
        BY DEF Min, Groups!Min
      <4> QED BY <4>2, <4>3 DEF S
    <3> QED BY <3>1
  <2> HIDE DEF quiet
  <2>3. obj' \in CoopRecord
    BY <1>0, <2>1, <2>2 DEF CoopRecord
  <2> QED BY <1>0, <2>1, <2>3, CoopKeeps DEF CoopRecord
<1>2. CASE Groups!Sweep
  <2> DEFINE alive == obj.live \ {m \in obj.live : obj.quiet[m] > GroupTimeout}
             g == obj.generation + 1
  <2>1. obj' = [obj EXCEPT !.live = alive, !.generation = g]
    BY <1>2, Zenon DEF Groups!Sweep
  <2>3. alive \in SUBSET Trio /\ g \in Nat
    BY <1>0
  <2> HIDE DEF alive, g
  <2>2. obj' \in CoopRecord
    BY <1>0, <2>1, <2>3 DEF CoopRecord
  <2> QED BY <1>0, <2>1, <2>2, CoopKeeps DEF CoopRecord
<1>3. ASSUME NEW m \in Trio, Groups!Join(m) PROVE Coop'
  <2>1. obj' = [obj EXCEPT !.live = @ \cup {m}, !.quiet[m] = 0, !.generation = @ + 1]
    BY <1>3, Zenon DEF Groups!Join
  <2> DEFINE alive == obj.live \cup {m}
             quiet == [obj.quiet EXCEPT ![m] = 0]
             g == obj.generation + 1
  <2>3. alive \in SUBSET Trio /\ quiet \in [Trio -> Nat] /\ g \in Nat
    BY <1>0
  <2>4. obj' = [obj EXCEPT !.live = alive, !.quiet = quiet, !.generation = g]
    BY <2>1, Zenon
  <2> HIDE DEF alive, quiet, g
  <2>2. obj' \in CoopRecord
    BY <1>0, <2>3, <2>4 DEF CoopRecord
  <2> QED BY <1>0, <2>1, <2>2, CoopKeeps DEF CoopRecord
<1>4. ASSUME NEW m \in Trio, Groups!Beat(m) PROVE Coop'
  <2>1. obj' = [obj EXCEPT !.quiet[m] = 0]
    BY <1>4 DEF Groups!Beat
  <2>2. obj' \in CoopRecord
    BY <1>0, <2>1 DEF CoopRecord
  <2> QED BY <1>0, <2>1, <2>2, CoopKeeps DEF CoopRecord
<1> QED BY <1>0, <1>1, <1>2, <1>3, <1>4

\* A rebalance is planned.
LEMMA PlanStep ==
  ASSUME CareConstants, Coop, Groups!Plan PROVE Coop'
<1>0. /\ obj \in CoopRecord /\ obj.live \in SUBSET Trio /\ obj.live # {}
      /\ obj.current \in [Trio -> SUBSET Shared]
      /\ \A m, k \in Trio : m # k => obj.current[m] \cap obj.current[k] = {}
  BY CoopFields DEF Coop, Groups!Plan
<1> DEFINE t == Groups!RangeAssign(obj.live)
<1>1. Even(t, obj.live)
  BY <1>0, RangeIsEven
<1>2. t \in [Trio -> SUBSET Shared]
  <2> HIDE DEF t
  <2> QED BY <1>1 DEF Even
<1>3. obj' = [obj EXCEPT !.plan = obj.live, !.target = t, !.before = obj.current, !.phase = "start"]
  BY DEF Groups!Plan
<1> HIDE DEF t
<1>4. obj' \in CoopRecord
  BY <1>0, <1>2, <1>3 DEF CoopRecord
<1>5. /\ obj'.plan = obj.live /\ obj'.target = t /\ obj'.before = obj.current
      /\ obj'.phase = "start" /\ obj'.current = obj.current
  BY <1>0, <1>3 DEF CoopRecord
<1> QED BY <1>0, <1>1, <1>4, <1>5 DEF Coop

\* The members give up what they are to lose.
LEMMA RevokeStep ==
  ASSUME CareConstants, Coop, Groups!RevokePhase PROVE Coop'
<1>0. /\ obj \in CoopRecord /\ obj.current \in [Trio -> SUBSET Shared]
      /\ obj.target \in [Trio -> SUBSET Shared] /\ Even(obj.target, obj.plan)
      /\ \A m, k \in Trio : m # k => obj.current[m] \cap obj.current[k] = {}
      /\ obj.before = obj.current /\ Groups!MEMBERS = Trio
  BY CoopFields DEF Coop, Groups!RevokePhase, Groups!MEMBERS, Trio
<1> DEFINE kept == [m \in Trio |-> obj.current[m] \cap obj.target[m]]
           lost == UNION {obj.current[m] \ obj.target[m] : m \in Trio}
<1>1. obj' = [obj EXCEPT !.phase = "revoked", !.current = kept, !.revoked = lost]
  BY <1>0, Zenon DEF Groups!RevokePhase
<1>2. kept \in [Trio -> SUBSET Shared] /\ lost \in SUBSET Shared
  BY <1>0
<1>3. \A m, k \in Trio : m # k => kept[m] \cap kept[k] = {}
  BY <1>0
<1>4. \A m \in Trio : kept[m] = obj.before[m] \cap obj.target[m]
  BY <1>0
<1> HIDE DEF kept, lost
<1>5. obj' \in CoopRecord
  BY <1>0, <1>1, <1>2 DEF CoopRecord
<1>6. /\ obj'.plan = obj.plan /\ obj'.target = obj.target /\ obj'.before = obj.before
      /\ obj'.phase = "revoked" /\ obj'.current = kept
  BY <1>0, <1>1 DEF CoopRecord
<1> QED BY <1>0, <1>3, <1>4, <1>5, <1>6 DEF Coop

\* The members take what they are to gain.
LEMMA AssignStep ==
  ASSUME CareConstants, Coop, Groups!AssignPhase PROVE Coop'
<1>0. /\ obj \in CoopRecord /\ obj.current \in [Trio -> SUBSET Shared]
      /\ obj.target \in [Trio -> SUBSET Shared] /\ Even(obj.target, obj.plan)
      /\ \A m \in Trio : obj.current[m] = obj.before[m] \cap obj.target[m]
      /\ obj.plan \in SUBSET Trio /\ Groups!MEMBERS = Trio
  BY CoopFields DEF Coop, Groups!AssignPhase, Groups!MEMBERS, Trio
<1> DEFINE next == [m \in Trio |-> IF m \in obj.plan THEN obj.target[m] ELSE obj.current[m]]
<1>1. obj' = [obj EXCEPT !.phase = "done", !.current = next]
  BY <1>0, Zenon DEF Groups!AssignPhase
<1>2. next = obj.target
  <2>1. \A m \in Trio \ obj.plan : obj.target[m] = {}
    BY <1>0 DEF Even
  <2> QED BY <1>0, <2>1
<1>3. \A m, k \in Trio : m # k => obj.target[m] \cap obj.target[k] = {}
  BY <1>0 DEF Even
<1> HIDE DEF next
<1>5. obj' \in CoopRecord
  BY <1>0, <1>1, <1>2 DEF CoopRecord
<1>6. /\ obj'.plan = obj.plan /\ obj'.target = obj.target
      /\ obj'.phase = "done" /\ obj'.current = obj.target
  BY <1>0, <1>1, <1>2 DEF CoopRecord
<1> QED BY <1>0, <1>3, <1>5, <1>6 DEF Coop

\* Every step of the cooperative group.
LEMMA CoopStep ==
  ASSUME CareConstants, Coop, Groups!CoopNext PROVE Coop'
BY MembersStep, PlanStep, RevokeStep, AssignStep DEF Groups!CoopNext

\* At the start nothing is owned.
LEMMA CoopStart ==
  ASSUME CareConstants, Groups!CoopInit PROVE Coop
<1> DEFINE none == [m \in Trio |-> {}]
<1>1. obj = [class |-> "coop", live |-> {}, quiet |-> [m \in Trio |-> 0], generation |-> 0,
             current |-> none, target |-> none, before |-> none,
             plan |-> {}, revoked |-> {}, phase |-> "done"]
  BY DEF Groups!CoopInit, Groups!Nothing, Groups!MEMBERS, Trio
<1>2. none \in [Trio -> SUBSET Shared] /\ \A m \in Trio : none[m] = {}
  OBVIOUS
<1> HIDE DEF none
<1>3. obj \in CoopRecord
  BY <1>1, <1>2 DEF CoopRecord
<1>4. Even(none, {})
  BY <1>2 DEF Even
<1> QED BY <1>1, <1>2, <1>3, <1>4 DEF Coop

\* No partition has two owners, none that stays is stopped, and a finished
\* rebalance leaves all of them owned, evenly.
LEMMA CoopPromise ==
  ASSUME CareConstants, Coop PROVE Groups!CooperationIsExclusive
<1>0. /\ obj \in CoopRecord /\ obj.current \in [Trio -> SUBSET Shared]
      /\ obj.target \in [Trio -> SUBSET Shared] /\ Even(obj.target, obj.plan)
      /\ \A m, k \in Trio : m # k => obj.current[m] \cap obj.current[k] = {}
      /\ obj.plan \in SUBSET Trio /\ obj.live \in SUBSET Trio
      /\ Groups!MEMBERS = Trio /\ Groups!PARTS = Shared
  BY CoopFields DEF Coop, Groups!MEMBERS, Trio, Groups!PARTS, Shared
<1>1. Groups!DoubleOwned(obj.current) = {}
  <2> SUFFICES ASSUME NEW p \in Shared, Cardinality({m \in Trio : p \in obj.current[m]}) > 1
               PROVE  FALSE
    BY <1>0, CareCount DEF Groups!DoubleOwned
  <2> DEFINE S == {m \in Trio : p \in obj.current[m]}
  <2>1. CASE S = {}
    BY <2>1, FS_EmptySet
  <2>2. CASE S # {}
    <3>1. PICK m \in S : TRUE
      BY <2>2
    <3>2. S = {m}
      BY <1>0, <3>1
    <3>3. Cardinality({m}) = 1
      BY FS_Singleton, Zenon
    <3> HIDE DEF S
    <3>4. Cardinality(S) = 1
      BY <3>2, <3>3
    <3> QED BY <3>4 DEF S
  <2> QED BY <2>1, <2>2
<1>2. ASSUME obj.phase = "revoked"
      PROVE  /\ \A m \in Trio : obj.before[m] \cap obj.target[m] \subseteq obj.current[m]
             /\ \A m \in obj.plan : \A p \in obj.target[m] \ obj.current[m] :
                  p \in obj.revoked \/ p \notin Groups!Owned(obj)
  <2>1. \A m \in Trio : obj.current[m] = obj.before[m] \cap obj.target[m]
    BY <1>2 DEF Coop
  <2>2. \A m, k \in Trio : m # k => obj.target[m] \cap obj.target[k] = {}
    BY <1>0 DEF Even
  <2>3. ASSUME NEW m \in obj.plan, NEW p \in obj.target[m] \ obj.current[m]
        PROVE  p \notin Groups!Owned(obj)
    <3>1. \A k \in Trio : p \notin obj.current[k]
      BY <1>0, <2>1, <2>2, <2>3
    <3> QED BY <1>0, <3>1 DEF Groups!Owned
  <2> QED BY <2>1, <2>3
<1>3. ASSUME obj.phase = "done", obj.plan = obj.live, obj.live # {}
      PROVE  LET sizes == {Groups!Cardinality(obj.current[m]) : m \in obj.live}
             IN  /\ Groups!Orphaned(obj.current) = {} /\ Groups!Owned(obj) \subseteq Shared
                 /\ Groups!Max(sizes) - Groups!Min(sizes) <= 1
  <2> DEFINE sizes == {Groups!Cardinality(obj.current[m]) : m \in obj.live}
  <2>1. obj.current = obj.target
    BY <1>3 DEF Coop
  <2>2. Groups!Orphaned(obj.current) = {} /\ Groups!Owned(obj) \subseteq Shared
    <3>1. \A p \in Shared : \E m \in Trio : p \in obj.current[m]
      BY <1>0, <1>3, <2>1 DEF Even
    <3> QED BY <1>0, <3>1 DEF Groups!Orphaned, Groups!Owned
  <2>3. PICK q \in Nat : \A m \in obj.live :
          Cardinality(obj.current[m]) = q \/ Cardinality(obj.current[m]) = q + 1
    BY <1>0, <1>3, <2>1 DEF Even
  <2>4. sizes \in SUBSET Nat /\ sizes # {} /\ \A y \in sizes : y = q \/ y = q + 1
    <3>1. sizes = {Cardinality(obj.current[m]) : m \in obj.live}
      BY CareCount
    <3>2. \A m \in obj.live : Cardinality(obj.current[m]) \in Nat
      BY <2>3
    <3> QED BY <1>3, <2>3, <3>1, <3>2
  <2> HIDE DEF sizes
  <2>5. Min(sizes) \in sizes
    BY <2>4, MinOfNaturals
  <2>6. Max(sizes) \in sizes
    <3>1. q + 1 \in Nat /\ \A y \in sizes : y <= q + 1
      BY <2>4
    <3> QED BY <2>4, <3>1, MaxOfNaturals
  <2>7. Groups!Min(sizes) = Min(sizes) /\ Groups!Max(sizes) = Max(sizes)
    BY DEF Min, Groups!Min, Max, Groups!Max
  <2>8. Groups!Max(sizes) - Groups!Min(sizes) <= 1
    <3> DEFINE lo == Min(sizes)
               hi == Max(sizes)
    <3>1. (lo = q \/ lo = q + 1) /\ (hi = q \/ hi = q + 1)
      BY <2>4, <2>5, <2>6
    <3> HIDE DEF lo, hi
    <3>2. hi - lo <= 1
      BY <3>1
    <3> QED BY <2>7, <3>2 DEF lo, hi
  <2> QED BY <2>2, <2>8 DEF sizes
<1> QED BY <1>0, <1>1, <1>2, <1>3, Zenon DEF Groups!CooperationIsExclusive

----------------------------------------------------------------------------
\* A commit under way.
CommitSent == [to : Nat, epoch : Nat, attempt : Nat]

\* The fields of a group's offset.
OffsetsRecord ==
  [class : {"offsets"}, members : [1 .. 2 -> {"none", "consumer", "connect"}],
   type : {"none", "consumer", "connect"}, reading : BOOLEAN, position : Nat, processed : Nat,
   committed : Int, age : Nat, epoch : Nat, pending : SUBSET CommitSent]

\* Nothing is ahead of what was processed, and members are of the group's type.
Offsets ==
  /\ obj \in OffsetsRecord
  /\ obj.committed >= -1 /\ obj.committed <= obj.processed /\ obj.position <= obj.processed
  /\ \A c \in obj.pending : c.to <= obj.processed
  /\ \A s \in 1 .. 2 : obj.members[s] # "none" => obj.members[s] = obj.type

\* The fields, one by one.
LEMMA OffsetsFields ==
  ASSUME obj \in OffsetsRecord
  PROVE  /\ obj.class = "offsets" /\ obj.members \in [1 .. 2 -> {"none", "consumer", "connect"}]
         /\ obj.type \in {"none", "consumer", "connect"} /\ obj.reading \in BOOLEAN
         /\ obj.position \in Nat /\ obj.processed \in Nat /\ obj.committed \in Int
         /\ obj.age \in Nat /\ obj.epoch \in Nat /\ obj.pending \in SUBSET CommitSent
BY DEF OffsetsRecord

\* Members change, and what the group has read does not.
LEMMA TypesAgree ==
  ASSUME Offsets, obj' \in OffsetsRecord,
         \A u \in 1 .. 2 : obj'.members[u] # "none" => obj'.members[u] = obj'.type,
         obj'.committed = obj.committed, obj'.processed = obj.processed,
         obj'.position = obj.position, obj'.pending = obj.pending
  PROVE  Offsets'
BY DEF Offsets

\* Members join and leave.
LEMMA TypedStep ==
  ASSUME CareConstants, Offsets, NEW s \in 1 .. 2,
         Groups!Leave(s) \/ \E type \in Groups!TYPES : Groups!JoinTyped(s, type)
  PROVE  Offsets'
<1>0. /\ obj \in OffsetsRecord /\ obj.members \in [1 .. 2 -> {"none", "consumer", "connect"}]
      /\ obj.type \in {"none", "consumer", "connect"} /\ obj.reading \in BOOLEAN
      /\ \A u \in 1 .. 2 : obj.members[u] # "none" => obj.members[u] = obj.type
  BY OffsetsFields DEF Offsets
<1>2. CASE Groups!Leave(s)
  <2> DEFINE who == [obj.members EXCEPT ![s] = "none"]
             last == Groups!Joined(obj) = {s}
             type == IF last THEN "none" ELSE obj.type
             reading == obj.reading /\ ~ last
  <2>1. obj' = [obj EXCEPT !.members = who, !.type = type, !.reading = reading]
    BY <1>2, Zenon DEF Groups!Leave
  <2>2. /\ who \in [1 .. 2 -> {"none", "consumer", "connect"}]
        /\ type \in {"none", "consumer", "connect"} /\ reading \in BOOLEAN
    BY <1>0
  <2>3. ASSUME NEW u \in 1 .. 2, who[u] # "none" PROVE who[u] = type
    <3>1. u # s /\ who[u] = obj.members[u] /\ obj.members[u] # "none"
      BY <1>0, <2>3
    <3>2. u \in Groups!Joined(obj)
      BY <3>1 DEF Groups!Joined
    <3> QED BY <1>0, <3>1, <3>2
  <2> HIDE DEF who, type, reading
  <2>4. obj' \in OffsetsRecord
    BY <1>0, <2>1, <2>2 DEF OffsetsRecord
  <2>5. /\ obj'.members = who /\ obj'.type = type /\ obj'.committed = obj.committed
        /\ obj'.processed = obj.processed /\ obj'.position = obj.position
        /\ obj'.pending = obj.pending
    BY <1>0, <2>1 DEF OffsetsRecord
  <2> QED BY <2>3, <2>4, <2>5, TypesAgree
<1>3. ASSUME NEW type \in Groups!TYPES, Groups!JoinTyped(s, type) PROVE Offsets'
  <2> DEFINE who == [obj.members EXCEPT ![s] = type]
  <2>1. obj' = [obj EXCEPT !.members = who, !.type = type]
    BY <1>3, Zenon DEF Groups!JoinTyped
  <2>2. /\ who \in [1 .. 2 -> {"none", "consumer", "connect"}]
        /\ type \in {"none", "consumer", "connect"}
    BY <1>0 DEF Groups!TYPES
  <2>3. ASSUME NEW u \in 1 .. 2, who[u] # "none" PROVE who[u] = type
    <3>1. CASE u = s
      BY <1>0, <3>1
    <3>2. CASE u # s
      <4>1. who[u] = obj.members[u] /\ obj.members[u] # "none"
        BY <1>0, <2>3, <3>2
      <4>2. u \in Groups!Joined(obj)
        BY <4>1 DEF Groups!Joined
      <4>3. obj.type = type
        <5>1. Groups!Joined(obj) = {} \/ type = obj.type
          BY <1>3, Zenon DEF Groups!JoinTyped
        <5> QED BY <4>2, <5>1
      <4> QED BY <1>0, <4>1, <4>3
    <3> QED BY <3>1, <3>2
  <2> HIDE DEF who
  <2>4. obj' \in OffsetsRecord
    BY <1>0, <2>1, <2>2 DEF OffsetsRecord
  <2>5. /\ obj'.members = who /\ obj'.type = type /\ obj'.committed = obj.committed
        /\ obj'.processed = obj.processed /\ obj'.position = obj.position
        /\ obj'.pending = obj.pending
    BY <1>0, <2>1 DEF OffsetsRecord
  <2> QED BY <2>3, <2>4, <2>5, TypesAgree
<1> QED BY <1>2, <1>3

\* The reader starts where the group stands, and reads on.
LEMMA ReaderStep ==
  ASSUME CareConstants, Offsets, Groups!ResumeOrReset \/ Groups!AdvancePosition
  PROVE  Offsets'
<1>0. /\ obj \in OffsetsRecord /\ obj.position \in Nat /\ obj.processed \in Nat
      /\ obj.committed \in Int /\ obj.committed >= -1 /\ obj.committed <= obj.processed
      /\ obj.position <= obj.processed /\ obj.pending \in SUBSET CommitSent
      /\ \A c \in obj.pending : c.to <= obj.processed
      /\ \A s \in 1 .. 2 : obj.members[s] # "none" => obj.members[s] = obj.type
  BY OffsetsFields DEF Offsets
<1>1. \A a, b \in Int : Groups!Max({a, b}) = IF a >= b THEN a ELSE b
  BY DEF Groups!Max
<1>2. CASE Groups!ResumeOrReset
  <2> DEFINE at == Groups!Max({0, obj.committed})
  <2>1. obj' = [obj EXCEPT !.reading = TRUE, !.position = at]
    BY <1>2, Zenon DEF Groups!ResumeOrReset
  <2>2. at \in Nat /\ at <= obj.processed
    BY <1>0, <1>1
  <2> HIDE DEF at
  <2>3. obj' \in OffsetsRecord
    BY <1>0, <2>1, <2>2 DEF OffsetsRecord
  <2>4. /\ obj'.position = at /\ obj'.committed = obj.committed /\ obj'.processed = obj.processed
        /\ obj'.pending = obj.pending /\ obj'.members = obj.members /\ obj'.type = obj.type
    BY <1>0, <2>1 DEF OffsetsRecord
  <2> QED BY <1>0, <2>2, <2>3, <2>4 DEF Offsets
<1>3. CASE Groups!AdvancePosition
  <2> DEFINE at == obj.position + 1
             most == Groups!Max({obj.processed, obj.position + 1})
  <2>1. obj' = [obj EXCEPT !.position = at, !.processed = most]
    BY <1>3, Zenon DEF Groups!AdvancePosition
  <2>2. at \in Nat /\ most \in Nat /\ at <= most /\ obj.processed <= most
    BY <1>0, <1>1
  <2> HIDE DEF at, most
  <2>3. obj' \in OffsetsRecord
    BY <1>0, <2>1, <2>2 DEF OffsetsRecord
  <2>4. /\ obj'.position = at /\ obj'.committed = obj.committed /\ obj'.processed = most
        /\ obj'.pending = obj.pending /\ obj'.members = obj.members /\ obj'.type = obj.type
    BY <1>0, <2>1 DEF OffsetsRecord
  <2>5. \A c \in obj.pending : c.to <= most
    BY <1>0, <2>2 DEF CommitSent
  <2>6. obj.committed <= most
    BY <1>0, <2>2
  <2> QED BY <1>0, <2>2, <2>3, <2>4, <2>5, <2>6 DEF Offsets
<1> QED BY <1>2, <1>3

\* Commits are sent, fail and arrive.
LEMMA OffsetCommitStep ==
  ASSUME CareConstants, Offsets,
         \/ Groups!SendCommit
         \/ \E c \in obj.pending : Groups!CommitArrives(c) \/ Groups!CommitFails(c)
  PROVE  Offsets'
<1>0. /\ obj \in OffsetsRecord /\ obj.position \in Nat /\ obj.processed \in Nat
      /\ obj.committed \in Int /\ obj.committed >= -1 /\ obj.committed <= obj.processed
      /\ obj.position <= obj.processed /\ obj.pending \in SUBSET CommitSent /\ obj.epoch \in Nat
      /\ \A c \in obj.pending : c.to <= obj.processed
      /\ \A s \in 1 .. 2 : obj.members[s] # "none" => obj.members[s] = obj.type
  BY OffsetsFields DEF Offsets
<1>1. ASSUME NEW sent \in SUBSET CommitSent, \A c \in sent : c.to <= obj.processed,
             obj' = [obj EXCEPT !.pending = sent]
      PROVE  Offsets'
  <2>1. obj' \in OffsetsRecord
    BY <1>0, <1>1 DEF OffsetsRecord
  <2>2. /\ obj'.position = obj.position /\ obj'.committed = obj.committed
        /\ obj'.processed = obj.processed
        /\ obj'.pending = sent /\ obj'.members = obj.members /\ obj'.type = obj.type
    BY <1>0, <1>1 DEF OffsetsRecord
  <2> QED BY <1>0, <1>1, <2>1, <2>2 DEF Offsets
<1>2. CASE Groups!SendCommit
  <2> DEFINE new == [to |-> obj.position, epoch |-> obj.epoch, attempt |-> 0]
             sent == obj.pending \cup {new}
  <2>1. obj' = [obj EXCEPT !.pending = sent]
    BY <1>2, Zenon DEF Groups!SendCommit
  <2>2. new \in CommitSent /\ new.to <= obj.processed
    BY <1>0 DEF CommitSent
  <2> HIDE DEF new
  <2>3. sent \in SUBSET CommitSent /\ \A c \in sent : c.to <= obj.processed
    BY <1>0, <2>2
  <2> HIDE DEF sent
  <2> QED BY <1>1, <2>1, <2>3
<1>3. ASSUME NEW c \in obj.pending, Groups!CommitFails(c) PROVE Offsets'
  <2>p. PICK illegal \in BOOLEAN : obj' = [obj EXCEPT !.pending =
          (obj.pending \ {c}) \cup
            (IF illegal THEN {}
             ELSE IF c.epoch < obj.epoch THEN {[c EXCEPT !.epoch = obj.epoch]}
             ELSE IF c.attempt < MaxRetries THEN {[c EXCEPT !.attempt = @ + 1]}
             ELSE {})]
    BY <1>3, Zenon DEF Groups!CommitFails
  <2> DEFINE again == IF illegal THEN {}
                      ELSE IF c.epoch < obj.epoch THEN {[c EXCEPT !.epoch = obj.epoch]}
                      ELSE IF c.attempt < MaxRetries THEN {[c EXCEPT !.attempt = @ + 1]}
                      ELSE {}
             sent == (obj.pending \ {c}) \cup again
  <2>1. obj' = [obj EXCEPT !.pending = sent]
    BY <2>p, Zenon
  <2>2. c \in CommitSent /\ c.to <= obj.processed
    BY <1>0
  <2>3. again \in SUBSET CommitSent /\ \A d \in again : d.to = c.to
    BY <1>0, <2>2 DEF CommitSent
  <2> HIDE DEF again
  <2>4. sent \in SUBSET CommitSent /\ \A d \in sent : d.to <= obj.processed
    BY <1>0, <2>2, <2>3
  <2> HIDE DEF sent
  <2> QED BY <1>1, <2>1, <2>4
<1>4. ASSUME NEW c \in obj.pending, Groups!CommitArrives(c) PROVE Offsets'
  <2> DEFINE sent == obj.pending \ {c}
             to == c.to
  <2>1. obj' = [obj EXCEPT !.pending = sent, !.committed = to, !.age = 0]
    BY <1>4, Zenon DEF Groups!CommitArrives
  <2>2. /\ sent \in SUBSET CommitSent /\ to \in Nat /\ to \in Int /\ to <= obj.processed
        /\ \A d \in sent : d.to <= obj.processed
    BY <1>0 DEF CommitSent
  <2> HIDE DEF sent, to
  <2>3. obj' \in OffsetsRecord
    BY <1>0, <2>1, <2>2 DEF OffsetsRecord
  <2>4. /\ obj'.position = obj.position /\ obj'.committed = to
        /\ obj'.processed = obj.processed
        /\ obj'.pending = sent /\ obj'.members = obj.members /\ obj'.type = obj.type
    BY <1>0, <2>1 DEF OffsetsRecord
  <2> QED BY <1>0, <2>2, <2>3, <2>4 DEF Offsets
<1> QED BY <1>2, <1>3, <1>4

\* The coordinator moves, offsets age, expire and are deleted.
LEMMA KeeperStep ==
  ASSUME CareConstants, Offsets,
         \/ Groups!TakeOver \/ Groups!OffsetsTick \/ Groups!ExpireOffset \/ Groups!DeleteOffset
  PROVE  Offsets'
<1>0. /\ obj \in OffsetsRecord /\ obj.processed \in Nat /\ obj.age \in Nat /\ obj.epoch \in Nat
      /\ obj.committed \in Int /\ obj.committed >= -1 /\ obj.committed <= obj.processed
      /\ obj.position <= obj.processed
      /\ \A c \in obj.pending : c.to <= obj.processed
      /\ \A s \in 1 .. 2 : obj.members[s] # "none" => obj.members[s] = obj.type
  BY OffsetsFields DEF Offsets
<1>1. ASSUME obj' \in OffsetsRecord, obj'.committed = obj.committed \/ obj'.committed = -1,
             obj'.position = obj.position, obj'.processed = obj.processed,
             obj'.pending = obj.pending, obj'.members = obj.members, obj'.type = obj.type
      PROVE  Offsets'
  BY <1>0, <1>1 DEF Offsets
<1>2. CASE Groups!TakeOver
  <2>1. obj' = [obj EXCEPT !.epoch = obj.epoch + 1]
    BY <1>2 DEF Groups!TakeOver
  <2> QED BY <1>0, <1>1, <2>1 DEF OffsetsRecord
<1>3. CASE Groups!OffsetsTick
  <2>1. obj' = [obj EXCEPT !.age = obj.age + 1]
    BY <1>3 DEF Groups!OffsetsTick
  <2> QED BY <1>0, <1>1, <2>1 DEF OffsetsRecord
<1>4. CASE Groups!ExpireOffset
  <2>1. obj' = [obj EXCEPT !.committed = -1]
    BY <1>4 DEF Groups!ExpireOffset, Groups!NO_OFFSET
  <2> QED BY <1>0, <1>1, <2>1 DEF OffsetsRecord
<1>5. CASE Groups!DeleteOffset
  <2>1. obj' = [obj EXCEPT !.committed = -1, !.age = 0]
    BY <1>5 DEF Groups!DeleteOffset, Groups!NO_OFFSET
  <2>2. obj' \in OffsetsRecord
    <3> DEFINE without == [obj EXCEPT !.committed = -1]
    <3>1. without \in OffsetsRecord
      BY <1>0 DEF OffsetsRecord
    <3>2. obj' = [without EXCEPT !.age = 0]
      BY <1>0, <2>1 DEF OffsetsRecord
    <3> HIDE DEF without
    <3> QED BY <3>1, <3>2 DEF OffsetsRecord
  <2>3. /\ obj'.committed = -1 /\ obj'.position = obj.position /\ obj'.processed = obj.processed
        /\ obj'.pending = obj.pending /\ obj'.members = obj.members /\ obj'.type = obj.type
    BY <1>0, <2>1 DEF OffsetsRecord
  <2> QED BY <1>1, <2>2, <2>3
<1> QED BY <1>2, <1>3, <1>4, <1>5

\* Every step of a group's offset.
LEMMA OffsetsStep ==
  ASSUME CareConstants, Offsets, Groups!OffsetsNext PROVE Offsets'
BY TypedStep, ReaderStep, OffsetCommitStep, KeeperStep DEF Groups!OffsetsNext

\* A group without members that has read nothing.
LEMMA OffsetsStart ==
  ASSUME Groups!OffsetsInit PROVE Offsets
<1>1. obj = [class |-> "offsets", members |-> [s \in 1 .. 2 |-> "none"], type |-> "none",
             reading |-> FALSE, position |-> 0, processed |-> 0, committed |-> -1,
             age |-> 0, epoch |-> 1, pending |-> {}]
  BY DEF Groups!OffsetsInit, Groups!NO_OFFSET
<1>2. obj \in OffsetsRecord
  BY <1>1 DEF OffsetsRecord
<1> QED BY <1>1, <1>2 DEF Offsets

\* No record is skipped.
LEMMA OffsetsPromise ==
  ASSUME Offsets PROVE Groups!GroupsNeverSkip
BY DEF Offsets, Groups!GroupsNeverSkip, Groups!Joined

----------------------------------------------------------------------------
\* The fields of a group that is forming.
DelayRecord ==
  [class : {"delay"}, now : Nat, started_at : Int, ready_at : Int, batched : Nat, last : Int]

\* The rebalance waits for the base delay after the last join, and no longer than the
\* maximum after the first.
Delay ==
  /\ obj \in DelayRecord
  /\ obj.last <= obj.now
  /\ obj.started_at >= 0 =>
       obj.ready_at = IF obj.last + BaseDelay <= obj.started_at + MaxDelay
                      THEN obj.last + BaseDelay ELSE obj.started_at + MaxDelay

\* Every step of a group that is forming.
LEMMA DelayStep ==
  ASSUME CareConstants, Delay, Groups!OnJoin \/ Groups!DelayTick PROVE Delay'
<1>0. /\ obj \in DelayRecord /\ obj.now \in Nat /\ obj.started_at \in Int /\ obj.ready_at \in Int
      /\ obj.batched \in Nat /\ obj.last \in Int /\ obj.last <= obj.now
      /\ BaseDelay \in Nat /\ MaxDelay \in Nat /\ BaseDelay <= MaxDelay
  BY DEF Delay, DelayRecord, CareConstants
<1>1. /\ \A a, b \in Int : Groups!Max({a, b}) = IF a >= b THEN a ELSE b
      /\ \A a, b \in Int : Groups!Min({a, b}) = IF a <= b THEN a ELSE b
  BY DEF Groups!Max, Groups!Min
<1>2. CASE Groups!DelayTick
  <2>1. obj' = [obj EXCEPT !.now = obj.now + 1]
    BY <1>2 DEF Groups!DelayTick
  <2>2. obj' \in DelayRecord
    BY <1>0, <2>1 DEF DelayRecord
  <2>3. /\ obj'.now = obj.now + 1 /\ obj'.started_at = obj.started_at
        /\ obj'.ready_at = obj.ready_at /\ obj'.last = obj.last
    BY <1>0, <2>1 DEF DelayRecord
  <2> QED BY <1>0, <2>2, <2>3 DEF Delay
<1>3. CASE Groups!OnJoin
  <2> DEFINE first == obj.started_at < 0
             cap == Groups!Min({obj.now + BaseDelay, obj.started_at + MaxDelay})
             start == IF first THEN obj.now ELSE obj.started_at
             ready == IF first THEN obj.now + BaseDelay ELSE Groups!Max({obj.ready_at, cap})
             batched == obj.batched + 1
  <2>1. obj' = [obj EXCEPT !.started_at = start, !.ready_at = ready, !.batched = batched,
                           !.last = obj.now]
    BY <1>3, Zenon DEF Groups!OnJoin
  <2>2. cap = IF obj.now + BaseDelay <= obj.started_at + MaxDelay
              THEN obj.now + BaseDelay ELSE obj.started_at + MaxDelay
    BY <1>0, <1>1
  <2> HIDE DEF cap
  <2>3. cap \in Int
    BY <1>0, <2>2
  <2>4. ready = IF first THEN obj.now + BaseDelay
                ELSE IF obj.ready_at >= cap THEN obj.ready_at ELSE cap
    BY <1>0, <1>1, <2>3
  <2> HIDE DEF ready
  <2>5. start \in Int /\ ready \in Int /\ batched \in Nat /\ obj.now \in Int
    BY <1>0, <2>3, <2>4
  <2>6. ready = IF obj.now + BaseDelay <= start + MaxDelay
                THEN obj.now + BaseDelay ELSE start + MaxDelay
    <3>1. CASE first
      BY <1>0, <2>4, <3>1
    <3>2. CASE ~ first
      <4>1. obj.ready_at = IF obj.last + BaseDelay <= obj.started_at + MaxDelay
                           THEN obj.last + BaseDelay ELSE obj.started_at + MaxDelay
        BY <1>0, <3>2 DEF Delay
      <4> QED BY <1>0, <2>2, <2>4, <3>2, <4>1
    <3> QED BY <3>1, <3>2
  <2> HIDE DEF start, batched
  <2>7. obj' \in DelayRecord
    BY <1>0, <2>1, <2>5 DEF DelayRecord
  <2>8. /\ obj'.now = obj.now /\ obj'.started_at = start /\ obj'.ready_at = ready
        /\ obj'.last = obj.now
    BY <1>0, <2>1 DEF DelayRecord
  <2> QED BY <1>0, <2>6, <2>7, <2>8 DEF Delay
<1> QED BY <1>2, <1>3

\* Before the first join.
LEMMA DelayStart ==
  ASSUME Groups!DelayInit PROVE Delay
BY DEF Groups!DelayInit, Delay, DelayRecord

\* The wait is bounded.
LEMMA DelayPromise ==
  ASSUME CareConstants, Delay PROVE Groups!DelayIsBounded
<1>1. \A a, b \in Int : Groups!Min({a, b}) = IF a <= b THEN a ELSE b
  BY DEF Groups!Min
<1>2. obj.last + BaseDelay \in Int /\ obj.started_at + MaxDelay \in Int
  BY DEF Delay, DelayRecord, CareConstants
<1> QED BY <1>1, <1>2 DEF Delay, Groups!DelayIsBounded

----------------------------------------------------------------------------
\* The fields of a weighted assignment.
Weights == obj \in [class : {"weights"}, weights : [Trio -> 1 .. 3], n : 0 .. 5]

\* A sum over all members.
LEMMA SumOfAll ==
  ASSUME NEW f \in [Trio -> Int]
  PROVE  Groups!SumFunction(f) = f[1] + f[2] + f[3]
<1>1. DOMAIN f = Trio /\ 1 \in Trio /\ 2 \in Trio /\ 3 \in Trio /\ Trio \in SUBSET Trio
  BY DEF Trio
<1>2. Groups!SumFunction(f) = Groups!SumFunctionOnSet(f, Trio)
  BY <1>1, Zenon DEF Groups!SumFunction
<1>3. Groups!SumFunctionOnSet(f, Trio) = Summed(f, Trio)
  BY <1>1, SumMemberwise
<1> QED BY <1>1, <1>2, <1>3 DEF Summed

\* The members whose remainder comes before that of c.
Ahead(rest, c) == {d \in Trio : rest[d] > rest[c] \/ (rest[d] = rest[c] /\ d < c)}

\* Remainders stand in a row: so many of them are among the first, for any number.
LEMMA FirstOfThree ==
  ASSUME NEW rest \in [Trio -> Nat], NEW left \in 0 .. 2,
         NEW one \in [Trio -> 0 .. 1],
         \A c \in Trio : one[c] = IF Cardinality(Ahead(rest, c)) < left THEN 1 ELSE 0
  PROVE  /\ one[1] + one[2] + one[3] = left
         /\ left = 1 => \A c \in Trio : one[c] = 1 => \A d \in Trio : rest[d] <= rest[c]
         /\ left = 2 => \A c \in Trio : one[c] = 1 =>
                          \E e \in Trio : e # c /\ \A d \in Trio : d # e => rest[d] <= rest[c]
<1>0. rest[1] \in Nat /\ rest[2] \in Nat /\ rest[3] \in Nat
  BY DEF Trio
<1>1. ASSUME NEW c \in Trio, NEW d \in Trio, NEW e \in Trio, c # d, c # e, d # e
      PROVE  Cardinality(Ahead(rest, c))
               = (IF d \in Ahead(rest, c) THEN 1 ELSE 0) + (IF e \in Ahead(rest, c) THEN 1 ELSE 0)
  <2> DEFINE A == Ahead(rest, c)
  <2>1. c \notin A /\ A \subseteq {d, e}
    BY <1>1 DEF Ahead, Trio
  <2>2. A \in {{}, {d}, {e}, {d, e}}
    <3> HIDE DEF A
    <3> QED BY <2>1
  <2>3. Cardinality({}) = 0 /\ Cardinality({d}) = 1 /\ Cardinality({e}) = 1
    BY FS_EmptySet, FS_Singleton, Zenon
  <2>4. Cardinality({d, e}) = 2
    <3>1. IsFiniteSet({d}) /\ e \notin {d}
      <4>1. IsFiniteSet({d})
        BY FS_Singleton, Zenon
      <4> QED BY <1>1, <4>1
    <3>2. Cardinality({d} \cup {e}) = Cardinality({d}) + 1
      BY <3>1, FS_AddElement
    <3>3. {d} \cup {e} = {d, e}
      OBVIOUS
    <3> QED BY <2>3, <3>2, <3>3
  <2> HIDE DEF A
  <2>5. Cardinality(A) = (IF d \in A THEN 1 ELSE 0) + (IF e \in A THEN 1 ELSE 0)
    <3>1. CASE A = {}
      BY <2>3, <3>1
    <3>2. CASE A = {d}
      BY <1>1, <2>3, <3>2
    <3>3. CASE A = {e}
      BY <1>1, <2>3, <3>3
    <3>4. CASE A = {d, e}
      BY <2>4, <3>4
    <3> QED BY <2>2, <3>1, <3>2, <3>3, <3>4
  <2> QED BY <2>5 DEF A
<1> DEFINE x == rest[1]
           y == rest[2]
           z == rest[3]
<1>2. 1 \in Trio /\ 2 \in Trio /\ 3 \in Trio /\ \A m \in Trio : m = 1 \/ m = 2 \/ m = 3
  BY DEF Trio
<1>3. /\ Cardinality(Ahead(rest, 1)) = (IF y > x THEN 1 ELSE 0) + (IF z > x THEN 1 ELSE 0)
      /\ Cardinality(Ahead(rest, 2)) = (IF x >= y THEN 1 ELSE 0) + (IF z > y THEN 1 ELSE 0)
      /\ Cardinality(Ahead(rest, 3)) = (IF x >= z THEN 1 ELSE 0) + (IF y >= z THEN 1 ELSE 0)
  <2>1. /\ (2 \in Ahead(rest, 1)) <=> y > x
        /\ (3 \in Ahead(rest, 1)) <=> z > x
        /\ (1 \in Ahead(rest, 2)) <=> x >= y
        /\ (3 \in Ahead(rest, 2)) <=> z > y
        /\ (1 \in Ahead(rest, 3)) <=> x >= z
        /\ (2 \in Ahead(rest, 3)) <=> y >= z
    BY <1>0, <1>2 DEF Ahead
  <2>2. Cardinality(Ahead(rest, 1))
          = (IF 2 \in Ahead(rest, 1) THEN 1 ELSE 0) + (IF 3 \in Ahead(rest, 1) THEN 1 ELSE 0)
    BY <1>1, <1>2
  <2>3. Cardinality(Ahead(rest, 2))
          = (IF 1 \in Ahead(rest, 2) THEN 1 ELSE 0) + (IF 3 \in Ahead(rest, 2) THEN 1 ELSE 0)
    BY <1>1, <1>2
  <2>4. Cardinality(Ahead(rest, 3))
          = (IF 1 \in Ahead(rest, 3) THEN 1 ELSE 0) + (IF 2 \in Ahead(rest, 3) THEN 1 ELSE 0)
    BY <1>1, <1>2
  <2> HIDE DEF x, y, z
  <2> QED BY <2>1, <2>2, <2>3, <2>4
<1> DEFINE a == one[1]
           b == one[2]
           c == one[3]
<1>4. /\ a = IF (IF y > x THEN 1 ELSE 0) + (IF z > x THEN 1 ELSE 0) < left THEN 1 ELSE 0
      /\ b = IF (IF x >= y THEN 1 ELSE 0) + (IF z > y THEN 1 ELSE 0) < left THEN 1 ELSE 0
      /\ c = IF (IF x >= z THEN 1 ELSE 0) + (IF y >= z THEN 1 ELSE 0) < left THEN 1 ELSE 0
  BY <1>2, <1>3
<1>5. x \in Nat /\ y \in Nat /\ z \in Nat
  BY <1>0
<1> HIDE DEF x, y, z, a, b, c
<1>6. a + b + c = left
  BY <1>4, <1>5
<1>7. left = 1 => /\ a = 1 => y <= x /\ z <= x
                  /\ b = 1 => x <= y /\ z <= y
                  /\ c = 1 => x <= z /\ y <= z
  BY <1>4, <1>5
<1>8. left = 2 => /\ a = 1 => y <= x \/ z <= x
                  /\ b = 1 => x <= y \/ z <= y
                  /\ c = 1 => x <= z \/ y <= z
  BY <1>4, <1>5
<1>9. x <= x /\ y <= y /\ z <= z
  BY <1>5
<1>10. left = 1 => \A m \in Trio : one[m] = 1 => \A d \in Trio : rest[d] <= rest[m]
  BY <1>2, <1>7, <1>9 DEF x, y, z, a, b, c
<1>11. ASSUME left = 2, NEW m \in Trio, one[m] = 1
       PROVE  \E e \in Trio : e # m /\ \A d \in Trio : d # e => rest[d] <= rest[m]
  <2>1. CASE m = 1
    <3>1. rest[2] <= rest[1] \/ rest[3] <= rest[1]
      BY <1>8, <1>11, <2>1 DEF x, y, z, a
    <3> QED BY <1>2, <1>9, <2>1, <3>1 DEF x
  <2>2. CASE m = 2
    <3>1. rest[1] <= rest[2] \/ rest[3] <= rest[2]
      BY <1>8, <1>11, <2>2 DEF x, y, z, b
    <3> QED BY <1>2, <1>9, <2>2, <3>1 DEF y
  <2>3. CASE m = 3
    <3>1. rest[1] <= rest[3] \/ rest[2] <= rest[3]
      BY <1>8, <1>11, <2>3 DEF x, y, z, c
    <3> QED BY <1>2, <1>9, <2>3, <3>1 DEF z
  <2> QED BY <1>2, <2>1, <2>2, <2>3
<1> QED BY <1>6, <1>10, <1>11 DEF a, b, c

\* What rounding down leaves over is at most two partitions.
LEMMA LeftOver ==
  ASSUME NEW T \in 3 .. 9, NEW n \in Nat, NEW Q \in Nat, NEW R \in 0 .. 3 * (T - 1),
         n * T = Q * T + R
  PROVE  n - Q \in 0 .. 2 /\ (n - Q) * T = R
<1>1. T = 3 \/ T = 4 \/ T = 5 \/ T = 6 \/ T = 7 \/ T = 8 \/ T = 9
  OBVIOUS
<1>2. CASE T = 3
  BY <1>2
<1>3. CASE T = 4
  BY <1>3
<1>4. CASE T = 5
  BY <1>4
<1>5. CASE T = 6
  BY <1>5
<1>6. CASE T = 7
  BY <1>6
<1>7. CASE T = 8
  BY <1>7
<1>8. CASE T = 9
  BY <1>8
<1> QED BY <1>1, <1>2, <1>3, <1>4, <1>5, <1>6, <1>7, <1>8

\* A product by a small total, spelled out.
LEMMA Spread ==
  ASSUME NEW T \in 3 .. 9, NEW a \in Int, NEW b \in Int, NEW c \in Int
  PROVE  /\ (a + b + c) * T = a * T + b * T + c * T
         /\ (a + 1) * T = a * T + T /\ a * T \in Int
<1>1. T = 3 \/ T = 4 \/ T = 5 \/ T = 6 \/ T = 7 \/ T = 8 \/ T = 9
  OBVIOUS
<1> QED BY <1>1

\* Every partition is given out, and nobody is a whole partition off its due.
LEMMA WeightsPromise ==
  ASSUME Weights
  PROVE  Groups!WeightsAreFair
<1> DEFINE w == obj.weights
           n == obj.n
           T == w[1] + w[2] + w[3]
           base == [c \in Trio |-> (n * w[c]) \div T]
           rest == [c \in Trio |-> (n * w[c]) % T]
           left == n - (base[1] + base[2] + base[3])
           one == [c \in Trio |-> IF Cardinality(Ahead(rest, c)) < left THEN 1 ELSE 0]
           share == [c \in Trio |-> base[c] + (IF Cardinality(Ahead(rest, c)) < left THEN 1 ELSE 0)]
<1>1. w \in [Trio -> 1 .. 3] /\ n \in 0 .. 5
  BY DEF Weights
<1>2. 1 \in Trio /\ 2 \in Trio /\ 3 \in Trio /\ \A m \in Trio : m = 1 \/ m = 2 \/ m = 3
  BY DEF Trio
<1>3. T \in 3 .. 9 /\ T \in Nat \ {0} /\ \A c \in Trio : w[c] \in 1 .. 3
  <2>1. w[1] \in 1 .. 3 /\ w[2] \in 1 .. 3 /\ w[3] \in 1 .. 3
    BY <1>1, <1>2
  <2> QED BY <1>1, <2>1
<1>4. ASSUME NEW c \in Trio
      PROVE  /\ n * w[c] \in Nat
             /\ base[c] \in Nat /\ rest[c] \in 0 .. T - 1
             /\ n * w[c] = base[c] * T + rest[c]
  <2>1. n * w[c] \in Nat
    <3>1. w[c] = 1 \/ w[c] = 2 \/ w[c] = 3
      BY <1>3
    <3> HIDE DEF w, n
    <3> QED BY <1>1, <3>1
  <2>2. base[c] = (n * w[c]) \div T /\ rest[c] = (n * w[c]) % T
    OBVIOUS
  <2> HIDE DEF base, rest, w, n, T
  <2> QED BY <1>3, <2>1, <2>2, Division
<1>5. base \in [Trio -> Int] /\ rest \in [Trio -> Nat]
  <2>1. \A c \in Trio : base[c] \in Int /\ rest[c] \in Nat
    <3> HIDE DEF w, n, base, rest
    <3> QED BY <1>3, <1>4
  <2>2. base = [c \in Trio |-> base[c]] /\ rest = [c \in Trio |-> rest[c]]
    OBVIOUS
  <2> HIDE DEF base, rest
  <2> QED BY <2>1, <2>2
<1>6. left \in 0 .. 2 /\ left * T = rest[1] + rest[2] + rest[3]
  <2> DEFINE Q == base[1] + base[2] + base[3]
             R == rest[1] + rest[2] + rest[3]
  <2>1. n * T = n * w[1] + n * w[2] + n * w[3]
    <3>1. n = 0 \/ n = 1 \/ n = 2 \/ n = 3 \/ n = 4 \/ n = 5
      BY <1>1
    <3>2. w[1] \in Int /\ w[2] \in Int /\ w[3] \in Int
      BY <1>2, <1>3
    <3> HIDE DEF w, n
    <3> QED BY <3>1, <3>2
  <2>2. /\ base[1] \in Nat /\ base[2] \in Nat /\ base[3] \in Nat
        /\ rest[1] \in 0 .. T - 1 /\ rest[2] \in 0 .. T - 1 /\ rest[3] \in 0 .. T - 1
        /\ n * w[1] = base[1] * T + rest[1]
        /\ n * w[2] = base[2] * T + rest[2]
        /\ n * w[3] = base[3] * T + rest[3]
    <3> HIDE DEF base, rest, w, n, T
    <3> QED BY <1>2, <1>4
  <2> HIDE DEF base, rest, w, n, T
  <2>3. Q * T = base[1] * T + base[2] * T + base[3] * T
    BY <1>3, <2>2, Spread
  <2>4. base[1] * T \in Int /\ base[2] * T \in Int /\ base[3] * T \in Int
    BY <1>3, <2>2, Spread
  <2>5. Q \in Nat /\ R \in 0 .. 3 * (T - 1)
    BY <1>3, <2>2
  <2>6. n * T = Q * T + R
    <3> DEFINE x == base[1] * T
               y == base[2] * T
               z == base[3] * T
    <3>1. n * T = (x + rest[1]) + (y + rest[2]) + (z + rest[3]) /\ Q * T = x + y + z
      BY <2>1, <2>2, <2>3
    <3>2. x \in Int /\ y \in Int /\ z \in Int
      BY <2>4
    <3>3. rest[1] \in Int /\ rest[2] \in Int /\ rest[3] \in Int
      BY <1>3, <2>2
    <3> HIDE DEF x, y, z, Q
    <3> QED BY <3>1, <3>2, <3>3
  <2>7. n \in Nat
    BY <1>1
  <2> HIDE DEF Q, R
  <2>8. n - Q \in 0 .. 2 /\ (n - Q) * T = R
    BY <1>3, <2>5, <2>6, <2>7, LeftOver
  <2> QED BY <2>8 DEF Q, R
<1>7. one \in [Trio -> 0 .. 1]
      /\ \A c \in Trio : one[c] = IF Cardinality(Ahead(rest, c)) < left THEN 1 ELSE 0
  <2> HIDE DEF rest, left
  <2> QED OBVIOUS
<1>8. /\ one[1] + one[2] + one[3] = left
      /\ left = 1 => \A c \in Trio : one[c] = 1 => \A d \in Trio : rest[d] <= rest[c]
      /\ left = 2 => \A c \in Trio : one[c] = 1 =>
                       \E e \in Trio : e # c /\ \A d \in Trio : d # e => rest[d] <= rest[c]
  <2> HIDE DEF one, rest, left
  <2> QED BY <1>5, <1>6, <1>7, FirstOfThree
<1>9. \A c \in Trio : share[c] = base[c] + one[c]
  <2> HIDE DEF base, rest, left
  <2> QED OBVIOUS
<1>10. Groups!SumFunction(w) = T /\ Groups!SumFunction(base) = base[1] + base[2] + base[3]
  <2>1. w \in [Trio -> Int]
    BY <1>1
  <2> HIDE DEF w, base
  <2> QED BY <1>5, <2>1, SumOfAll
<1>11. Groups!Share(w, n) = share
  <2>1. Groups!MEMBERS = Trio
    BY DEF Groups!MEMBERS, Trio
  <2>2. Groups!Share(w, n)
          = [c \in Trio |-> base[c] + (IF Cardinality({d \in Trio :
               (n * w[d]) % T > (n * w[c]) % T
                 \/ ((n * w[d]) % T = (n * w[c]) % T /\ d < c)}) < left THEN 1 ELSE 0)]
    <3> HIDE DEF w, n
    <3> QED BY <1>10, <2>1, CareCount, Zenon DEF Groups!Share
  <2>3. ASSUME NEW c \in Trio
        PROVE  Ahead(rest, c) = {d \in Trio : (n * w[d]) % T > (n * w[c]) % T
                                   \/ ((n * w[d]) % T = (n * w[c]) % T /\ d < c)}
    <3> HIDE DEF w, n, T
    <3> QED BY DEF Ahead
  <2> HIDE DEF w, n, T, base, rest, left
  <2> QED BY <2>2, <2>3
<1>12. Groups!SumFunction(share) = n
  <2>1. share[1] = base[1] + one[1] /\ share[2] = base[2] + one[2] /\ share[3] = base[3] + one[3]
    <3> HIDE DEF share, base, one
    <3> QED BY <1>2, <1>9
  <2>2. \A c \in Trio : base[c] \in Int /\ one[c] \in Int
    <3> HIDE DEF base, one
    <3> QED BY <1>5, <1>7
  <2>3. share \in [Trio -> Int]
    <3>1. share = [c \in Trio |-> share[c]]
      OBVIOUS
    <3> HIDE DEF share, base, one
    <3>2. \A c \in Trio : share[c] \in Int
      BY <1>9, <2>2
    <3> QED BY <3>1, <3>2
  <2>4. Groups!SumFunction(share) = share[1] + share[2] + share[3]
    <3> HIDE DEF share
    <3> QED BY <2>3, SumOfAll
  <2>5. n \in Int
    BY <1>1
  <2>6. left = n - (base[1] + base[2] + base[3])
    OBVIOUS
  <2>7. /\ base[1] \in Int /\ base[2] \in Int /\ base[3] \in Int
        /\ one[1] \in Int /\ one[2] \in Int /\ one[3] \in Int
    <3> HIDE DEF base, one
    <3> QED BY <1>2, <2>2
  <2> HIDE DEF base, one, share, left, n
  <2>8. one[1] + one[2] + one[3] = left
    BY <1>8
  <2>9. share[1] + share[2] + share[3] = n
    <3> DEFINE p == base[1]
               q == base[2]
               r == base[3]
               i == one[1]
               j == one[2]
               k == one[3]
    <3>1. /\ p \in Int /\ q \in Int /\ r \in Int /\ i \in Int /\ j \in Int /\ k \in Int
          /\ i + j + k = n - (p + q + r)
          /\ share[1] = p + i /\ share[2] = q + j /\ share[3] = r + k
      BY <2>1, <2>6, <2>7, <2>8
    <3> HIDE DEF p, q, r, i, j, k
    <3> QED BY <2>5, <3>1
  <2> QED BY <2>4, <2>9
<1>13. ASSUME NEW c \in Trio
       PROVE  share[c] * T < n * w[c] + T /\ share[c] * T > n * w[c] - T
  <2>1. n * w[c] = base[c] * T + rest[c] /\ base[c] \in Int /\ n * w[c] \in Int
        /\ base[c] * T \in Int /\ rest[c] \in 0 .. T - 1 /\ T \in Int
    <3>1. n * w[c] \in Nat /\ base[c] \in Nat /\ rest[c] \in 0 .. T - 1
          /\ n * w[c] = base[c] * T + rest[c]
      BY <1>4
    <3> HIDE DEF w, n, T, base, rest
    <3> QED BY <1>3, <3>1, Spread
  <2>2. share[c] = base[c] + one[c] /\ one[c] \in 0 .. 1
    <3> HIDE DEF share, base, one
    <3> QED BY <1>7, <1>9
  <2>3. \A d \in Trio : rest[d] \in 0 .. T - 1
    BY <1>4
  <2> HIDE DEF share, base, one, rest, left, T, w, n
  <2>4. one[c] = 1 => rest[c] > 0
    <3> SUFFICES ASSUME one[c] = 1 PROVE rest[c] > 0
      OBVIOUS
    <3>1. left = 0 \/ left = 1 \/ left = 2
      BY <1>6
    <3>2. rest[1] \in 0 .. T - 1 /\ rest[2] \in 0 .. T - 1 /\ rest[3] \in 0 .. T - 1
      BY <1>2, <2>3
    <3>3. CASE left = 0
      <4>1. one[1] \in 0 .. 1 /\ one[2] \in 0 .. 1 /\ one[3] \in 0 .. 1
        BY <1>2, <1>7
      <4>2. one[1] = 0 /\ one[2] = 0 /\ one[3] = 0
        BY <1>8, <3>3, <4>1
      <4> QED BY <1>2, <4>2
    <3>4. CASE left = 1
      <4>1. rest[1] <= rest[c] /\ rest[2] <= rest[c] /\ rest[3] <= rest[c]
        BY <1>2, <1>8, <3>4
      <4>2. rest[1] + rest[2] + rest[3] = T
        BY <1>3, <1>6, <3>4
      <4> QED BY <1>3, <2>1, <3>2, <4>1, <4>2
    <3>5. CASE left = 2
      <4>1. PICK e \in Trio : e # c /\ \A d \in Trio : d # e => rest[d] <= rest[c]
        BY <1>8, <3>5
      <4>2. rest[1] + rest[2] + rest[3] = T + T
        BY <1>3, <1>6, <3>5
      <4>3. CASE e = 1
        <5>1. rest[2] <= rest[c] /\ rest[3] <= rest[c]
          BY <1>2, <4>1, <4>3
        <5> QED BY <1>3, <2>1, <3>2, <4>2, <5>1
      <4>4. CASE e = 2
        <5>1. rest[1] <= rest[c] /\ rest[3] <= rest[c]
          BY <1>2, <4>1, <4>4
        <5> QED BY <1>3, <2>1, <3>2, <4>2, <5>1
      <4>5. CASE e = 3
        <5>1. rest[1] <= rest[c] /\ rest[2] <= rest[c]
          BY <1>2, <4>1, <4>5
        <5> QED BY <1>3, <2>1, <3>2, <4>2, <5>1
      <4> QED BY <1>2, <4>3, <4>4, <4>5
    <3> QED BY <3>1, <3>3, <3>4, <3>5
  <2>5. CASE one[c] = 0
    <3>1. share[c] = base[c]
      BY <2>1, <2>2, <2>5
    <3> DEFINE x == base[c] * T
               y == n * w[c]
    <3>2. x \in Int /\ y \in Int /\ y = x + rest[c] /\ share[c] * T = x
      BY <2>1, <3>1
    <3> HIDE DEF x, y
    <3>3. share[c] * T < y + T /\ share[c] * T > y - T
      BY <2>1, <3>2
    <3> QED BY <3>3 DEF y
  <2>6. CASE one[c] = 1
    <3>1. share[c] = base[c] + 1
      BY <2>1, <2>2, <2>6
    <3> DEFINE x == base[c] * T
               y == n * w[c]
    <3>2. x \in Int /\ y \in Int /\ y = x + rest[c] /\ share[c] * T = x + T
      BY <1>3, <2>1, <3>1, Spread
    <3> HIDE DEF x, y
    <3>3. share[c] * T < y + T /\ share[c] * T > y - T
      BY <2>1, <2>4, <2>6, <3>2
    <3> QED BY <3>3 DEF y
  <2> QED BY <2>2, <2>5, <2>6
<1> HIDE DEF share, T
<1>14. Groups!MEMBERS = Trio
  BY DEF Groups!MEMBERS, Trio
<1> QED BY <1>10, <1>11, <1>12, <1>13, <1>14 DEF Groups!WeightsAreFair

\* Any weights and any number of partitions.
LEMMA WeightsStart ==
  ASSUME Groups!WeightsInit PROVE Weights
BY DEF Groups!WeightsInit, Groups!MEMBERS, Weights, Trio

----------------------------------------------------------------------------
\* A group is one of the four at a time.
CareInv == Coop \/ Offsets \/ Delay \/ Weights

\* Which of the four it is.
LEMMA CareClass ==
  /\ Coop => obj.class = "coop"
  /\ Offsets => obj.class = "offsets"
  /\ Delay => obj.class = "delay"
  /\ Weights => obj.class = "weights"
BY DEF Coop, CoopRecord, Offsets, OffsetsRecord, Delay, DelayRecord, Weights

\* A group that is new.
LEMMA CareStarts ==
  ASSUME CareConstants, Groups!Init PROVE CareInv
BY CoopStart, OffsetsStart, DelayStart, WeightsStart DEF Groups!Init, CareInv

\* Every step keeps a group sound.
LEMMA CareSteps ==
  ASSUME CareConstants, CareInv, [Groups!Next]_obj PROVE CareInv'
<1>1. CASE Groups!CoopNext
  <2>1. obj.class = "coop"
    <3>1. CASE Groups!CoopTick \/ Groups!Sweep \/ Groups!Plan
      BY <3>1, Zenon DEF Groups!CoopTick, Groups!Sweep, Groups!Plan
    <3>2. CASE Groups!RevokePhase \/ Groups!AssignPhase
      BY <3>2, Zenon DEF Groups!RevokePhase, Groups!AssignPhase
    <3>3. CASE \E m \in Groups!MEMBERS : Groups!Join(m) \/ Groups!Beat(m)
      BY <3>3, Zenon DEF Groups!Join, Groups!Beat
    <3> QED BY <1>1, <3>1, <3>2, <3>3, Zenon DEF Groups!CoopNext
  <2>2. Coop
    BY <2>1, CareClass DEF CareInv
  <2> QED BY <1>1, <2>2, CoopStep DEF CareInv
<1>2. CASE Groups!OffsetsNext
  <2>1. obj.class = "offsets"
    <3>1. CASE Groups!ResumeOrReset \/ Groups!AdvancePosition \/ Groups!SendCommit
      BY <3>1, Zenon DEF Groups!ResumeOrReset, Groups!AdvancePosition, Groups!SendCommit
    <3>2. CASE Groups!TakeOver \/ Groups!OffsetsTick \/ Groups!ExpireOffset \/ Groups!DeleteOffset
      BY <3>2, Zenon
         DEF Groups!TakeOver, Groups!OffsetsTick, Groups!ExpireOffset, Groups!DeleteOffset
    <3>3. CASE \E s \in 1 .. 2 : Groups!Leave(s)
                 \/ \E type \in Groups!TYPES : Groups!JoinTyped(s, type)
      BY <3>3, Zenon DEF Groups!Leave, Groups!JoinTyped
    <3> QED BY <1>2, <3>1, <3>2, <3>3, Zenon DEF Groups!OffsetsNext
  <2>2. Offsets
    BY <2>1, CareClass DEF CareInv
  <2> QED BY <1>2, <2>2, OffsetsStep DEF CareInv
<1>3. CASE Groups!OnJoin \/ Groups!DelayTick
  <2>1. obj.class = "delay"
    BY <1>3 DEF Groups!OnJoin, Groups!DelayTick
  <2>2. Delay
    BY <2>1, CareClass DEF CareInv
  <2> QED BY <1>3, <2>2, DelayStep DEF CareInv
<1>4. CASE UNCHANGED obj
  BY <1>4 DEF CareInv, Coop, CoopRecord, Offsets, OffsetsRecord, Delay, DelayRecord, Weights
<1> QED BY <1>1, <1>2, <1>3, <1>4 DEF Groups!Next

\* The invariant says what the groups promise.
LEMMA CarePromises ==
  ASSUME CareConstants, CareInv PROVE Groups!GroupsAreSound
<1>1. CASE Coop
  <2>1. obj.class = "coop"
    BY <1>1, CareClass
  <2>2. Groups!CooperationIsExclusive
    BY <1>1, CoopPromise
  <2> QED BY <2>1, <2>2
          DEF Groups!GroupsAreSound, Groups!GroupsNeverSkip, Groups!DelayIsBounded,
              Groups!WeightsAreFair
<1>2. CASE Offsets
  <2>1. obj.class = "offsets"
    BY <1>2, CareClass
  <2>2. Groups!GroupsNeverSkip
    BY <1>2, OffsetsPromise
  <2> QED BY <2>1, <2>2
          DEF Groups!GroupsAreSound, Groups!CooperationIsExclusive, Groups!DelayIsBounded,
              Groups!WeightsAreFair
<1>3. CASE Delay
  <2>1. obj.class = "delay"
    BY <1>3, CareClass
  <2>2. Groups!DelayIsBounded
    BY <1>3, DelayPromise
  <2> QED BY <2>1, <2>2
          DEF Groups!GroupsAreSound, Groups!CooperationIsExclusive, Groups!GroupsNeverSkip,
              Groups!WeightsAreFair
<1>4. CASE Weights
  <2>1. obj.class = "weights"
    BY <1>4, CareClass
  <2>2. Groups!WeightsAreFair
    BY <1>4, WeightsPromise
  <2> QED BY <2>1, <2>2
          DEF Groups!GroupsAreSound, Groups!CooperationIsExclusive, Groups!GroupsNeverSkip,
              Groups!DelayIsBounded
<1> QED BY <1>1, <1>2, <1>3, <1>4 DEF CareInv

(***************************************************************************)
(* For any number of partitions, any timeouts, retries and delays, and     *)
(* over histories of any length: members that join, lapse and return       *)
(* during half-finished rebalances never share a partition and end with an *)
(* even share of all of them; a group resumes at or below what it has      *)
(* handled, whatever was retried, redirected, expired or deleted; joins    *)
(* cannot postpone a rebalance beyond its maximum; and weights are met to  *)
(* within one partition.                                                   *)
(***************************************************************************)
THEOREM GroupsStaySound ==
  ASSUME CareConstants
  PROVE  Groups!Init /\ [][Groups!Next]_obj => []GroupsAreSound
<1>1. Groups!Init => CareInv
  BY CareStarts
<1>2. CareInv /\ [Groups!Next]_obj => CareInv'
  BY CareSteps
<1>3. CareInv => GroupsAreSound
  BY CarePromises DEF GroupsAreSound
<1> QED BY <1>1, <1>2, <1>3, PTL
=============================================================================
