---------------------------- MODULE NaturalsOrder ----------------------------
(***************************************************************************)
(* Least and greatest elements of sets of naturals: what Min and Max of    *)
(* FiniteSetsExt, and least counterexamples, rest on in the proofs.  And   *)
(* counting: ranks, families of sets, remainders.                          *)
(***************************************************************************)
EXTENDS Integers, FiniteSetsExt, WellFoundedInduction, FunctionTheorems,
        FiniteSetTheorems, TLAPS

(***************************************************************************)
(* Every non-empty set of naturals has a least element.                    *)
(***************************************************************************)
LEMMA LeastNatural ==
  ASSUME NEW S \in SUBSET Nat, S # {}
  PROVE  \E x \in S : \A y \in S : x <= y
<1>1. PICK R : /\ IsWellFoundedOn(R, Nat)
               /\ \A x, y \in Nat : <<y, x>> \in R <=> y < x
  <2>1. IsWellFoundedOn(OpToRel(<, Nat), Nat)
    BY NatLessThanWellFounded
  <2>2. \A x, y \in Nat : <<y, x>> \in OpToRel(<, Nat) <=> y < x
    BY DEF OpToRel
  <2> QED BY <2>1, <2>2, Zenon
<1>2. \E x \in S : \A y \in S : ~ (<<y, x>> \in R)
  BY <1>1, WFMin
<1>3. \A x, y \in S : ~ (<<y, x>> \in R) => x <= y
  BY <1>1
<1> QED BY <1>2, <1>3

\* Min of a non-empty set of naturals is in it, and no element is below.
LEMMA MinOfNaturals ==
  ASSUME NEW S \in SUBSET Nat, S # {}
  PROVE  Min(S) \in S /\ \A y \in S : Min(S) <= y
<1>1. \E x \in S : \A y \in S : x <= y
  BY LeastNatural
<1> QED BY <1>1, Zenon DEF Min

\* Max of a non-empty, bounded set of naturals is in it, and no element is above.
LEMMA MaxOfNaturals ==
  ASSUME NEW S \in SUBSET Nat, S # {}, NEW b \in Nat, \A y \in S : y <= b
  PROVE  Max(S) \in S /\ \A y \in S : y <= Max(S)
<1> DEFINE Above == {u \in Nat : \A y \in S : y <= u}
<1>1. PICK u \in Above : \A v \in Above : u <= v
  <2>1. Above \in SUBSET Nat /\ b \in Above
    OBVIOUS
  <2> HIDE DEF Above
  <2> QED BY <2>1, LeastNatural
<1>2. u \in S
  <2> SUFFICES ASSUME u \notin S PROVE FALSE
    OBVIOUS
  <2>1. PICK s \in S : TRUE
    OBVIOUS
  <2>2. u \in Nat /\ \A y \in S : y < u
    BY <1>1
  <2>3. u - 1 \in Above
    BY <2>1, <2>2
  <2> QED BY <1>1, <2>2, <2>3
<1>3. \E x \in S : \A y \in S : x >= y
  BY <1>1, <1>2
<1>4. Max(S) \in S /\ \A y \in S : Max(S) >= y
  BY <1>3, Zenon DEF Max
<1> QED BY <1>4
----------------------------------------------------------------------------
\* How many elements of S are below x.
Rank(S, x) == Cardinality({o \in S : o < x})

(***************************************************************************)
(* Ranks in a finite set are its first naturals, in the order of the set.  *)
(***************************************************************************)
LEMMA RankOrders ==
  ASSUME NEW S \in SUBSET Nat, IsFiniteSet(S)
  PROVE  /\ \A x \in S : Rank(S, x) \in 0 .. Cardinality(S) - 1
         /\ \A x, y \in S : x < y => Rank(S, x) < Rank(S, y)
         /\ \A x, y \in S : Rank(S, x) = Rank(S, y) => x = y
<1>1. ASSUME NEW x \in S
      PROVE  Rank(S, x) \in 0 .. Cardinality(S) - 1
  <2> DEFINE L == {o \in S : o < x}
  <2>1. L \in SUBSET S /\ x \in S \ L
    OBVIOUS
  <2>2. /\ IsFiniteSet(L) /\ Cardinality(L) <= Cardinality(S)
        /\ Cardinality(S) = Cardinality(L) => S = L
    BY <2>1, FS_Subset
  <2>3. Cardinality(L) \in Nat /\ Cardinality(S) \in Nat
    BY <2>2, FS_CardinalityType
  <2>4. Rank(S, x) = Cardinality(L)
    BY DEF Rank
  <2> HIDE DEF L
  <2> QED BY <2>1, <2>2, <2>3, <2>4
<1>2. ASSUME NEW x \in S, NEW y \in S, x < y
      PROVE  Rank(S, x) < Rank(S, y)
  <2> DEFINE L == {o \in S : o < x}
             H == {o \in S : o < y}
  <2>1. \A o \in S : o < x => o < y
    BY <1>2
  <2>12. L \in SUBSET H /\ x \in H \ L
    <3>1. ~(x < x)
      OBVIOUS
    <3> QED BY <1>2, <2>1, <3>1
  <2>2. IsFiniteSet(H)
    BY FS_Subset
  <2>3. /\ IsFiniteSet(L) /\ Cardinality(L) <= Cardinality(H)
        /\ Cardinality(H) = Cardinality(L) => H = L
    BY <2>12, <2>2, FS_Subset
  <2>4. Cardinality(L) \in Nat /\ Cardinality(H) \in Nat
    BY <2>2, <2>3, FS_CardinalityType
  <2>5. Rank(S, x) = Cardinality(L) /\ Rank(S, y) = Cardinality(H)
    BY DEF Rank
  <2> HIDE DEF L, H
  <2> QED BY <2>12, <2>3, <2>4, <2>5
<1>3. Cardinality(S) \in Nat
  BY FS_CardinalityType
<1>4. \A x, y \in S : Rank(S, x) = Rank(S, y) => x = y
  BY <1>1, <1>2, <1>3
<1> QED BY <1>1, <1>2, <1>4

\* Every natural below the size of a finite set is a rank in it.
LEMMA RankReaches ==
  ASSUME NEW S \in SUBSET Nat, IsFiniteSet(S)
  PROVE  \A j \in 0 .. Cardinality(S) - 1 : \E x \in S : Rank(S, x) = j
<1> DEFINE N == 0 .. Cardinality(S) - 1
           f == [x \in S |-> Rank(S, x)]
<1>1. f \in [S -> N] /\ \A x, y \in S : f[x] = f[y] => x = y
  BY RankOrders
<1>2. Cardinality(S) \in Nat
  BY FS_CardinalityType
<1>3. IsFiniteSet(N) /\ Cardinality(N) = Cardinality(S)
  <2> DEFINE c == Cardinality(S)
  <2> HIDE DEF c
  <2>1. c \in Nat => IsFiniteSet(0 .. c - 1) /\ Cardinality(0 .. c - 1) = c
    BY FS_Interval
  <2> QED BY <2>1, <1>2 DEF c
<1>4. \A x \in S : f[x] = Rank(S, x)
  OBVIOUS
<1> HIDE DEF f, N
<1>5. f \in Injection(S, N)
  BY <1>1, Fun_IsInj
<1>6. f \in Surjection(S, N)
  BY <1>3, <1>5, FS_Injection
<1>7. \A j \in N : \E x \in S : f[x] = j
  BY <1>6, Fun_SurjectionProperties
<1> QED BY <1>4, <1>7 DEF N

\* A finite set that is no larger than another can be mapped into it one to one.
LEMMA SmallerFitsInto ==
  ASSUME NEW A, NEW B, IsFiniteSet(A), IsFiniteSet(B), Cardinality(A) <= Cardinality(B)
  PROVE  \E f \in [A -> B] : \A x, y \in A : f[x] = f[y] => x = y
<1> DEFINE k == Cardinality(A)
           n == Cardinality(B)
<1>1. k \in Nat /\ n \in Nat /\ k <= n
  BY FS_CardinalityType
<1>2. PICK p : p \in Bijection(1 .. k, A)
  BY FS_CardinalityType, Fun_ExistsBij
<1>3. PICK q : q \in Bijection(1 .. n, B)
  BY FS_CardinalityType, Fun_ExistsBij
<1> HIDE DEF k, n
<1>4. p \in [1 .. k -> A] /\ \A y \in A : \E i \in 1 .. k : p[i] = y
  BY <1>2 DEF Bijection, Surjection
<1>5. q \in [1 .. n -> B] /\ \A i, j \in 1 .. n : q[i] = q[j] => i = j
  BY <1>3, Fun_BijectionProperties, Zenon
<1> DEFINE pos == [x \in A |-> CHOOSE i \in 1 .. k : p[i] = x]
           f   == [x \in A |-> q[pos[x]]]
<1>6. \A x \in A : pos[x] \in 1 .. k /\ p[pos[x]] = x
  BY <1>4
<1>7. \A x \in A : f[x] = q[pos[x]]
  OBVIOUS
<1> HIDE DEF pos
<1>8. \A x \in A : pos[x] \in 1 .. n
  BY <1>1, <1>6
<1>9. f \in [A -> B]
  BY <1>5, <1>8
<1> HIDE DEF f
<1>10. \A x, y \in A : f[x] = f[y] => x = y
  BY <1>5, <1>6, <1>7, <1>8
<1> QED BY <1>9, <1>10

(***************************************************************************)
(* When each member of a family that covers V is no larger than the one    *)
(* beside it in a family of disjoint subsets of U, V is no larger than U.  *)
(***************************************************************************)
LEMMA FamiliesCompare ==
  ASSUME NEW M, NEW V, NEW U, IsFiniteSet(V), IsFiniteSet(U),
         NEW a \in [M -> SUBSET V], NEW b \in [M -> SUBSET U],
         \A x \in V : \E m \in M : x \in a[m],
         \A m, k \in M : m # k => b[m] \cap b[k] = {},
         \A m \in M : Cardinality(a[m]) <= Cardinality(b[m])
  PROVE  Cardinality(V) <= Cardinality(U)
<1>1. \A m \in M : \E f \in [a[m] -> b[m]] : \A x, y \in a[m] : f[x] = f[y] => x = y
  BY FS_Subset, SmallerFitsInto, ZenonT(30)
<1> DEFINE own == [x \in V |-> CHOOSE m \in M : x \in a[m]]
           inj == [m \in M |-> CHOOSE f \in [a[m] -> b[m]] :
                                 \A x, y \in a[m] : f[x] = f[y] => x = y]
           g   == [x \in V |-> inj[own[x]][x]]
<1>2. \A x \in V : own[x] \in M /\ x \in a[own[x]]
  OBVIOUS
<1>3. \A m \in M : /\ inj[m] \in [a[m] -> b[m]]
                   /\ \A x, y \in a[m] : inj[m][x] = inj[m][y] => x = y
  BY <1>1
<1>4. \A x \in V : g[x] = inj[own[x]][x]
  OBVIOUS
<1> HIDE DEF own, inj
<1>5. \A x \in V : inj[own[x]][x] \in b[own[x]]
  BY <1>2, <1>3
<1>6. g \in [V -> U]
  BY <1>2, <1>5
<1> HIDE DEF g
<1>7. \A x, y \in V : g[x] = g[y] => x = y
  <2> SUFFICES ASSUME NEW x \in V, NEW y \in V, g[x] = g[y] PROVE x = y
    OBVIOUS
  <2>1. own[x] = own[y]
    BY <1>2, <1>4, <1>5
  <2> QED BY <2>1, <1>2, <1>3, <1>4
<1>8. g \in Injection(V, U)
  BY <1>6, <1>7, Fun_IsInj
<1> QED BY <1>8, FS_Injection
----------------------------------------------------------------------------
\* The next multiple of n is n away.
LEMMA Multiples ==
  ASSUME NEW n \in Nat \ {0}, NEW k \in Nat, NEW q \in Nat
  PROVE  /\ k * n \in Nat
         /\ k < q => k * n + n <= q * n
<1>1. ASSUME k < q
      PROVE  k * n + n <= q * n
  <2>1. PICK d \in Nat : q = k + 1 + d
    <3>1. q - k - 1 \in Nat /\ q = k + 1 + (q - k - 1)
      BY <1>1
    <3> QED BY <3>1
  <2>2. q * n = k * n + n + d * n
    BY <2>1
  <2>3. d * n \in Nat /\ k * n \in Nat
    OBVIOUS
  <2> QED BY <2>2, <2>3
<1> QED BY <1>1

\* Quotient and remainder.
LEMMA Division ==
  ASSUME NEW x \in Nat, NEW n \in Nat \ {0}
  PROVE  /\ x \div n \in Nat /\ x % n \in 0 .. n - 1
         /\ x = (x \div n) * n + (x % n)
OBVIOUS

\* There is one way only to write a natural as a multiple and a remainder.
LEMMA DivisionIsUnique ==
  ASSUME NEW n \in Nat \ {0}, NEW k \in Nat, NEW j \in 0 .. n - 1
  PROVE  (k * n + j) % n = j /\ (k * n + j) \div n = k
<1> DEFINE x == k * n + j
<1>1. x \in Nat /\ k * n \in Nat
  BY Multiples
<1>2. PICK d \in Nat, r \in 0 .. n - 1 : d = x \div n /\ r = x % n /\ x = d * n + r
  <2> HIDE DEF x
  <2> QED BY <1>1, Division
<1>3. d * n \in Nat
  BY Multiples
<1>4. ~(k < d) /\ ~(d < k)
  BY <1>1, <1>2, <1>3, Multiples
<1>5. k = d
  BY <1>4
<1> QED BY <1>1, <1>2, <1>5

(***************************************************************************)
(* Among the first c naturals, those with the remainder j: a fair share of *)
(* them, and one more for the first remainders when n does not divide c.   *)
(***************************************************************************)
LEMMA Remainders ==
  ASSUME NEW c \in Nat, NEW n \in Nat \ {0}, NEW j \in 0 .. n - 1
  PROVE  Cardinality({x \in 0 .. c - 1 : x % n = j})
           = c \div n + (IF j < c % n THEN 1 ELSE 0)
<1> DEFINE A == {x \in 0 .. c - 1 : x % n = j}
<1>1. PICK q \in Nat, r \in 0 .. n - 1 :
        q = c \div n /\ r = c % n /\ c = q * n + r
  BY Division
<1> DEFINE T == q + (IF j < r THEN 1 ELSE 0)
           f == [i \in 1 .. T |-> (i - 1) * n + j]
<1>2. T \in Nat
  OBVIOUS
<1>3. ASSUME NEW i \in 1 .. T
      PROVE  (i - 1) * n + j \in A
  <2>1. PICK k \in Nat : k = i - 1 /\ k < T
    <3>1. i - 1 \in Nat /\ i - 1 < T
      BY <1>2
    <3> QED BY <3>1
  <2>2. (k * n + j) % n = j
    BY DivisionIsUnique
  <2>3. k * n \in Nat /\ q * n \in Nat
    BY Multiples
  <2>4. CASE k < q
    <3>1. k * n + n <= q * n
      BY <2>4, Multiples
    <3>2. k * n + j \in 0 .. c - 1
      BY <3>1, <2>3, <1>1
    <3> QED BY <2>1, <2>2, <3>2
  <2>5. CASE k = q /\ j < r
    <3>1. k * n + j \in 0 .. c - 1
      BY <2>5, <2>3, <1>1
    <3> QED BY <2>1, <2>2, <3>1
  <2> QED BY <2>1, <2>4, <2>5
<1>4. ASSUME NEW x \in A
      PROVE  \E i \in 1 .. T : (i - 1) * n + j = x
  <2>1. PICK k \in Nat : x = k * n + j
    <3>1. x \in Nat /\ x % n = j
      OBVIOUS
    <3>2. x \div n \in Nat /\ x = (x \div n) * n + j
      BY <3>1, Division
    <3> QED BY <3>2
  <2>2. k * n \in Nat /\ q * n \in Nat
    BY Multiples
  <2>3. ~(q < k)
    <3>1. q < k => q * n + n <= k * n
      BY Multiples
    <3> QED BY <3>1, <2>1, <2>2, <1>1
  <2>4. k = q => j < r
    <3>1. x < c
      BY <1>1, <2>2
    <3> QED BY <3>1, <2>1, <2>2, <1>1
  <2>5. k + 1 \in 1 .. T /\ (k + 1) - 1 = k
    BY <2>3, <2>4, <1>2
  <2> QED BY <2>1, <2>5
<1>5. \A i, o \in 1 .. T : (i - 1) * n + j = (o - 1) * n + j => i = o
  <2> SUFFICES ASSUME NEW i \in 1 .. T, NEW o \in 1 .. T,
                      (i - 1) * n + j = (o - 1) * n + j
               PROVE  i = o
    OBVIOUS
  <2>1. i - 1 \in Nat /\ o - 1 \in Nat
    BY <1>2
  <2>2. i - 1 = o - 1
    BY <2>1, DivisionIsUnique
  <2> QED BY <2>1, <2>2, <1>2
<1>6. f \in Bijection(1 .. T, A)
  <2>1. f \in [1 .. T -> A] /\ \A i \in 1 .. T : f[i] = (i - 1) * n + j
    BY <1>3
  <2> HIDE DEF f, A, T
  <2>2. \A i, o \in 1 .. T : f[i] = f[o] => i = o
    BY <2>1, <1>5
  <2>3. \A x \in A : \E i \in 1 .. T : f[i] = x
    BY <2>1, <1>4
  <2> QED BY <2>1, <2>2, <2>3, Fun_IsBij, Zenon
<1> HIDE DEF f, A, T
<1>7. ExistsBijection(1 .. T, A)
  BY <1>6, Fun_ExistsBij
<1>8. Cardinality(A) = T
  BY <1>2, <1>7, FS_CountingElements
<1> QED BY <1>1, <1>8 DEF A, T

\* Two subsets too large for their union meet.
LEMMA LargeSetsMeet ==
  ASSUME NEW U, IsFiniteSet(U), NEW q \in SUBSET U, NEW s \in SUBSET U,
         Cardinality(q) + Cardinality(s) > Cardinality(U)
  PROVE  q \cap s # {}
<1> SUFFICES ASSUME q \cap s = {} PROVE FALSE
  OBVIOUS
<1>1. IsFiniteSet(q) /\ IsFiniteSet(s)
  BY FS_Subset
<1>2. Cardinality(q \cup s) = Cardinality(q) + Cardinality(s) - Cardinality(q \cap s)
  BY <1>1, FS_Union
<1>3. Cardinality(q \cap s) = 0
  BY FS_EmptySet
<1>4. q \cup s \in SUBSET U
  OBVIOUS
<1>5. Cardinality(q \cup s) <= Cardinality(U)
  BY <1>4, FS_Subset
<1>6. Cardinality(q) \in Nat /\ Cardinality(s) \in Nat /\ Cardinality(U) \in Nat
      /\ Cardinality(q \cup s) \in Nat
  BY <1>1, <1>4, FS_Subset, FS_CardinalityType
<1> QED BY <1>2, <1>3, <1>5, <1>6
=============================================================================
