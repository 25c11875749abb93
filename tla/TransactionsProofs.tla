------------------------- MODULE TransactionsProofs -------------------------
(***************************************************************************)
(* What a read-committed consumer is shown, proved for every number of     *)
(* producers, partitions, transactions, writes, instances and crashes.     *)
(*                                                                         *)
(* The invariants of Transactions speak of the log, the aborted index, the *)
(* verdicts and the consumer at once, and none is inductive.  IInv says    *)
(* instead what each partition's log l knows of each id t, in predicates   *)
(* whose arguments are the parts of the state they depend on: a step that  *)
(* leaves those parts alone leaves the predicate alone.                    *)
(***************************************************************************)
EXTENDS Transactions, NaturalsOrder, TLAPS

\* The entries of a log.
Entry == [id : Id, n : 1 .. MaxTxns, kind : {"data", "commit", "abort"}]

\* The states of a transaction.
TxnState == {"open", "committing", "committed", "aborting", "aborted"}

\* What the coordinator knows of an id.
Txn == [n : 0 .. MaxTxns, state : TxnState, touched : SUBSET Partition]

\* The indexes of t's entries of one kind, of its m-th transaction.
At(l, t, m, k) == {i \in 1 .. Len(l) : l[i].id = t /\ l[i].n = m /\ l[i].kind = k}

\* The indexes of the m-th transaction's records.
Data(l, t, m) == At(l, t, m, "data")

\* The m-th transaction has a marker in the log.
Marked(l, t, m) == At(l, t, m, "commit") # {} \/ At(l, t, m, "abort") # {}

\* The types of the state.
Types ==
  /\ txn \in [Id -> Txn]
  /\ written \in [Id -> SUBSET Partition]
  /\ log \in [Partition -> Seq(Entry)]
  /\ open_at \in [Partition -> [Id -> Nat \cup {None}]]
  /\ aborted \in [Partition -> SUBSET [id : Id, first : Nat, last : Nat]]
  /\ cursor \in [Partition -> Nat]
  /\ delivered \in [Partition -> SUBSET Nat]
  /\ outcome \in [Id -> [1 .. MaxTxns -> {"committing", "aborting", None}]]

\* Which verdicts are given, x being the id's latest transaction and w its written markers.
Judged(x, w, out) ==
  /\ x.state \in {"open", "committing", "aborting"} \/ x.touched # {} => x.n \in 1 .. MaxTxns
  /\ x.state = "open" => w = {}
  /\ \A m \in 1 .. MaxTxns :
       /\ m > x.n \/ (m = x.n /\ x.state = "open") => out[m] = None
       /\ m = x.n /\ x.state \in {"committing", "committed"} => out[m] = "committing"
       /\ m = x.n /\ x.state = "aborting" => out[m] = "aborting"

\* The log holds entries of transactions begun, on the partitions they touched.
Current(l, p, t, x) ==
  /\ \A m \in 1 .. MaxTxns : \A k \in {"data", "commit", "abort"} : At(l, t, m, k) # {} =>
       m <= x.n /\ (m = x.n => p \in x.touched)
  /\ p \in x.touched => Data(l, t, x.n) # {}
  /\ x.state = "open" => ~Marked(l, t, x.n)

\* An id's transactions follow one another, each one's markers after its records.
Sequential(l, t) ==
  \A m \in 1 .. MaxTxns : \A i \in Data(l, t, m) :
    /\ \A k \in {"commit", "abort"} : \A j \in At(l, t, m, k) : i < j
    /\ \A m2 \in 1 .. MaxTxns : \A j \in Data(l, t, m2) : m < m2 => i < j

\* A transaction that is over, or whose marker the coordinator has written, is marked.
Settled(l, p, t, x, w) ==
  \A m \in 1 .. MaxTxns :
    /\ Data(l, t, m) # {}
    /\ m < x.n \/ x.state \in {"committed", "aborted"} \/ p \in w
    => Marked(l, t, m)

\* The records of a transaction without marker lie above the offset it is open at.
Withheld(l, t, at) ==
  /\ at # None => at \in Nat /\ at <= Len(l)
  /\ \A m \in 1 .. MaxTxns : ~Marked(l, t, m) =>
       \A i \in Data(l, t, m) : at # None /\ at < i

\* The markers tell the verdict.
Truthful(l, t, out) ==
  \A m \in 1 .. MaxTxns :
    /\ At(l, t, m, "commit") # {} => out[m] = "committing"
    /\ At(l, t, m, "abort") # {} => out[m] = "aborting"

\* An entry of the aborted index takes in the record with index i.
Covers(e, t, i) == e.id = t /\ e.first < i /\ i <= e.last + 1

\* The aborted index takes in the records of the transactions marked aborted, no others.
Indexed(l, t, ab) ==
  \A m \in 1 .. MaxTxns : \A i \in Data(l, t, m) :
    At(l, t, m, "abort") # {} <=> \E e \in ab : Covers(e, t, i)

\* Its entries lie inside the log.
Inside(l, ab) == \A e \in ab : e.last < Len(l)

\* The consumer has read marked records only, and has been handed the committed ones.
Consumed(l, t, c, d) ==
  \A m \in 1 .. MaxTxns : \A i \in Data(l, t, m) :
    /\ i <= c => Marked(l, t, m)
    /\ i - 1 \in d => i <= c /\ At(l, t, m, "commit") # {}
    /\ i <= c /\ At(l, t, m, "commit") # {} => i - 1 \in d

\* It stays within the log, and is handed records, never markers.
Reading(l, c, d) ==
  /\ c <= Len(l)
  /\ \A o \in d : o + 1 \in 1 .. Len(l) /\ l[o + 1].kind = "data"

\* What partition p's log knows of t.
Known(l, p, t, x, w, at, out, ab, c, d) ==
  /\ Current(l, p, t, x)
  /\ Sequential(l, t)
  /\ Settled(l, p, t, x, w)
  /\ Withheld(l, t, at)
  /\ Truthful(l, t, out)
  /\ Indexed(l, t, ab)
  /\ Consumed(l, t, c, d)

(***************************************************************************)
(* The inductive invariant.                                                *)
(***************************************************************************)
IInv ==
  /\ Types
  /\ \A t \in Id : Judged(txn[t], written[t], outcome[t])
  /\ \A p \in Partition : /\ Inside(log[p], aborted[p])
                          /\ Reading(log[p], cursor[p], delivered[p])
  /\ \A p \in Partition : \A t \in Id :
       Known(log[p], p, t, txn[t], written[t], open_at[p][t], outcome[t],
             aborted[p], cursor[p], delivered[p])
----------------------------------------------------------------------------
(***************************************************************************)
(* What an append does to the entries of each id, transaction and kind.    *)
(***************************************************************************)
LEMMA AtInside ==
  ASSUME NEW l \in Seq(Entry), NEW t, NEW m, NEW k
  PROVE  At(l, t, m, k) \subseteq 1 .. Len(l)
BY DEF At

\* What an appended log holds.
LEMMA Grown ==
  ASSUME NEW l \in Seq(Entry), NEW r \in Entry
  PROVE  /\ Append(l, r) \in Seq(Entry)
         /\ Len(l) \in Nat /\ Len(Append(l, r)) = Len(l) + 1
         /\ \A i \in 1 .. Len(l) : Append(l, r)[i] = l[i]
         /\ Append(l, r)[Len(l) + 1] = r
OBVIOUS

\* What an append adds to the indexes.
LEMMA AtGrown ==
  ASSUME NEW l \in Seq(Entry), NEW r \in Entry, NEW t, NEW m, NEW k
  PROVE  At(Append(l, r), t, m, k) =
           IF r.id = t /\ r.n = m /\ r.kind = k THEN At(l, t, m, k) \cup {Len(l) + 1}
           ELSE At(l, t, m, k)
BY Grown DEF At
----------------------------------------------------------------------------
\* The start: empty logs and no transaction.
LEMMA InitIInv == Init => IInv
<1> SUFFICES ASSUME Init PROVE IInv
  OBVIOUS
<1> USE TransactionsAssumption
<1>1. \A t, m, k : At(<<>>, t, m, k) = {}
  BY DEF At
<1>2. Types
  BY DEF Init, Types, Txn, TxnState
<1>3. \A t \in Id : Judged(txn[t], written[t], outcome[t])
  BY DEF Init, Judged
<1>4. ASSUME NEW p \in Partition
      PROVE  Inside(log[p], aborted[p]) /\ Reading(log[p], cursor[p], delivered[p])
  BY DEF Init, Inside, Reading
<1>5. ASSUME NEW p \in Partition, NEW t \in Id
      PROVE  Known(log[p], p, t, txn[t], written[t], open_at[p][t], outcome[t],
                   aborted[p], cursor[p], delivered[p])
  <2>1. log[p] = <<>> /\ open_at[p][t] = None /\ txn[t].touched = {} /\ txn[t].state = "aborted"
    BY DEF Init
  <2> QED
    BY <1>1, <2>1 DEF Known, Current, Sequential, Settled, Withheld, Truthful, Indexed, Consumed,
                      Data, Marked
<1> QED BY <1>2, <1>3, <1>4, <1>5 DEF IInv

\* A verdict on an open transaction, and nothing else.
LEMMA DecideIInv ==
  ASSUME IInv, NEW t \in Id, NEW v \in {"committing", "aborting"}, Undecided(t), Decide(t, v),
         UNCHANGED <<log, open_at, aborted, cursor, delivered>>
  PROVE  IInv'
<1> USE TransactionsAssumption
<1> DEFINE x == txn[t]
<1>1. /\ x \in Txn /\ x.state = "open" /\ x.n \in 1 .. MaxTxns
      /\ written'[t] = {}
      /\ outcome'[t] = [outcome[t] EXCEPT ![x.n] = v]
      /\ outcome[t] \in [1 .. MaxTxns -> {"committing", "aborting", None}]
      /\ \A u \in Id \ {t} : txn'[u] = txn[u] /\ written'[u] = written[u] /\ outcome'[u] = outcome[u]
  BY DEF IInv, Types, Judged, Undecided, Decide, Txn
<1>2. txn'[t].n = x.n /\ txn'[t].state = v /\ txn'[t].touched = x.touched /\ txn'[t] \in Txn
  BY <1>1 DEF IInv, Types, Decide, Txn, TxnState
<1>3. Types'
  BY <1>1, <1>2 DEF IInv, Types, Decide
<1>4. ASSUME NEW u \in Id
      PROVE  Judged(txn[u], written[u], outcome[u])'
  <2>1. CASE u # t
    BY <1>1, <2>1 DEF IInv
  <2>2. CASE u = t
    <3>1. Judged(x, written[t], outcome[t])
      BY DEF IInv
    <3> QED BY <1>1, <1>2, <2>2, <3>1 DEF Judged
  <2> QED BY <2>1, <2>2
<1>5. ASSUME NEW p \in Partition, NEW u \in Id
      PROVE  Known(log[p], p, u, txn[u], written[u], open_at[p][u], outcome[u],
                   aborted[p], cursor[p], delivered[p])'
  <2>0. Known(log[p], p, u, txn[u], written[u], open_at[p][u], outcome[u],
              aborted[p], cursor[p], delivered[p])
    BY DEF IInv
  <2>1. CASE u # t
    BY <1>1, <2>0, <2>1
  <2>2. CASE u = t
    BY <1>1, <1>2, <2>0, <2>2, SMTT(30) DEF Known, Current, Settled, Truthful, Marked, Data
  <2> QED BY <2>1, <2>2
<1> QED BY <1>3, <1>4, <1>5 DEF IInv

\* What the log knows of an id is not disturbed by an entry of another.
LEMMA OthersKept ==
  ASSUME NEW l \in Seq(Entry), NEW r \in Entry, NEW t, r.id # t, NEW p, NEW x, NEW w,
         NEW at \in Nat \cup {None}, NEW out, NEW ab, NEW c, NEW d,
         Known(l, p, t, x, w, at, out, ab, c, d)
  PROVE  Known(Append(l, r), p, t, x, w, at, out, ab, c, d)
<1> USE DEF Known
<1> DEFINE l2 == Append(l, r)
<1>1. Len(l) \in Nat /\ Len(l2) = Len(l) + 1
  BY Grown
<1>2. \A m, k : At(l2, t, m, k) = At(l, t, m, k)
  BY AtGrown
<1> HIDE DEF l2
<1>3. Current(l2, p, t, x)
  BY <1>2 DEF Current, Data, Marked
<1>4. Sequential(l2, t)
  BY <1>2 DEF Sequential, Data
<1>5. Settled(l2, p, t, x, w)
  BY <1>2 DEF Settled, Data, Marked
<1>6. Withheld(l2, t, at)
  BY <1>1, <1>2 DEF Withheld, Data, Marked
<1>7. Truthful(l2, t, out) /\ Indexed(l2, t, ab) /\ Consumed(l2, t, c, d)
  BY <1>2 DEF Truthful, Indexed, Consumed, Data, Marked
<1> QED BY <1>3, <1>4, <1>5, <1>6, <1>7 DEF l2

\* Nor is what it knows of the index and the consumer as a whole.
LEMMA LengthKept ==
  ASSUME NEW l \in Seq(Entry), NEW r \in Entry, NEW ab \in SUBSET [id : Id, first : Nat, last : Nat],
         NEW c \in Nat, NEW d \in SUBSET Nat, Inside(l, ab), Reading(l, c, d)
  PROVE  Inside(Append(l, r), ab) /\ Reading(Append(l, r), c, d)
<1> DEFINE l2 == Append(l, r)
<1>1. /\ Len(l) \in Nat /\ Len(l2) = Len(l) + 1
      /\ \A i \in 1 .. Len(l) : l2[i] = l[i]
  BY Grown
<1> HIDE DEF l2
<1>2. Inside(l2, ab)
  BY <1>1 DEF Inside
<1>3. Reading(l2, c, d)
  BY <1>1 DEF Reading
<1> QED BY <1>2, <1>3 DEF l2

\* The record of an open transaction.
LEMMA RecordKept ==
  ASSUME NEW l \in Seq(Entry), NEW t \in Id, NEW p, NEW x \in Txn, NEW x2 \in Txn, NEW out,
         NEW at \in Nat \cup {None}, NEW at2,
         NEW ab \in SUBSET [id : Id, first : Nat, last : Nat], NEW c \in Nat, NEW d \in SUBSET Nat,
         x.state = "open", x.n \in 1 .. MaxTxns,
         x2.n = x.n, x2.state = x.state, x2.touched = x.touched \cup {p},
         at2 = IF p \in x.touched THEN at ELSE Len(l),
         Inside(l, ab), Reading(l, c, d), Known(l, p, t, x, {}, at, out, ab, c, d)
  PROVE  Known(Append(l, [id |-> t, n |-> x.n, kind |-> "data"]), p, t, x2, {}, at2, out, ab, c, d)
<1> USE TransactionsAssumption DEF Known
<1> DEFINE r  == [id |-> t, n |-> x.n, kind |-> "data"]
           l2 == Append(l, r)
           e  == Len(l) + 1
<1>1. r \in Entry /\ r.id = t /\ r.n = x.n /\ r.kind = "data"
  BY DEF Entry
<1> HIDE DEF r
<1>2. /\ Len(l) \in Nat /\ Len(l2) = e /\ e \in Nat
      /\ \A m, k : At(l, t, m, k) \subseteq 1 .. Len(l)
      /\ \A m, k : At(l2, t, m, k) =
           IF m = x.n /\ k = "data" THEN At(l, t, m, k) \cup {e} ELSE At(l, t, m, k)
  <2>1. Len(l) \in Nat /\ Len(l2) = e /\ e \in Nat
    BY <1>1, Grown
  <2>2. \A m, k : At(l, t, m, k) \subseteq 1 .. Len(l)
    BY AtInside
  <2>3. \A m, k : At(l2, t, m, k) =
           IF m = x.n /\ k = "data" THEN At(l, t, m, k) \cup {e} ELSE At(l, t, m, k)
    BY <1>1, AtGrown
  <2> QED BY <2>1, <2>2, <2>3
<1>3. /\ \A m : Marked(l2, t, m) <=> Marked(l, t, m)
      /\ \A m : Data(l2, t, m) = IF m = x.n THEN Data(l, t, m) \cup {e} ELSE Data(l, t, m)
      /\ \A m : Data(l, t, m) \subseteq 1 .. Len(l)
      /\ ~Marked(l, t, x.n)
  BY <1>2 DEF Marked, Data, Current
<1> HIDE DEF l2, e
<1>4. Current(l2, p, t, x2)
  <2>1. \A m \in 1 .. MaxTxns : \A k \in {"data", "commit", "abort"} : At(l2, t, m, k) # {} =>
          m <= x2.n /\ (m = x2.n => p \in x2.touched)
    BY <1>2 DEF Current
  <2>2. Data(l2, t, x2.n) # {} /\ ~Marked(l2, t, x2.n)
    BY <1>3
  <2> QED BY <2>1, <2>2 DEF Current
<1>5. Sequential(l2, t)
  <2>1. \A m \in 1 .. MaxTxns : Data(l, t, m) # {} => m <= x.n
    BY DEF Current, Data
  <2>2. At(l2, t, x.n, "commit") = {} /\ At(l2, t, x.n, "abort") = {}
    BY <1>3 DEF Marked
  <2>3. \A m : Data(l2, t, m) \subseteq 1 .. e
    BY <1>2, <1>3 DEF e
  <2>4. ASSUME NEW m \in 1 .. MaxTxns, NEW i \in Data(l2, t, m), NEW k \in {"commit", "abort"},
               NEW j \in At(l2, t, m, k)
        PROVE  i < j
    BY <1>2, <1>3, <2>2 DEF Sequential
  <2>5. ASSUME NEW m \in 1 .. MaxTxns, NEW i \in Data(l2, t, m), NEW m2 \in 1 .. MaxTxns,
               NEW j \in Data(l2, t, m2), m < m2
        PROVE  i < j
    <3>1. m # x.n /\ i \in Data(l, t, m)
      BY <1>3, <2>1, <2>5
    <3>2. CASE j = e
      BY <1>2, <1>3, <3>1, <3>2 DEF e
    <3>3. CASE j \in Data(l, t, m2)
      BY <2>5, <3>1, <3>3 DEF Sequential
    <3> QED BY <1>3, <3>2, <3>3
  <2> QED BY <2>4, <2>5 DEF Sequential
<1>6. Settled(l2, p, t, x2, {})
  BY <1>3 DEF Settled
<1>7. Withheld(l2, t, at2)
  <2>1. CASE p \in x.touched
    <3>1. Data(l, t, x.n) # {}
      BY <2>1 DEF Current
    <3>2. at # None /\ at <= Len(l) /\ at \in Nat
      BY <1>3, <3>1 DEF Withheld
    <3>3. at < e
      BY <1>2, <3>2 DEF e
    <3> QED BY <1>2, <1>3, <2>1, <3>2, <3>3 DEF Withheld, e
  <2>2. CASE p \notin x.touched
    <3>1. Data(l, t, x.n) = {}
      BY <2>2 DEF Current, Data
    <3>2. at2 = Len(l) /\ at2 # None /\ at2 < e
      BY <1>2, <2>2 DEF e
    <3>3. \A m \in 1 .. MaxTxns : m # x.n => Data(l, t, m) = {} \/ Marked(l, t, m)
      BY DEF Current, Settled, Data, Txn
    <3> QED BY <1>2, <1>3, <3>1, <3>2, <3>3 DEF Withheld, e
  <2> QED BY <2>1, <2>2
<1>8. Truthful(l2, t, out)
  BY <1>2, SMTT(30) DEF Truthful
<1>9. Indexed(l2, t, ab)
  <2>1. At(l2, t, x.n, "abort") = {}
    BY <1>3 DEF Marked
  <2>2. \A en \in ab : ~Covers(en, t, e)
    BY <1>2 DEF Covers, Inside, e
  <2> QED BY <1>2, <1>3, <2>1, <2>2 DEF Indexed
<1>10. Consumed(l2, t, c, d)
  <2>1. ~(e <= c) /\ e - 1 \notin d
    BY <1>2 DEF Reading, e
  <2> QED BY <1>2, <1>3, <2>1 DEF Consumed
<1> QED BY <1>4, <1>5, <1>6, <1>7, <1>8, <1>9, <1>10 DEF l2, r

\* The first entry of a transaction on a partition it touched is a record; so has it a last one.
LEMMA Extent ==
  ASSUME NEW l \in Seq(Entry), NEW t \in Id, NEW n \in 1 .. MaxTxns,
         Data(l, t, n) # {}, Sequential(l, t)
  PROVE  LET First == Min({i \in DOMAIN l : l[i].id = t /\ l[i].n = n})
             Last  == Max({i \in DOMAIN l : l[i].id = t /\ l[i].n = n /\ l[i].kind = "data"})
         IN  /\ First \in Data(l, t, n) /\ Last \in Data(l, t, n)
             /\ \A i \in Data(l, t, n) : First <= i /\ i <= Last
<1> DEFINE S == {i \in DOMAIN l : l[i].id = t /\ l[i].n = n}
           D == {i \in DOMAIN l : l[i].id = t /\ l[i].n = n /\ l[i].kind = "data"}
<1>1. D = Data(l, t, n) /\ D \in SUBSET Nat /\ D # {} /\ Len(l) \in Nat /\ \A i \in D : i <= Len(l)
  BY DEF Data, At
<1>2. S \in SUBSET Nat /\ S # {} /\ D \subseteq S
  BY <1>1
<1>3. \A i \in S : i \in D \/ \E k \in {"commit", "abort"} : i \in At(l, t, n, k)
  <2>1. \A i \in DOMAIN l : i \in 1 .. Len(l) /\ l[i] \in Entry
    OBVIOUS
  <2>2. \A i \in DOMAIN l : l[i].kind \in {"data", "commit", "abort"}
    BY <2>1 DEF Entry
  <2> QED BY <2>1, <2>2 DEF At
<1> HIDE DEF S, D
<1>4. Max(D) \in D /\ \A i \in D : i <= Max(D)
  BY <1>1, MaxOfNaturals
<1>5. Min(S) \in S /\ \A i \in S : Min(S) <= i
  BY <1>2, MinOfNaturals
<1>6. Min(S) \in D
  <2> SUFFICES ASSUME NEW k \in {"commit", "abort"}, Min(S) \in At(l, t, n, k) PROVE FALSE
    BY <1>3, <1>5
  <2>1. PICK i : i \in D
    BY <1>1
  <2>2. i < Min(S)
    BY <1>1, <2>1 DEF Sequential
  <2>3. Min(S) <= i
    BY <1>2, <1>5, <2>1
  <2>4. i \in Nat /\ Min(S) \in Nat
    BY <1>1, <1>2, <1>5, <2>1
  <2> QED BY <2>2, <2>3, <2>4
<1> QED BY <1>1, <1>2, <1>4, <1>5, <1>6 DEF S, D

\* The marker of a decided transaction, and what the partition notes with it.
LEMMA MarkerKept ==
  ASSUME NEW l \in Seq(Entry), NEW t \in Id, NEW p, NEW x \in Txn, NEW w, NEW out,
         NEW ab \in SUBSET [id : Id, first : Nat, last : Nat],
         NEW ab2 \in SUBSET [id : Id, first : Nat, last : Nat],
         NEW c \in Nat, NEW d \in SUBSET Nat, NEW k \in {"commit", "abort"}, NEW first, NEW last,
         k = IF x.state = "committing" THEN "commit" ELSE "abort",
         x.state \in {"committing", "aborting"}, x.n \in 1 .. MaxTxns, p \in x.touched,
         first \in Data(l, t, x.n), last \in Data(l, t, x.n),
         \A i \in Data(l, t, x.n) : first <= i /\ i <= last,
         ab2 = IF x.state = "aborting"
               THEN ab \cup {[id |-> t, first |-> first - 1, last |-> last - 1]} ELSE ab,
         NEW at, Judged(x, w, out), Inside(l, ab), Reading(l, c, d),
         Known(l, p, t, x, w, at, out, ab, c, d)
  PROVE  LET l2 == Append(l, [id |-> t, n |-> x.n, kind |-> k])
         IN  Known(l2, p, t, x, w \cup {p}, None, out, ab2, c, d) /\ Inside(l2, ab2)
<1> USE TransactionsAssumption DEF Known
<1> DEFINE r  == [id |-> t, n |-> x.n, kind |-> k]
           l2 == Append(l, r)
           e  == Len(l) + 1
<1>1. r \in Entry /\ r.id = t /\ r.n = x.n /\ r.kind = k
  BY DEF Entry
<1> HIDE DEF r
<1>2. Len(l) \in Nat /\ Len(l2) = e /\ e \in Nat
  BY <1>1, Grown
<1>3. \A m, kk : At(l, t, m, kk) \subseteq 1 .. Len(l)
  BY AtInside
<1>4. \A m, kk : At(l2, t, m, kk) =
        IF m = x.n /\ kk = k THEN At(l, t, m, kk) \cup {e} ELSE At(l, t, m, kk)
  BY <1>1, AtGrown
<1>5. /\ \A m : Data(l2, t, m) = Data(l, t, m)
      /\ \A m : Data(l, t, m) \subseteq 1 .. Len(l)
  BY <1>3, <1>4 DEF Data
<1>6. At(l2, t, x.n, k) # {} /\ Marked(l2, t, x.n)
  BY <1>4 DEF Marked
<1> HIDE DEF l2
<1>7. Current(l2, p, t, x)
  BY <1>4, <1>5, <1>6 DEF Current
<1>8. Sequential(l2, t)
  BY <1>2, <1>4, <1>5 DEF Sequential
<1>9. \A m \in 1 .. MaxTxns : Data(l2, t, m) # {} => Marked(l2, t, m)
  <2> SUFFICES ASSUME NEW m \in 1 .. MaxTxns, Data(l2, t, m) # {} PROVE Marked(l2, t, m)
    OBVIOUS
  <2>1. m <= x.n
    BY <1>5 DEF Current, Data
  <2>2. CASE m < x.n
    <3>1. Marked(l, t, m)
      BY <1>5, <2>2 DEF Settled
    <3> QED BY <1>4, <3>1 DEF Marked
  <2> QED BY <1>6, <2>1, <2>2 DEF Txn
<1>10. Settled(l2, p, t, x, w \cup {p})
  BY <1>9 DEF Settled
<1>11. Withheld(l2, t, None)
  BY <1>9 DEF Withheld
<1>12. Truthful(l2, t, out)
  BY <1>4 DEF Truthful, Judged
<1>13. Indexed(l2, t, ab2)
  <2> SUFFICES ASSUME NEW m \in 1 .. MaxTxns, NEW i \in Data(l, t, m)
               PROVE  At(l2, t, m, "abort") # {} <=> \E en \in ab2 : Covers(en, t, i)
    BY <1>5 DEF Indexed
  <2>0. At(l, t, m, "abort") # {} <=> \E en \in ab : Covers(en, t, i)
    BY DEF Indexed
  <2>1. CASE x.state = "committing"
    BY <1>4, <2>0, <2>1
  <2>2. CASE x.state = "aborting"
    <3> DEFINE new == [id |-> t, first |-> first - 1, last |-> last - 1]
    <3>1. new.id = t /\ new.first = first - 1 /\ new.last = last - 1 /\ ab2 = ab \cup {new}
      BY <2>2
    <3> HIDE DEF new
    <3>2. first \in Nat /\ last \in Nat /\ i \in Nat
      BY <1>5
    <3>3. CASE m = x.n
      <4>1. Covers(new, t, i)
        BY <3>1, <3>2, <3>3 DEF Covers
      <4> QED BY <1>6, <2>2, <3>1, <3>3, <4>1
    <3>4. CASE m # x.n
      <4>1. m < x.n
        BY <3>4 DEF Current, Data, Txn
      <4>2. i < first
        BY <4>1 DEF Sequential
      <4>3. ~Covers(new, t, i)
        BY <3>1, <3>2, <4>2 DEF Covers
      <4> QED BY <1>4, <2>0, <3>1, <3>4, <4>3
    <3> QED BY <3>3, <3>4
  <2> QED BY <2>1, <2>2
<1>14. Consumed(l2, t, c, d)
  <2> SUFFICES ASSUME NEW m \in 1 .. MaxTxns, NEW i \in Data(l, t, m)
               PROVE  /\ i <= c => Marked(l2, t, m)
                      /\ i - 1 \in d => i <= c /\ At(l2, t, m, "commit") # {}
                      /\ i <= c /\ At(l2, t, m, "commit") # {} => i - 1 \in d
    BY <1>5 DEF Consumed
  <2>1. /\ i <= c => Marked(l, t, m)
        /\ i - 1 \in d => i <= c /\ At(l, t, m, "commit") # {}
        /\ i <= c /\ At(l, t, m, "commit") # {} => i - 1 \in d
    BY DEF Consumed
  <2>2. Marked(l, t, m) => Marked(l2, t, m)
    BY <1>4 DEF Marked
  <2>3. ASSUME i <= c, At(l2, t, m, "commit") # {} PROVE At(l, t, m, "commit") # {}
    <3>1. out[m] = "committing"
      BY <1>12, <2>3 DEF Truthful
    <3>2. At(l, t, m, "abort") = {}
      BY <3>1 DEF Truthful
    <3> QED BY <2>1, <2>3, <3>2 DEF Marked
  <2>4. At(l, t, m, "commit") # {} => At(l2, t, m, "commit") # {}
    BY <1>4
  <2> QED BY <2>1, <2>2, <2>3, <2>4
<1>15. Inside(l2, ab2)
  <2>1. last \in 1 .. Len(l)
    BY <1>5
  <2>2. \A en \in ab : en.last < Len(l) /\ en.last \in Nat
    BY DEF Inside
  <2> QED BY <1>2, <2>1, <2>2 DEF Inside
<1> QED BY <1>7, <1>8, <1>10, <1>11, <1>12, <1>13, <1>14, <1>15 DEF l2, r
----------------------------------------------------------------------------
\* A new transaction of an id whose last one is over.
LEMMA BeginIInv ==
  ASSUME IInv, NEW t \in Id, NEW e, Begin(t, e)
  PROVE  IInv'
<1> USE TransactionsAssumption
<1> DEFINE x == txn[t]
<1>1. /\ x \in Txn /\ x.n \in 0 .. MaxTxns - 1 /\ x.state \in {"committed", "aborted"}
      /\ written'[t] = {} /\ txn'[t].n = x.n + 1 /\ txn'[t].state = "open"
      /\ txn'[t].touched = {} /\ txn'[t] \in Txn
      /\ \A u \in Id \ {t} : txn'[u] = txn[u] /\ written'[u] = written[u]
      /\ UNCHANGED <<log, open_at, aborted, cursor, delivered, outcome>>
  BY DEF IInv, Types, Begin, TxnsLeft, Undecided, Resolving, Txn, TxnState, logVars, readerVars
<1>2. Types'
  BY <1>1 DEF IInv, Types, Begin
<1>3. ASSUME NEW u \in Id
      PROVE  Judged(txn[u], written[u], outcome[u])'
  <2>1. CASE u # t
    BY <1>1, <2>1 DEF IInv
  <2>2. CASE u = t
    <3>1. Judged(x, written[t], outcome[t])
      BY DEF IInv
    <3> QED BY <1>1, <2>2, <3>1 DEF Judged
  <2> QED BY <2>1, <2>2
<1>4. ASSUME NEW p \in Partition, NEW u \in Id
      PROVE  Known(log[p], p, u, txn[u], written[u], open_at[p][u], outcome[u],
                   aborted[p], cursor[p], delivered[p])'
  <2>0. Known(log[p], p, u, txn[u], written[u], open_at[p][u], outcome[u],
              aborted[p], cursor[p], delivered[p])
    BY DEF IInv
  <2>1. CASE u # t
    BY <1>1, <2>0, <2>1
  <2>2. CASE u = t
    <3>1. \A m \in 1 .. MaxTxns : \A k \in {"data", "commit", "abort"} :
            At(log[p], t, m, k) # {} => m <= x.n
      BY <2>0, <2>2 DEF Known, Current
    <3>2. ~Marked(log[p], t, x.n + 1)
      BY <1>1, <3>1 DEF Marked
    <3>3. Current(log[p], p, t, txn'[t])
      BY <1>1, <2>0, <3>1, <3>2 DEF Current
    <3>4. Settled(log[p], p, t, txn'[t], written'[t])
      <4>1. \A m \in 1 .. MaxTxns : Data(log[p], t, m) # {} => Marked(log[p], t, m)
        BY <1>1, <2>0, <2>2 DEF Known, Settled
      <4> QED BY <4>1 DEF Settled
    <3> QED BY <1>1, <2>0, <2>2, <3>3, <3>4 DEF Known
  <2> QED BY <2>1, <2>2
<1> QED BY <1>1, <1>2, <1>3, <1>4 DEF IInv

\* A record of an open transaction.
LEMMA ProduceIInv ==
  ASSUME IInv, NEW t \in Id, NEW e, NEW p \in Partition, Produce(t, e, p)
  PROVE  IInv'
<1> USE TransactionsAssumption
<1> DEFINE x == txn[t]
           r == [id |-> t, n |-> x.n, kind |-> "data"]
<1>1. /\ x \in Txn /\ x.state = "open" /\ x.n \in 1 .. MaxTxns /\ written[t] = {}
      /\ Judged(x, written[t], outcome[t])
  BY DEF IInv, Types, Judged, Produce, Undecided
<1>2. /\ txn'[t].n = x.n /\ txn'[t].state = x.state /\ txn'[t].touched = x.touched \cup {p}
      /\ txn' \in [Id -> Txn]
      /\ \A u \in Id \ {t} : txn'[u] = txn[u]
  BY <1>1 DEF IInv, Types, Produce, Txn
<1>3. r \in Entry
  BY <1>1 DEF Entry
<1>4. /\ log[p] \in Seq(Entry) /\ log' = [log EXCEPT ![p] = Append(log[p], r)]
      /\ log'[p] = Append(log[p], r) /\ Append(log[p], r) \in Seq(Entry)
      /\ \A q \in Partition \ {p} : log'[q] = log[q]
      /\ log' \in [Partition -> Seq(Entry)]
  BY <1>3, Grown DEF IInv, Types, Produce
<1>5. /\ open_at' \in [Partition -> [Id -> Nat \cup {None}]]
      /\ open_at'[p][t] = IF p \in x.touched THEN open_at[p][t] ELSE Len(log[p])
      /\ \A q \in Partition, u \in Id : q # p \/ u # t => open_at'[q][u] = open_at[q][u]
  <2>1. open_at \in [Partition -> [Id -> Nat \cup {None}]] /\ Len(log[p]) \in Nat
    BY <1>4 DEF IInv, Types
  <2> QED BY <2>1 DEF Produce, End
<1>6. UNCHANGED <<written, aborted, cursor, delivered, outcome>>
  BY DEF Produce, readerVars
<1> HIDE DEF r
<1>7. Types'
  BY <1>2, <1>4, <1>5, <1>6 DEF IInv, Types
<1>8. ASSUME NEW u \in Id
      PROVE  Judged(txn[u], written[u], outcome[u])'
  BY <1>1, <1>2, <1>6 DEF IInv, Judged
<1>9. ASSUME NEW q \in Partition
      PROVE  (Inside(log[q], aborted[q]) /\ Reading(log[q], cursor[q], delivered[q]))'
  <2>0. /\ Inside(log[q], aborted[q]) /\ Reading(log[q], cursor[q], delivered[q])
        /\ aborted[q] \in SUBSET [id : Id, first : Nat, last : Nat]
        /\ cursor[q] \in Nat /\ delivered[q] \in SUBSET Nat
    BY DEF IInv, Types
  <2>1. CASE q # p
    BY <1>4, <1>6, <2>0, <2>1
  <2>2. CASE q = p
    BY <1>3, <1>4, <1>6, <2>0, <2>2, LengthKept
  <2> QED BY <2>1, <2>2
<1>10. ASSUME NEW q \in Partition, NEW u \in Id
       PROVE  Known(log[q], q, u, txn[u], written[u], open_at[q][u], outcome[u],
                    aborted[q], cursor[q], delivered[q])'
  <2>0. /\ Known(log[q], q, u, txn[u], written[u], open_at[q][u], outcome[u],
                 aborted[q], cursor[q], delivered[q])
        /\ Inside(log[q], aborted[q]) /\ Reading(log[q], cursor[q], delivered[q])
    BY DEF IInv
  <2>1. /\ aborted[q] \in SUBSET [id : Id, first : Nat, last : Nat]
        /\ cursor[q] \in Nat /\ delivered[q] \in SUBSET Nat
        /\ open_at[q][u] \in Nat \cup {None}
    BY DEF IInv, Types
  <2>2. CASE u # t /\ q # p
    BY <1>2, <1>4, <1>5, <1>6, <2>0, <2>2
  <2>3. CASE u # t /\ q = p
    <3>1. r.id # u
      BY <2>3 DEF r
    <3>2. Known(Append(log[q], r), q, u, txn[u], written[u], open_at[q][u], outcome[u],
                aborted[q], cursor[q], delivered[q])
      BY <1>3, <1>4, <2>0, <2>1, <2>3, <3>1, OthersKept
    <3> QED BY <1>2, <1>4, <1>5, <1>6, <2>3, <3>2
  <2>4. CASE u = t /\ q # p
    <3>1. log'[q] = log[q] /\ open_at'[q][u] = open_at[q][u]
      BY <1>4, <1>5, <2>4
    <3>2. Current(log[q], q, u, txn'[u]) /\ Settled(log[q], q, u, txn'[u], written[u])
      BY <1>2, <2>0, <2>4 DEF Known, Current, Settled
    <3> QED BY <1>6, <2>0, <3>1, <3>2 DEF Known
  <2>5. CASE u = t /\ q = p
    <3>1. /\ txn'[t] \in Txn
          /\ Known(log[p], p, t, x, {}, open_at[p][t], outcome[t],
                   aborted[p], cursor[p], delivered[p])
          /\ Inside(log[p], aborted[p]) /\ Reading(log[p], cursor[p], delivered[p])
          /\ aborted[p] \in SUBSET [id : Id, first : Nat, last : Nat]
          /\ cursor[p] \in Nat /\ delivered[p] \in SUBSET Nat
          /\ open_at[p][t] \in Nat \cup {None}
      BY <1>1, <1>2, <2>0, <2>1, <2>5
    <3> HIDE DEF x
    <3>2. Known(Append(log[p], r), p, t, txn'[t], {}, open_at'[p][t], outcome[t],
                aborted[p], cursor[p], delivered[p])
      BY <1>1, <1>2, <1>4, <1>5, <3>1, RecordKept DEF r
    <3> QED BY <1>1, <1>4, <1>6, <2>5, <3>2
  <2> QED BY <2>2, <2>3, <2>4, <2>5
<1> QED BY <1>7, <1>8, <1>9, <1>10 DEF IInv

\* A marker: it closes the transaction in its partition, and an abort enters the index.
LEMMA WriteMarkerIInv ==
  ASSUME IInv, NEW t \in Id, NEW p \in Partition, WriteMarker(t, p)
  PROVE  IInv'
<1> USE TransactionsAssumption
<1> DEFINE x == txn[t]
           k == IF x.state = "committing" THEN "commit" ELSE "abort"
           r == [id |-> t, n |-> x.n, kind |-> k]
           first == Min({i \in DOMAIN log[p] : log[p][i].id = t /\ log[p][i].n = x.n})
           last == Max({i \in DOMAIN log[p] : log[p][i].id = t /\ log[p][i].n = x.n
                                               /\ log[p][i].kind = "data"})
           new == [id |-> t, first |-> first - 1, last |-> last - 1]
<1>1. /\ x \in Txn /\ x.state \in {"committing", "aborting"} /\ x.n \in 1 .. MaxTxns
      /\ p \in x.touched /\ Judged(x, written[t], outcome[t]) /\ written \in [Id -> SUBSET Partition]
  BY DEF IInv, Types, Judged, WriteMarker, Resolving
<1>2. r \in Entry /\ k \in {"commit", "abort"}
  BY <1>1 DEF Entry
<1>3. /\ log[p] \in Seq(Entry) /\ log'[p] = Append(log[p], r)
      /\ \A q \in Partition \ {p} : log'[q] = log[q]
      /\ log' \in [Partition -> Seq(Entry)]
  <2>1. log \in [Partition -> Seq(Entry)] /\ log' = [log EXCEPT ![p] = Append(log[p], r)]
    BY DEF IInv, Types, WriteMarker
  <2>2. Append(log[p], r) \in Seq(Entry)
    BY <1>2, <2>1, Grown
  <2> HIDE DEF r
  <2> QED BY <2>1, <2>2
<1>4. /\ open_at' \in [Partition -> [Id -> Nat \cup {None}]] /\ open_at'[p][t] = None
      /\ \A q \in Partition, u \in Id : q # p \/ u # t => open_at'[q][u] = open_at[q][u]
  BY DEF IInv, Types, WriteMarker
<1>5. /\ written' \in [Id -> SUBSET Partition] /\ written'[t] = written[t] \cup {p}
      /\ \A u \in Id \ {t} : written'[u] = written[u]
  BY <1>1 DEF WriteMarker
<1>6. UNCHANGED <<txn, cursor, delivered, outcome>>
  BY DEF WriteMarker, readerVars
<1>7. /\ Known(log[p], p, t, x, written[t], open_at[p][t], outcome[t],
               aborted[p], cursor[p], delivered[p])
      /\ Inside(log[p], aborted[p]) /\ Reading(log[p], cursor[p], delivered[p])
      /\ aborted[p] \in SUBSET [id : Id, first : Nat, last : Nat]
      /\ cursor[p] \in Nat /\ delivered[p] \in SUBSET Nat
      /\ open_at[p][t] \in Nat \cup {None}
  BY DEF IInv, Types
<1>8. /\ first \in Data(log[p], t, x.n) /\ last \in Data(log[p], t, x.n)
      /\ \A i \in Data(log[p], t, x.n) : first <= i /\ i <= last
  <2>1. Data(log[p], t, x.n) # {} /\ Sequential(log[p], t)
    BY <1>1, <1>7 DEF Known, Current
  <2> QED BY <1>1, <1>3, <2>1, Extent
<1>9. first \in Nat \ {0} /\ last \in Nat \ {0}
  <2>1. Data(log[p], t, x.n) \subseteq 1 .. Len(log[p]) /\ Len(log[p]) \in Nat
    BY <1>3, AtInside DEF Data
  <2> HIDE DEF first, last
  <2> QED BY <1>8, <2>1
<1>10. /\ aborted'[p] = IF x.state = "aborting" THEN aborted[p] \cup {new} ELSE aborted[p]
       /\ \A q \in Partition \ {p} : aborted'[q] = aborted[q]
       /\ aborted' \in [Partition -> SUBSET [id : Id, first : Nat, last : Nat]]
  <2>1. new \in [id : Id, first : Nat, last : Nat]
    <3> HIDE DEF first, last
    <3> QED BY <1>9
  <2>2. aborted \in [Partition -> SUBSET [id : Id, first : Nat, last : Nat]]
    BY DEF IInv, Types
  <2>3. aborted' = IF x.state = "aborting"
                   THEN [aborted EXCEPT ![p] = aborted[p] \cup {new}] ELSE aborted
    BY DEF WriteMarker, FirstWrite, LastWrite
  <2> HIDE DEF new
  <2> QED BY <2>1, <2>2, <2>3
<1>11. LET l2 == Append(log[p], [id |-> t, n |-> x.n, kind |-> k])
       IN  /\ Known(l2, p, t, x, written[t] \cup {p}, None, outcome[t],
                    aborted'[p], cursor[p], delivered[p])
           /\ Inside(l2, aborted'[p])
  <2>1. aborted'[p] \in SUBSET [id : Id, first : Nat, last : Nat]
    BY <1>10
  <2>2. k = IF x.state = "committing" THEN "commit" ELSE "abort"
    OBVIOUS
  <2>3. aborted'[p] = IF x.state = "aborting"
          THEN aborted[p] \cup {[id |-> t, first |-> first - 1, last |-> last - 1]} ELSE aborted[p]
    BY <1>10
  <2> HIDE DEF first, last, x, k, r, new
  <2> QED BY <1>1, <1>2, <1>3, <1>7, <1>8, <2>1, <2>2, <2>3, MarkerKept
<1> HIDE DEF r, first, last
<1>12. Types'
  BY <1>3, <1>4, <1>5, <1>6, <1>10 DEF IInv, Types
<1>13. ASSUME NEW u \in Id
       PROVE  Judged(txn[u], written[u], outcome[u])'
  <2>1. Judged(txn[u], written[u], outcome[u])
    BY DEF IInv
  <2>2. CASE u # t
    BY <1>5, <1>6, <2>1, <2>2
  <2>3. CASE u = t
    BY <1>1, <1>6, <2>1, <2>3 DEF Judged
  <2> QED BY <2>2, <2>3
<1>14. ASSUME NEW q \in Partition
       PROVE  (Inside(log[q], aborted[q]) /\ Reading(log[q], cursor[q], delivered[q]))'
  <2>1. CASE q # p
    BY <1>3, <1>6, <1>10, <2>1 DEF IInv
  <2>2. CASE q = p
    <3>1. Reading(Append(log[p], r), cursor[p], delivered[p])
      BY <1>2, <1>3, <1>7, LengthKept
    <3> QED BY <1>3, <1>6, <1>11, <2>2, <3>1 DEF r
  <2> QED BY <2>1, <2>2
<1>15. ASSUME NEW q \in Partition, NEW u \in Id
       PROVE  Known(log[q], q, u, txn[u], written[u], open_at[q][u], outcome[u],
                    aborted[q], cursor[q], delivered[q])'
  <2>0. Known(log[q], q, u, txn[u], written[u], open_at[q][u], outcome[u],
              aborted[q], cursor[q], delivered[q])
    BY DEF IInv
  <2>2. CASE u # t /\ q # p
    BY <1>3, <1>4, <1>5, <1>6, <1>10, <2>0, <2>2
  <2>3. CASE u # t /\ q = p
    <3>1. r.id # u /\ open_at[q][u] \in Nat \cup {None}
      BY <2>3 DEF r, IInv, Types
    <3>2. Known(Append(log[q], r), q, u, txn[u], written[u], open_at[q][u], outcome[u],
                aborted[q], cursor[q], delivered[q])
      BY <1>2, <1>3, <2>0, <2>3, <3>1, OthersKept
    <3>3. \A i : (\E en \in aborted'[p] : Covers(en, u, i)) <=> \E en \in aborted[p] : Covers(en, u, i)
      <4>1. \A i : ~Covers(new, u, i)
        BY <2>3 DEF Covers
      <4> HIDE DEF new
      <4> QED BY <1>10, <4>1
    <3>4. Indexed(Append(log[q], r), u, aborted'[q])
      BY <2>3, <3>2, <3>3 DEF Known, Indexed
    <3> QED BY <1>3, <1>4, <1>5, <1>6, <2>3, <3>2, <3>4 DEF Known
  <2>4. CASE u = t /\ q # p
    <3>1. Settled(log[q], q, t, x, written'[t])
      BY <1>5, <2>0, <2>4 DEF Known, Settled
    <3> QED BY <1>3, <1>4, <1>6, <1>10, <2>0, <2>4, <3>1 DEF Known
  <2>5. CASE u = t /\ q = p
    BY <1>3, <1>4, <1>5, <1>6, <1>11, <2>5 DEF r
  <2> QED BY <2>2, <2>3, <2>4, <2>5
<1> QED BY <1>12, <1>13, <1>14, <1>15 DEF IInv

\* The coordinator declares a transaction over, once every marker is written.
LEMMA DeclareIInv ==
  ASSUME IInv, NEW t \in Id, Declare(t)
  PROVE  IInv'
<1> USE TransactionsAssumption
<1> DEFINE x == txn[t]
<1>1. /\ x \in Txn /\ x.state \in {"committing", "aborting"} /\ x.touched \subseteq written[t]
      /\ txn'[t].n = x.n /\ txn'[t].touched = x.touched /\ txn'[t] \in Txn
      /\ txn'[t].state = IF x.state = "committing" THEN "committed" ELSE "aborted"
      /\ txn' \in [Id -> Txn]
      /\ \A u \in Id \ {t} : txn'[u] = txn[u]
      /\ UNCHANGED <<written, log, open_at, aborted, cursor, delivered, outcome>>
  BY DEF IInv, Types, Declare, Resolving, Txn, TxnState, logVars, readerVars
<1>2. Types'
  BY <1>1 DEF IInv, Types
<1>3. ASSUME NEW u \in Id
      PROVE  Judged(txn[u], written[u], outcome[u])'
  <2>0. Judged(txn[u], written[u], outcome[u])
    BY DEF IInv
  <2>1. CASE u # t
    BY <1>1, <2>0, <2>1
  <2>2. CASE u = t
    BY <1>1, <2>0, <2>2 DEF Judged
  <2> QED BY <2>1, <2>2
<1>4. ASSUME NEW p \in Partition, NEW u \in Id
      PROVE  Known(log[p], p, u, txn[u], written[u], open_at[p][u], outcome[u],
                   aborted[p], cursor[p], delivered[p])'
  <2>0. Known(log[p], p, u, txn[u], written[u], open_at[p][u], outcome[u],
              aborted[p], cursor[p], delivered[p])
    BY DEF IInv
  <2>1. CASE u # t
    BY <1>1, <2>0, <2>1
  <2>2. CASE u = t
    <3>1. Current(log[p], p, t, txn'[t])
      BY <1>1, <2>0, <2>2 DEF Known, Current
    <3>2. Settled(log[p], p, t, txn'[t], written[t])
      <4> SUFFICES ASSUME NEW m \in 1 .. MaxTxns, Data(log[p], t, m) # {}
                   PROVE  Marked(log[p], t, m)
        BY DEF Settled
      <4>1. m <= x.n /\ (m = x.n => p \in written[t])
        BY <1>1, <2>0, <2>2 DEF Known, Current, Data
      <4> QED BY <1>1, <2>0, <2>2, <4>1 DEF Known, Settled, Txn
    <3> QED BY <1>1, <2>0, <2>2, <3>1, <3>2 DEF Known
  <2> QED BY <2>1, <2>2
<1> QED BY <1>1, <1>2, <1>3, <1>4 DEF IInv

\* A coordinator crash: it forgets which markers it wrote, and writes them again.
LEMMA CrashIInv ==
  ASSUME IInv, CoordinatorCrash
  PROVE  IInv'
<1> USE TransactionsAssumption
<1>1. /\ written' = [t \in Id |-> {}]
      /\ UNCHANGED <<txn, log, open_at, aborted, cursor, delivered, outcome>>
  BY DEF CoordinatorCrash, logVars, readerVars
<1>2. Types'
  BY <1>1 DEF IInv, Types
<1>3. ASSUME NEW u \in Id
      PROVE  Judged(txn[u], written[u], outcome[u])'
  BY <1>1 DEF IInv, Judged
<1>4. ASSUME NEW p \in Partition, NEW u \in Id
      PROVE  Known(log[p], p, u, txn[u], written[u], open_at[p][u], outcome[u],
                   aborted[p], cursor[p], delivered[p])'
  <2>0. Known(log[p], p, u, txn[u], written[u], open_at[p][u], outcome[u],
              aborted[p], cursor[p], delivered[p])
    BY DEF IInv
  <2>1. Settled(log[p], p, u, txn[u], {})
    BY <2>0 DEF Known, Settled
  <2> QED BY <1>1, <2>0, <2>1 DEF Known
<1> QED BY <1>1, <1>2, <1>3, <1>4 DEF IInv

\* The last stable offset is in the log, and at or below every open transaction.
LEMMA StableBounds ==
  ASSUME IInv, NEW p \in Partition
  PROVE  /\ LastStable(p) \in Nat /\ LastStable(p) <= Len(log[p]) /\ Len(log[p]) \in Nat
         /\ \A t \in Id : open_at[p][t] # None =>
              open_at[p][t] \in Nat /\ LastStable(p) <= open_at[p][t]
<1> DEFINE S == {End(p)} \cup {open_at[p][t] : t \in {u \in Id : open_at[p][u] # None}}
<1>1. Len(log[p]) \in Nat /\ \A t \in Id : open_at[p][t] \in Nat \cup {None}
  BY DEF IInv, Types
<1>2. S \in SUBSET Nat /\ End(p) \in S /\ \A t \in Id : open_at[p][t] # None => open_at[p][t] \in S
  BY <1>1 DEF End
<1> HIDE DEF S
<1>3. Min(S) \in S /\ \A y \in S : Min(S) <= y
  BY <1>2, MinOfNaturals
<1>4. LastStable(p) = Min(S)
  BY DEF LastStable, S
<1> QED BY <1>1, <1>2, <1>3, <1>4 DEF End

\* Below it every record's transaction is marked.
LEMMA StableMarked ==
  ASSUME IInv, NEW p \in Partition, NEW t \in Id, NEW m \in 1 .. MaxTxns,
         NEW i \in Data(log[p], t, m), i <= LastStable(p)
  PROVE  Marked(log[p], t, m)
<1>1. Withheld(log[p], t, open_at[p][t])
  BY DEF IInv, Known
<1>2. i \in Nat
  BY DEF Data, At
<1> QED BY <1>1, <1>2, StableBounds DEF Withheld

\* A read-committed consumer reads up to the last stable offset.
LEMMA ReadIInv ==
  ASSUME IInv, NEW p \in Partition, ReadCommitted(p)
  PROVE  IInv'
<1> USE TransactionsAssumption
<1> DEFINE c     == cursor[p]
           c2    == LastStable(p)
           shown == {o \in cursor[p] .. LastStable(p) - 1 :
                       /\ log[p][o + 1].kind = "data"
                       /\ ~IsAborted(p, log[p][o + 1].id, o)}
<1>1. /\ UNCHANGED <<txn, written, log, open_at, aborted, outcome>>
      /\ cursor' = [cursor EXCEPT ![p] = c2]
      /\ delivered' = [delivered EXCEPT ![p] = delivered[p] \cup shown]
      /\ c < c2
  BY DEF ReadCommitted, coordVars, logVars
<1>2. /\ c2 \in Nat /\ c2 <= Len(log[p]) /\ Len(log[p]) \in Nat /\ log[p] \in Seq(Entry)
      /\ c \in Nat /\ delivered[p] \in SUBSET Nat
      /\ cursor \in [Partition -> Nat] /\ delivered \in [Partition -> SUBSET Nat]
  BY StableBounds DEF IInv, Types
<1>3. shown \in SUBSET Nat /\ \A o \in shown : o + 1 \in 1 .. Len(log[p]) /\ o + 1 > c /\ o + 1 <= c2
                                               /\ log[p][o + 1].kind = "data"
  BY <1>2
<1>4. ASSUME NEW t \in Id, NEW m \in 1 .. MaxTxns, NEW i \in Data(log[p], t, m), i > c, i <= c2
      PROVE  i - 1 \in shown <=> At(log[p], t, m, "abort") = {}
  <2>1. i \in 1 .. Len(log[p]) /\ log[p][i].id = t /\ log[p][i].kind = "data"
    BY DEF Data, At
  <2>2. i - 1 \in cursor[p] .. LastStable(p) - 1 /\ (i - 1) + 1 = i
    BY <1>2, <1>4, <2>1
  <2>3. aborted[p] \in SUBSET [id : Id, first : Nat, last : Nat]
    BY DEF IInv, Types
  <2>4. IsAborted(p, t, i - 1) <=> \E en \in aborted[p] : Covers(en, t, i)
    <3>1. \A en \in aborted[p] : (en.first <= i - 1 /\ i - 1 <= en.last) <=> (en.first < i /\ i <= en.last + 1)
      BY <2>1, <2>3
    <3> QED BY <3>1 DEF IsAborted, Covers
  <2>5. At(log[p], t, m, "abort") # {} <=> \E en \in aborted[p] : Covers(en, t, i)
    BY DEF IInv, Known, Indexed
  <2> QED BY <2>1, <2>2, <2>4, <2>5
<1> HIDE DEF shown
<1>5. Types'
  BY <1>1, <1>2, <1>3 DEF IInv, Types
<1>6. ASSUME NEW q \in Partition
      PROVE  Reading(log[q], cursor[q], delivered[q])'
  <2>0. Reading(log[q], cursor[q], delivered[q])
    BY DEF IInv
  <2>1. CASE q # p
    BY <1>1, <1>2, <2>0, <2>1
  <2>2. CASE q = p
    <3>1. cursor'[p] = c2 /\ delivered'[p] = delivered[p] \cup shown /\ log'[p] = log[p]
      BY <1>1, <1>2
    <3> QED BY <1>2, <1>3, <2>0, <2>2, <3>1 DEF Reading
  <2> QED BY <2>1, <2>2
<1>7. ASSUME NEW q \in Partition, NEW t \in Id
      PROVE  Consumed(log[q], t, cursor[q], delivered[q])'
  <2>0. Consumed(log[q], t, cursor[q], delivered[q])
    BY DEF IInv, Known
  <2>1. CASE q # p
    BY <1>1, <1>2, <2>0, <2>1
  <2>2. CASE q = p
    <3>0. cursor'[p] = c2 /\ delivered'[p] = delivered[p] \cup shown /\ log'[p] = log[p]
      BY <1>1, <1>2
    <3> SUFFICES ASSUME NEW m \in 1 .. MaxTxns, NEW i \in Data(log[p], t, m)
                 PROVE  /\ i <= c2 => Marked(log[p], t, m)
                        /\ i - 1 \in delivered[p] \cup shown =>
                             i <= c2 /\ At(log[p], t, m, "commit") # {}
                        /\ i <= c2 /\ At(log[p], t, m, "commit") # {} =>
                             i - 1 \in delivered[p] \cup shown
      BY <2>2, <3>0 DEF Consumed
    <3>1. i <= c2 => Marked(log[p], t, m)
      BY StableMarked
    <3>2. /\ i - 1 \in delivered[p] => i <= c /\ At(log[p], t, m, "commit") # {}
          /\ i <= c /\ At(log[p], t, m, "commit") # {} => i - 1 \in delivered[p]
          /\ i \in Nat
      BY <2>0, <2>2 DEF Consumed, Data, At
    <3>3. At(log[p], t, m, "commit") # {} => At(log[p], t, m, "abort") = {}
      BY DEF IInv, Known, Truthful
    <3>4. i - 1 \in shown => i > c /\ i <= c2
      <4>1. (i - 1) + 1 = i
        BY <3>2
      <4> QED BY <1>3, <4>1
    <3>5. i > c /\ i <= c2 => (i - 1 \in shown <=> At(log[p], t, m, "abort") = {})
      BY <1>4
    <3>6. i - 1 \in shown => At(log[p], t, m, "commit") # {}
      BY <3>1, <3>4, <3>5 DEF Marked
    <3>7. i <= c \/ i > c
      BY <1>2, <3>2
    <3>8. i <= c => i <= c2
      BY <1>1, <1>2, <3>2
    <3> QED BY <3>1, <3>2, <3>3, <3>4, <3>5, <3>6, <3>7, <3>8
  <2> QED BY <2>1, <2>2
<1>8. ASSUME NEW t \in Id PROVE Judged(txn[t], written[t], outcome[t])'
  BY <1>1 DEF IInv
<1>9. ASSUME NEW q \in Partition, NEW t \in Id
      PROVE  Known(log[q], q, t, txn[t], written[t], open_at[q][t], outcome[t],
                   aborted[q], cursor[q], delivered[q])'
  BY <1>1, <1>7 DEF IInv, Known
<1>10. ASSUME NEW q \in Partition PROVE Inside(log[q], aborted[q])'
  BY <1>1 DEF IInv
<1> QED BY <1>5, <1>6, <1>8, <1>9, <1>10 DEF IInv

\* A step that leaves the logs, the verdicts and the consumers alone.
LEMMA SameIInv ==
  ASSUME IInv, UNCHANGED <<txn, written, log, open_at, aborted, cursor, delivered, outcome>>
  PROVE  IInv'
BY DEF IInv, Types

\* Every step preserves the invariant.
LEMMA NextIInv == IInv /\ [Next]_vars => IInv'
<1> SUFFICES ASSUME IInv, [Next]_vars PROVE IInv'
  OBVIOUS
<1>1. ASSUME NEW t \in Id, Register(t) PROVE IInv'
  BY <1>1, SameIInv DEF Register, logVars, readerVars
<1>2. ASSUME NEW t \in Id, RecoverDangling(t) PROVE IInv'
  BY <1>2, SameIInv, DecideIInv DEF RecoverDangling, logVars, readerVars
<1>3. ASSUME NEW t \in Id, TimeoutAbort(t) PROVE IInv'
  BY <1>3, SameIInv, DecideIInv DEF TimeoutAbort, logVars, readerVars
<1>4. ASSUME NEW t \in Id, ForceAbort(t) PROVE IInv'
  BY <1>4, DecideIInv DEF ForceAbort, logVars, readerVars
<1>5. ASSUME NEW t \in Id, NEW e, NEW v \in {"committing", "aborting"}, Complete(t, e, v)
      PROVE  IInv'
  BY <1>5, SameIInv, DecideIInv DEF Complete, logVars, readerVars
<1>6. CASE UNCHANGED vars
  BY <1>6, SameIInv DEF vars, coordVars, logVars, readerVars
<1> QED
  BY <1>1, <1>2, <1>3, <1>4, <1>5, <1>6, BeginIInv, ProduceIInv, WriteMarkerIInv, DeclareIInv,
     CrashIInv, ReadIInv DEF Next, CoordinatorStep

\* The invariant holds throughout.
LEMMA Invariance == Spec => []IInv
BY InitIInv, NextIInv, PTL DEF Spec
----------------------------------------------------------------------------
\* A data record is one of its own transaction's.
LEMMA RecordOf ==
  ASSUME IInv, NEW p \in Partition, NEW i \in 1 .. Len(log[p])
  PROVE  /\ log[p][i].id \in Id /\ log[p][i].n \in 1 .. MaxTxns
         /\ i \in At(log[p], log[p][i].id, log[p][i].n, log[p][i].kind)
         /\ log[p][i].kind = "data" => i \in Data(log[p], log[p][i].id, log[p][i].n)
<1>1. log[p] \in Seq(Entry)
  BY DEF IInv, Types
<1>2. log[p][i] \in Entry
  BY <1>1
<1> QED BY <1>2 DEF Entry, At, Data

\* The invariant says what a consumer was shown.
LEMMA ExactFromIInv == IInv => ReadCommittedIsExact
<1> SUFFICES ASSUME IInv PROVE ReadCommittedIsExact
  OBVIOUS
<1>0. \A p \in Partition : Len(log[p]) \in Nat /\ cursor[p] \in Nat /\ delivered[p] \in SUBSET Nat
  BY DEF IInv, Types
<1>1. NoDirtyRead
  <2> SUFFICES ASSUME NEW p \in Partition, NEW o \in delivered[p]
               PROVE  Verdict(p, o) = "committing"
    BY DEF NoDirtyRead
  <2> DEFINE t == log[p][o + 1].id
             n == log[p][o + 1].n
  <2>1. o + 1 \in 1 .. Len(log[p]) /\ log[p][o + 1].kind = "data" /\ (o + 1) - 1 = o
    BY <1>0 DEF IInv, Reading
  <2>2. t \in Id /\ n \in 1 .. MaxTxns /\ o + 1 \in Data(log[p], t, n)
    BY <2>1, RecordOf
  <2> HIDE DEF t, n
  <2>3. Consumed(log[p], t, cursor[p], delivered[p]) /\ Truthful(log[p], t, outcome[t])
    BY <2>2 DEF IInv, Known
  <2>4. At(log[p], t, n, "commit") # {}
    BY <2>1, <2>2, <2>3 DEF Consumed
  <2> QED BY <2>2, <2>3, <2>4 DEF Truthful, Verdict, t, n
<1>2. NoCommittedSkipped
  <2> SUFFICES ASSUME NEW p \in Partition, NEW o \in 0 .. cursor[p] - 1,
                      log[p][o + 1].kind = "data", Verdict(p, o) = "committing"
               PROVE  o \in delivered[p]
    BY DEF NoCommittedSkipped
  <2> DEFINE t == log[p][o + 1].id
             n == log[p][o + 1].n
  <2>1. o + 1 \in 1 .. Len(log[p]) /\ o + 1 <= cursor[p] /\ (o + 1) - 1 = o
    <3>1. cursor[p] <= Len(log[p])
      BY DEF IInv, Reading
    <3> QED BY <1>0, <3>1
  <2>2. t \in Id /\ n \in 1 .. MaxTxns /\ o + 1 \in Data(log[p], t, n) /\ outcome[t][n] = "committing"
    BY <2>1, RecordOf DEF Verdict
  <2> HIDE DEF t, n
  <2>3. Consumed(log[p], t, cursor[p], delivered[p]) /\ Truthful(log[p], t, outcome[t])
    BY <2>2 DEF IInv, Known
  <2>4. At(log[p], t, n, "commit") # {}
    BY <2>1, <2>2, <2>3 DEF Consumed, Truthful, Marked
  <2> QED BY <2>1, <2>2, <2>3, <2>4 DEF Consumed
<1>3. StableIsMarked
  <2> SUFFICES ASSUME NEW p \in Partition, NEW i \in 1 .. LastStable(p), log[p][i].kind = "data"
               PROVE  \E j \in i + 1 .. End(p) : log[p][j].kind # "data"
                         /\ log[p][j].id = log[p][i].id /\ log[p][j].n = log[p][i].n
    BY DEF StableIsMarked
  <2> DEFINE t == log[p][i].id
             n == log[p][i].n
  <2>1. i \in 1 .. Len(log[p]) /\ i <= LastStable(p)
    BY StableBounds
  <2>2. t \in Id /\ n \in 1 .. MaxTxns /\ i \in Data(log[p], t, n)
    BY <2>1, RecordOf
  <2> HIDE DEF t, n
  <2>3. PICK k \in {"commit", "abort"} : At(log[p], t, n, k) # {}
    BY <2>1, <2>2, StableMarked DEF Marked
  <2>4. PICK j : j \in At(log[p], t, n, k)
    BY <2>3
  <2>5. i < j
    BY <2>2, <2>3, <2>4 DEF IInv, Known, Sequential
  <2>6. j \in 1 .. Len(log[p]) /\ log[p][j].id = t /\ log[p][j].n = n /\ log[p][j].kind # "data"
    BY <2>3, <2>4 DEF At
  <2> QED BY <1>0, <2>1, <2>5, <2>6 DEF End, t, n
<1> QED BY <1>1, <1>2, <1>3 DEF ReadCommittedIsExact

(***************************************************************************)
(* The read-committed consumer (isolation.py, laststableoffset.py,         *)
(* abortedindex.py) is handed the committed records and no others, and     *)
(* below the last stable offset every record's transaction is decided on   *)
(* the partition, whatever instances, expiries, crashes and retried        *)
(* markers there are.                                                      *)
(***************************************************************************)
THEOREM ReadCommittedExact == Spec => []ReadCommittedIsExact
BY Invariance, ExactFromIInv, PTL

(***************************************************************************)
(* No two markers of one transaction disagree, on whichever partitions and *)
(* however often CommitMarkers.recover drives them again.                  *)
(***************************************************************************)
THEOREM AllMarkersAgree == Spec => []MarkersAgree
<1>1. IInv => MarkersAgree
  <2> SUFFICES ASSUME IInv, NEW p \in Partition, NEW q \in Partition,
                      NEW i \in DOMAIN log[p], NEW j \in DOMAIN log[q],
                      log[p][i].kind # "data", log[q][j].kind # "data",
                      log[p][i].id = log[q][j].id, log[p][i].n = log[q][j].n
               PROVE  log[p][i].kind = log[q][j].kind
    BY DEF MarkersAgree
  <2> DEFINE t == log[p][i].id
             n == log[p][i].n
  <2>0. log[p] \in Seq(Entry) /\ log[q] \in Seq(Entry)
    BY DEF IInv, Types
  <2>1. i \in 1 .. Len(log[p]) /\ j \in 1 .. Len(log[q]) /\ log[p][i] \in Entry /\ log[q][j] \in Entry
    BY <2>0
  <2>2. log[p][i].kind \in {"commit", "abort"} /\ log[q][j].kind \in {"commit", "abort"}
    BY <2>1 DEF Entry
  <2>3. /\ t \in Id /\ n \in 1 .. MaxTxns
        /\ At(log[p], t, n, log[p][i].kind) # {} /\ At(log[q], t, n, log[q][j].kind) # {}
    BY <2>1, RecordOf
  <2> HIDE DEF t, n
  <2>4. Truthful(log[p], t, outcome[t]) /\ Truthful(log[q], t, outcome[t])
    BY <2>3 DEF IInv, Known
  <2> QED BY <2>2, <2>3, <2>4 DEF Truthful
<1> QED BY <1>1, Invariance, PTL

(***************************************************************************)
(* No step changes a verdict once given (Transaction._transition): not the *)
(* next instance's recovery, a timeout, an expiry, a crash or a zombie's   *)
(* late commit.                                                            *)
(***************************************************************************)
THEOREM FinalVerdicts == Spec => VerdictsAreFinal
<1> DEFINE Kept == \A t \in Id : \A n \in 1 .. MaxTxns :
                     outcome[t][n] # None => outcome'[t][n] = outcome[t][n]
<1>1. ASSUME IInv, NEW t \in Id, NEW v, Undecided(t), Decide(t, v) PROVE Kept
  <2>1. Judged(txn[t], written[t], outcome[t]) /\ outcome \in [Id -> [1 .. MaxTxns -> {"committing", "aborting", None}]]
    BY <1>1 DEF IInv, Types
  <2>2. \A m \in 1 .. MaxTxns : m = txn[t].n => outcome[t][m] = None
    BY <1>1, <2>1 DEF Judged, Undecided
  <2> QED BY <1>1, <2>1, <2>2 DEF Decide
<1>2. ASSUME IInv, [Next]_vars PROVE [Kept]_vars
  <2>1. CASE UNCHANGED outcome
    BY <2>1
  <2>2. CASE \E t \in Id : Undecided(t) /\ \E v : Decide(t, v)
    BY <1>1, <1>2, <2>2
  <2> QED
    BY <1>2, <2>1, <2>2, ZenonT(30) DEF Next, CoordinatorStep, vars, Register, RecoverDangling, TimeoutAbort,
      ForceAbort, WriteMarker, Declare, Begin, Produce, Complete, ReadCommitted, CoordinatorCrash
<1> QED BY <1>2, Invariance, PTL DEF Spec, VerdictsAreFinal
=============================================================================
