------------------------ MODULE MetadataQuorumProofs ------------------------
(***************************************************************************)
(* Proofs about the metadata quorum (MetadataQuorum): a term has one       *)
(* leader, what was committed stays, reads are fresh and snapshots cover   *)
(* what was discarded, for every set of nodes, however votes, restarts,    *)
(* promotions, heartbeats, appends and snapshots interleave.  One leader   *)
(* per term needs the votes alone; the rest holds as long as no append cut *)
(* entries of its own leader and none was committed without a majority.    *)
(*                                                                         *)
(* The arguments are about the past: who won a term, what the leader of a  *)
(* term wrote, which entries a node acknowledged in a term, which voters   *)
(* the quorum had.  The invariant says that such a past exists:            *)
(*   el  the elections: by term the leader, the voters of the time, the    *)
(*       votes and how long the winner's log was (base);                   *)
(*   hl  by term, the log of its leader, as far as it got;                 *)
(*   ak  <<t, v, i>>: node v held the log of term t up to i, in term t;    *)
(*   vh  the voter sets so far.                                            *)
(***************************************************************************)
EXTENDS MetadataQuorum, NaturalsOrder, SequenceTheorems

(***************************************************************************)
(* Any majority of the voters a quorum ever had meets any majority of the  *)
(* voters it has later.  QuorumMembership.promote asks for the observer's  *)
(* lag alone, so this is a condition on how far a quorum may grow.         *)
(***************************************************************************)
MajoritiesMeet ==
  \A V, W \in SUBSET Node :
    (\E I \in InitialVoters : I \subseteq V) /\ V \subseteq W
      => Majority(V) + Majority(W) > Cardinality(W)
----------------------------------------------------------------------------
(***************************************************************************)
(* One observer is no danger: a majority of k voters and a majority of     *)
(* k + 1 always meet.                                                      *)
(***************************************************************************)
LEMMA OneObserverIsSafe ==
  (\A I \in InitialVoters : Cardinality(Node \ I) <= 1) => MajoritiesMeet
<1> SUFFICES ASSUME \A I \in InitialVoters : Cardinality(Node \ I) <= 1,
                    NEW V \in SUBSET Node, NEW W \in SUBSET Node,
                    NEW I \in InitialVoters, I \subseteq V, V \subseteq W
             PROVE  Majority(V) + Majority(W) > Cardinality(W)
  BY DEF MajoritiesMeet
<1>1. IsFiniteSet(Node) /\ IsFiniteSet(V) /\ IsFiniteSet(W) /\ IsFiniteSet(Node \ I)
  BY FS_Subset, QuorumAssumption
<1>2. IsFiniteSet(W \ V) /\ Cardinality(W \ V) <= Cardinality(Node \ I)
  <2>1. W \ V \subseteq Node \ I
    OBVIOUS
  <2> QED
    BY <1>1, <2>1, FS_Subset
<1>3. Cardinality(W \ V) = Cardinality(W) - Cardinality(W \cap V)
  BY <1>1, FS_Difference
<1>4. W \cap V = V
  OBVIOUS
<1>5. /\ Cardinality(V) \in Nat /\ Cardinality(W) \in Nat /\ Cardinality(W \ V) \in Nat
      /\ Cardinality(Node \ I) \in Nat
  BY <1>1, <1>2, FS_CardinalityType
<1>6. Cardinality(W) <= Cardinality(V) + 1
  <2>1. Cardinality(Node \ I) <= 1
    OBVIOUS
  <2>2. Cardinality(W \ V) = Cardinality(W) - Cardinality(V)
    BY <1>3, <1>4
  <2> QED
    BY <1>2, <1>5, <2>1, <2>2
<1>7. ASSUME NEW v \in Nat, NEW w \in Nat, w <= v + 1
      PROVE  v \div 2 + 1 + (w \div 2 + 1) > w
  BY <1>7
<1> QED
  BY <1>5, <1>6, <1>7 DEF Majority

----------------------------------------------------------------------------
\* Position i of the log of term t is an entry of that term.
Own(hl, t, i) == i \in 1 .. Len(hl[t]) /\ hl[t][i] = t

\* A log holds entry i of term t.
Has(s, i, t) == i \in 1 .. Len(s) /\ s[i] = t

\* Up to each of its entries, a log is what the leader of that entry's term had.
Traced(el, hl, s) ==
  \A i \in 1 .. Len(s) :
    /\ s[i] \in DOMAIN el
    /\ i <= Len(hl[s[i]])
    /\ \A j \in 1 .. i : s[j] = hl[s[i]][j]

\* A majority of voters of the past acknowledged entry i of term t.
Chosen(vh, ak, t, i) ==
  \E V \in vh : \E Q \in SUBSET V :
    Cardinality(Q) >= Majority(V) /\ \A v \in Q : <<t, v, i>> \in ak

\* A majority of voters, past or to come, has acknowledged entry i of term t or may yet.
Choosable(vh, ak, vs, tm, t, i) ==
  \E V \in SUBSET Node : \E Q \in SUBSET V :
    /\ V \in vh \/ vs \subseteq V
    /\ Cardinality(Q) >= Majority(V)
    /\ \A v \in Q : tm[v] <= t \/ <<t, v, i>> \in ak
----------------------------------------------------------------------------
\* What a node may be.
Role == {"follower", "candidate", "leader"}

\* The types of what the first part of the invariant is about.
Types(el, hl) ==
  /\ term \in [Node -> Nat]
  /\ role \in [Node -> Role]
  /\ granted \in [Node -> SUBSET Node]
  /\ log \in [Node -> Seq(Nat)]
  /\ DOMAIN el \subseteq Nat
  /\ hl \in [Nat -> Seq(Nat)]

\* The types of what elections are about.
BallotTypes(el) ==
  /\ voters \in SUBSET Node
  /\ term \in [Node -> Nat]
  /\ role \in [Node -> Role]
  /\ electorate \in [Node -> SUBSET Node]
  /\ granted \in [Node -> SUBSET Node]
  /\ DOMAIN el \subseteq Nat

\* The voters only grew (QuorumMembership.promote).
Growth(vh) ==
  /\ voters \in vh
  /\ \A V \in vh :
       /\ V \in SUBSET Node
       /\ V \subseteq voters
       /\ \E I \in InitialVoters : I \subseteq V
  /\ \A V, W \in vh : V \subseteq W \/ W \subseteq V

\* A vote is spent: who granted one is in that term or a later one, and no other candidate
\* of the term has it (Election.request_vote).
VotesAreSpent ==
  \A c \in Node : role[c] = "candidate" =>
    /\ \A v \in granted[c] : term[v] >= term[c]
    /\ \A d \in Node :
         d # c /\ role[d] = "candidate" /\ term[d] = term[c] => granted[c] \cap granted[d] = {}

\* A candidate asks the voters it began with, who were the voters once.
Electorates(vh) ==
  \A c \in Node : role[c] = "candidate" =>
    electorate[c] \in vh /\ granted[c] \subseteq electorate[c]

\* The past elections were won by majorities of the voters of the time, whose votes no
\* other candidate of the term has or can still get; each leader won one.
Elections(el, vh) ==
  /\ \A t \in DOMAIN el :
       /\ el[t].voters \in vh
       /\ el[t].votes \subseteq el[t].voters
       /\ Cardinality(el[t].votes) >= Majority(el[t].voters)
       /\ \A v \in el[t].votes : term[v] >= t
       /\ \A c \in Node :
            role[c] = "candidate" /\ term[c] = t => granted[c] \cap el[t].votes = {}
  /\ \A l \in Node :
       role[l] = "leader" => term[l] \in DOMAIN el /\ el[term[l]].leader = l

(***************************************************************************)
(* The part of the invariant that needs nothing of the logs.               *)
(***************************************************************************)
Ballot(el, vh) ==
  /\ BallotTypes(el)
  /\ Growth(vh)
  /\ VotesAreSpent
  /\ Electorates(vh)
  /\ Elections(el, vh)

\* A leader's log starts with what it was elected with, and goes on with its own entries.
Chronicle(el, hl) ==
  \A t \in DOMAIN el :
    /\ el[t].base \in 0 .. Len(hl[t])
    /\ \A i \in 1 .. Len(hl[t]) : hl[t][i] <= t /\ (hl[t][i] = t <=> i > el[t].base)
    /\ Traced(el, hl, hl[t])

\* Every log is made of leaders' logs; no entry is newer than its holder's term.
Logs(el, hl) ==
  \A n \in Node :
    /\ Traced(el, hl, log[n])
    /\ \A i \in 1 .. Len(log[n]) :
         log[n][i] <= term[n] /\ (role[n] = "candidate" => log[n][i] < term[n])
    /\ role[n] = "leader" => log[n] = hl[term[n]]

\* A request carries the rest of its leader's log of the time, at least to what the leader
\* was elected with.
Requests(el, hl) ==
  \A m \in wire :
    /\ m.from \in Node /\ m.to \in Node /\ m.from # m.to
    /\ m.term \in DOMAIN el /\ el[m.term].leader = m.from
    /\ m.prev \in Nat /\ m.new \in Seq(Nat)
    /\ el[m.term].base <= m.prev + Len(m.new)
    /\ m.prev + Len(m.new) <= Len(hl[m.term])
    /\ \A j \in 1 .. Len(m.new) : m.new[j] = hl[m.term][m.prev + j]
    /\ m.prev > 0 => m.prev_term = hl[m.term][m.prev]

\* What is acknowledged is there, and its holder has been in that term.
Acks(el, hl, ak) ==
  \A t \in Nat, v \in Node, i \in Nat : <<t, v, i>> \in ak =>
    t \in DOMAIN el /\ i \in 1 .. Len(hl[t]) /\ term[v] >= t

\* An acknowledged entry that may become committed stays with its holder.
Kept(el, hl, ak, vh) ==
  \A t \in DOMAIN el, v \in Node, i \in Nat :
    <<t, v, i>> \in ak /\ Own(hl, t, i) /\ Choosable(vh, ak, voters, term, t, i)
      => Has(log[v], i, t)

\* A candidate holds every such entry that one of its voters acknowledged.
Candidates(el, hl, ak, vh) ==
  \A c \in Node : role[c] = "candidate" =>
    \A v \in granted[c], t \in DOMAIN el, i \in Nat :
      t < term[c] /\ <<t, v, i>> \in ak /\ Own(hl, t, i) /\ Choosable(vh, ak, voters, term, t, i)
        => Has(log[c], i, t)

\* A later leader was elected with every entry that an earlier one may have committed.
Complete(el, hl, ak, vh) ==
  \A t, u \in DOMAIN el, i \in Nat :
    t < u /\ Own(hl, t, i) /\ Choosable(vh, ak, voters, term, t, i)
      => i <= el[u].base /\ Has(hl[u], i, t)

(***************************************************************************)
(* The part of the invariant about votes, logs and requests.               *)
(***************************************************************************)
Core(el, hl, ak, vh) ==
  /\ Ballot(el, vh)
  /\ Types(el, hl)
  /\ Chronicle(el, hl)
  /\ Logs(el, hl)
  /\ Requests(el, hl)
  /\ Acks(el, hl, ak)
  /\ Kept(el, hl, ak, vh)
  /\ Candidates(el, hl, ak, vh)
  /\ Complete(el, hl, ak, vh)
----------------------------------------------------------------------------
(***************************************************************************)
(* Majorities of two comparable voter sets share a node.                   *)
(***************************************************************************)
LEMMA Meeting ==
  ASSUME MajoritiesMeet,
         NEW V \in SUBSET Node, NEW W \in SUBSET Node, V \subseteq W \/ W \subseteq V,
         \E I \in InitialVoters : I \subseteq V, \E I \in InitialVoters : I \subseteq W,
         NEW P \in SUBSET V, Cardinality(P) >= Majority(V),
         NEW Q \in SUBSET W, Cardinality(Q) >= Majority(W)
  PROVE  \E v \in P : v \in Q
<1>1. ASSUME NEW A \in SUBSET Node, NEW B \in SUBSET Node, A \subseteq B,
             \E I \in InitialVoters : I \subseteq A,
             NEW X \in SUBSET A, Cardinality(X) >= Majority(A),
             NEW Y \in SUBSET B, Cardinality(Y) >= Majority(B)
      PROVE  X \cap Y # {}
  <2>1. Majority(A) + Majority(B) > Cardinality(B)
    BY <1>1 DEF MajoritiesMeet
  <2>2. IsFiniteSet(A) /\ IsFiniteSet(B) /\ IsFiniteSet(X) /\ IsFiniteSet(Y)
    BY FS_Subset, QuorumAssumption, <1>1
  <2>3. /\ Cardinality(A) \in Nat /\ Cardinality(B) \in Nat
        /\ Cardinality(X) \in Nat /\ Cardinality(Y) \in Nat
    BY <2>2, FS_CardinalityType
  <2>4. Majority(A) \in Nat /\ Majority(B) \in Nat
    BY <2>3 DEF Majority
  <2>5. Cardinality(X) + Cardinality(Y) > Cardinality(B)
    BY <1>1, <2>1, <2>3, <2>4
  <2> QED
    BY <1>1, <2>2, <2>5, FS_MajoritiesIntersect
<1>2. CASE V \subseteq W
  BY <1>1, <1>2
<1>3. CASE W \subseteq V
  BY <1>1, <1>3
<1> QED
  BY <1>2, <1>3

(***************************************************************************)
(* What a term's election passed by cannot be committed behind its back:   *)
(* an entry of an earlier term that still may be was acknowledged by one   *)
(* of the votes of any set of voters that made a majority.                 *)
(***************************************************************************)
LEMMA PassedBy ==
  ASSUME MajoritiesMeet,
         NEW vh, Growth(vh), NEW ak, NEW t \in Nat, NEW i \in Nat, NEW u \in Nat, t < u,
         term \in [Node -> Nat],
         NEW W \in vh, NEW P \in SUBSET W, Cardinality(P) >= Majority(W),
         \A v \in P : term[v] >= u,
         Choosable(vh, ak, voters, term, t, i)
  PROVE  \E v \in P : <<t, v, i>> \in ak
<1>1. PICK V \in SUBSET Node : \E Q \in SUBSET V :
          /\ V \in vh \/ voters \subseteq V
          /\ Cardinality(Q) >= Majority(V)
          /\ \A v \in Q : term[v] <= t \/ <<t, v, i>> \in ak
  BY Zenon DEF Choosable
<1>2. PICK Q \in SUBSET V :
          /\ V \in vh \/ voters \subseteq V
          /\ Cardinality(Q) >= Majority(V)
          /\ \A v \in Q : term[v] <= t \/ <<t, v, i>> \in ak
  BY <1>1
<1>3. /\ W \in SUBSET Node /\ W \subseteq voters
      /\ \E I \in InitialVoters : I \subseteq W
      /\ \E I \in InitialVoters : I \subseteq V
      /\ V \subseteq W \/ W \subseteq V
  BY <1>2 DEF Growth
<1>4. PICK v \in P : v \in Q
  BY <1>2, <1>3, Meeting
<1>5. v \in Node /\ term[v] \in Nat /\ term[v] >= u
  BY <1>3
<1> QED
  BY <1>2, <1>4, <1>5

(***************************************************************************)
(* The past moves on: voters, terms and acknowledgements only grow, and a  *)
(* node acknowledges nothing of a term it has left.                        *)
(***************************************************************************)
Later(vh, ak, vs, tm, vh2, ak2, vs2, tm2) ==
  /\ vs \subseteq vs2
  /\ vh \subseteq vh2 /\ \A V \in vh2 : V \in vh \/ vs \subseteq V
  /\ \A v \in Node : tm[v] \in Nat /\ tm2[v] \in Nat /\ tm[v] <= tm2[v]
  /\ ak \subseteq ak2
  /\ \A t \in Nat, v \in Node, i \in Nat :
       <<t, v, i>> \in ak2 => <<t, v, i>> \in ak \/ tm[v] <= t

\* What cannot be committed any more never will be.
LEMMA ChoosableShrinks ==
  ASSUME NEW vh, NEW ak, NEW vs, NEW tm, NEW vh2, NEW ak2, NEW vs2, NEW tm2,
         Later(vh, ak, vs, tm, vh2, ak2, vs2, tm2), NEW t \in Nat, NEW i \in Nat,
         Choosable(vh2, ak2, vs2, tm2, t, i)
  PROVE  Choosable(vh, ak, vs, tm, t, i)
<1>0. PICK V \in SUBSET Node : \E Q \in SUBSET V :
          /\ V \in vh2 \/ vs2 \subseteq V
          /\ Cardinality(Q) >= Majority(V)
          /\ \A v \in Q : tm2[v] <= t \/ <<t, v, i>> \in ak2
  BY Zenon DEF Choosable
<1>1. PICK Q \in SUBSET V :
          /\ V \in vh2 \/ vs2 \subseteq V
          /\ Cardinality(Q) >= Majority(V)
          /\ \A v \in Q : tm2[v] <= t \/ <<t, v, i>> \in ak2
  BY <1>0
<1>2. V \in vh \/ vs \subseteq V
  BY <1>1 DEF Later
<1>3. \A v \in Q : tm[v] <= t \/ <<t, v, i>> \in ak
  BY <1>1 DEF Later
<1> QED
  BY <1>1, <1>2, <1>3 DEF Choosable

\* What is committed stays so.
LEMMA ChosenStays ==
  ASSUME NEW vh, NEW ak, NEW vs, NEW tm, NEW vh2, NEW ak2, NEW vs2, NEW tm2,
         Later(vh, ak, vs, tm, vh2, ak2, vs2, tm2), NEW t, NEW i, Chosen(vh, ak, t, i)
  PROVE  Chosen(vh2, ak2, t, i)
  BY DEF Later, Chosen

\* What is committed is what may be committed.
LEMMA ChosenIsChoosable ==
  ASSUME NEW vh, Growth(vh), NEW ak, NEW t, NEW i, Chosen(vh, ak, t, i), NEW tm
  PROVE  Choosable(vh, ak, voters, tm, t, i)
  BY DEF Choosable, Chosen, Growth
----------------------------------------------------------------------------
(***************************************************************************)
(* The steps as far as they touch votes, logs and requests.                *)
(***************************************************************************)

\* Types, pointwise.
LEMMA Typed ==
  ASSUME NEW el, NEW hl, Types(el, hl)
  PROVE  /\ \A n \in Node :
              /\ term[n] \in Nat /\ role[n] \in Role /\ granted[n] \in SUBSET Node
              /\ log[n] \in Seq(Nat) /\ Len(log[n]) \in Nat
              /\ \A i \in 1 .. Len(log[n]) : log[n][i] \in Nat
         /\ \A t \in DOMAIN el : t \in Nat
         /\ \A t \in Nat :
              /\ hl[t] \in Seq(Nat) /\ Len(hl[t]) \in Nat
              /\ \A i \in 1 .. Len(hl[t]) : hl[t][i] \in Nat
<1>1. \A s \in Seq(Nat) : Len(s) \in Nat /\ \A i \in 1 .. Len(s) : s[i] \in Nat
  OBVIOUS
<1> QED
  BY <1>1 DEF Types

\* A node moves to a term as a follower.
Followed(v, t) ==
  /\ v \in Node /\ t \in Nat /\ term[v] <= t
  /\ Follow(v, t)
  /\ granted' = [granted EXCEPT ![v] = {}]
  /\ UNCHANGED voters

\* Only terms moved on, and who is no follower is what it was.
LEMMA FollowedTerms ==
  ASSUME NEW el, BallotTypes(el), NEW v, NEW t, Followed(v, t)
  PROVE  /\ BallotTypes(el)'
         /\ \A n \in Node : term'[n] \in Nat /\ term[n] <= term'[n]
         /\ \A n \in Node : role'[n] # "follower" =>
              /\ n # v /\ role'[n] = role[n] /\ term'[n] = term[n] /\ granted'[n] = granted[n]
              /\ electorate'[n] = electorate[n]
         /\ term'[v] = t
         /\ \A n \in Node : n # v => term'[n] = term[n]
<1>f. /\ v \in Node /\ t \in Nat /\ term[v] <= t
      /\ term' = [term EXCEPT ![v] = t]
      /\ role' = [role EXCEPT ![v] = "follower"]
      /\ electorate' = [electorate EXCEPT ![v] = {}]
      /\ granted' = [granted EXCEPT ![v] = {}] /\ voters' = voters
  BY DEF Followed, Follow
<1>1. role'[v] = "follower" /\ term'[v] = t
  BY <1>f DEF BallotTypes
<1>2. \A n \in Node : n # v =>
         /\ role'[n] = role[n] /\ term'[n] = term[n] /\ granted'[n] = granted[n]
         /\ electorate'[n] = electorate[n]
  BY <1>f DEF BallotTypes
<1>3. \A n \in Node : term[n] \in Nat
  BY DEF BallotTypes
<1>4. \A n \in Node : term'[n] \in Nat /\ term[n] <= term'[n]
  BY <1>1, <1>2, <1>3, <1>f
<1>5. BallotTypes(el)'
  BY <1>f DEF BallotTypes, Role
<1> QED
  BY <1>1, <1>2, <1>4, <1>5

\* The votes that were given stay given.
LEMMA FollowedBallot ==
  ASSUME NEW el, NEW vh, Ballot(el, vh), NEW v, NEW t, Followed(v, t)
  PROVE  Ballot(el, vh)'
<1>t. BallotTypes(el)
  BY DEF Ballot
<1>c. Growth(vh) /\ VotesAreSpent /\ Electorates(vh) /\ Elections(el, vh)
  BY DEF Ballot
<1>u. /\ BallotTypes(el)'
      /\ \A n \in Node : term'[n] \in Nat /\ term[n] <= term'[n]
      /\ \A n \in Node : role'[n] # "follower" =>
           /\ n # v /\ role'[n] = role[n] /\ term'[n] = term[n] /\ granted'[n] = granted[n]
           /\ electorate'[n] = electorate[n]
  BY <1>t, FollowedTerms
<1>1. Growth(vh)'
  BY <1>c DEF Followed, Growth
<1>2. VotesAreSpent'
  <2> SUFFICES ASSUME NEW c \in Node, role'[c] = "candidate"
               PROVE  /\ \A w \in granted'[c] : term'[w] >= term'[c]
                      /\ \A d \in Node :
                           d # c /\ role'[d] = "candidate" /\ term'[d] = term'[c]
                             => granted'[c] \cap granted'[d] = {}
    BY DEF VotesAreSpent
  <2>1. role[c] = "candidate" /\ term'[c] = term[c] /\ granted'[c] = granted[c]
    BY <1>u
  <2>2. granted[c] \subseteq Node
    BY <1>t DEF BallotTypes
  <2>3. \A w \in granted[c] : term[w] \in Nat /\ term'[w] \in Nat /\ term[w] >= term[c]
    BY <1>c, <1>t, <1>u, <2>1, <2>2 DEF VotesAreSpent, BallotTypes
  <2>4. term[c] \in Nat
    BY <1>t DEF BallotTypes
  <2>5. \A w \in granted'[c] : term'[w] >= term'[c]
    BY <1>u, <2>1, <2>2, <2>3, <2>4
  <2>6. ASSUME NEW d \in Node, d # c, role'[d] = "candidate", term'[d] = term'[c]
        PROVE  granted'[c] \cap granted'[d] = {}
    BY <1>c, <1>u, <2>1, <2>6 DEF VotesAreSpent
  <2> QED
    BY <2>5, <2>6
<1>3. Electorates(vh)'
  BY <1>c, <1>u DEF Electorates
<1>4. Elections(el, vh)'
  <2>1. \A x \in DOMAIN el : el[x].votes \subseteq Node
    BY <1>c DEF Growth, Elections
  <2>2. ASSUME NEW x \in DOMAIN el
        PROVE  /\ \A w \in el[x].votes : term'[w] >= x
               /\ \A c \in Node : role'[c] = "candidate" /\ term'[c] = x
                                  => granted'[c] \cap el[x].votes = {}
    <3>1. \A w \in el[x].votes : term[w] >= x /\ term[w] \in Nat /\ term'[w] \in Nat
      BY <1>c, <1>t, <1>u, <2>1 DEF Elections, BallotTypes
    <3>2. x \in Nat
      BY <1>t DEF BallotTypes
    <3>3. \A w \in el[x].votes : term'[w] >= x
      BY <1>u, <2>1, <3>1, <3>2
    <3> QED
      BY <1>c, <1>u, <3>3 DEF Elections
  <2>3. \A l \in Node : role'[l] = "leader" => term'[l] \in DOMAIN el /\ el[term'[l]].leader = l
    BY <1>c, <1>u DEF Elections
  <2> QED
    BY <1>c, <2>2, <2>3 DEF Elections
<1> QED
  BY <1>1, <1>2, <1>3, <1>4, <1>u DEF Ballot

\* What a vote changes.
LEMMA VoteChanges ==
  ASSUME NEW el, BallotTypes(el), NEW v \in Node, NEW c \in Node, RequestVote(v, c)
  PROVE  /\ role[c] = "candidate" /\ v \in electorate[c] /\ term[v] < term[c] /\ v # c
         /\ BallotTypes(el)'
         /\ \A n \in Node : term'[n] \in Nat /\ term[n] <= term'[n]
         /\ role'[v] = "follower" /\ term'[v] = term[c] /\ granted'[v] = {}
         /\ \A n \in Node : n # v =>
              role'[n] = role[n] /\ term'[n] = term[n] /\ electorate'[n] = electorate[n]
         /\ \A n \in Node : n # v /\ n # c => granted'[n] = granted[n]
         /\ granted'[c] = IF Grants(v, c) THEN granted[c] \cup {v} ELSE granted[c]
         /\ \A n \in Node : role'[n] # "follower" =>
              n # v /\ role'[n] = role[n] /\ term'[n] = term[n]
<1>g. /\ role[c] = "candidate" /\ v \in electorate[c] /\ term[v] < term[c]
      /\ term' = [term EXCEPT ![v] = term[c]]
      /\ role' = [role EXCEPT ![v] = "follower"]
      /\ electorate' = [electorate EXCEPT ![v] = {}]
      /\ granted' = [granted EXCEPT ![v] = {},
                                    ![c] = IF Grants(v, c) THEN @ \cup {v} ELSE @]
      /\ voters' = voters
  BY DEF RequestVote, Follow
<1>n. \A n \in Node : term[n] \in Nat
  BY DEF BallotTypes
<1>v. v # c
  BY <1>g, <1>n
<1>1. role'[v] = "follower" /\ term'[v] = term[c]
  BY <1>g DEF BallotTypes
<1>2. \A n \in Node : n # v =>
        role'[n] = role[n] /\ term'[n] = term[n] /\ electorate'[n] = electorate[n]
  BY <1>g DEF BallotTypes
<1>3. /\ granted'[v] = {}
      /\ granted'[c] = IF Grants(v, c) THEN granted[c] \cup {v} ELSE granted[c]
      /\ \A n \in Node : n # v /\ n # c => granted'[n] = granted[n]
  BY <1>g, <1>v DEF BallotTypes
<1>4. \A n \in Node : term'[n] \in Nat /\ term[n] <= term'[n]
  BY <1>g, <1>n, <1>1, <1>2
<1>5. BallotTypes(el)'
  BY <1>g DEF BallotTypes, Role
<1> QED
  BY <1>g, <1>v, <1>1, <1>2, <1>3, <1>4, <1>5

(***************************************************************************)
(* A vote (Election.request_vote) goes to one candidate of the term.       *)
(***************************************************************************)
LEMMA VoteBallot ==
  ASSUME NEW el, NEW vh, Ballot(el, vh), NEW v \in Node, NEW c \in Node, RequestVote(v, c)
  PROVE  Ballot(el, vh)'
<1>t. BallotTypes(el)
  BY DEF Ballot
<1>c. Growth(vh) /\ VotesAreSpent /\ Electorates(vh) /\ Elections(el, vh)
  BY DEF Ballot
<1>g. role[c] = "candidate" /\ v \in electorate[c] /\ term[v] < term[c] /\ BallotTypes(el)'
  BY <1>t, VoteChanges
<1>n. \A n \in Node : term[n] \in Nat /\ granted[n] \in SUBSET Node
  BY <1>t DEF BallotTypes
<1>u. /\ \A n \in Node : term'[n] \in Nat /\ term[n] <= term'[n]
      /\ role'[v] = "follower" /\ term'[v] = term[c] /\ granted'[v] = {}
      /\ \A n \in Node : n # v =>
           role'[n] = role[n] /\ term'[n] = term[n] /\ electorate'[n] = electorate[n]
      /\ \A n \in Node : n # v /\ n # c => granted'[n] = granted[n]
      /\ granted'[c] = IF Grants(v, c) THEN granted[c] \cup {v} ELSE granted[c]
  BY <1>t, VoteChanges
<1>w. \A n \in Node : role'[n] # "follower" =>
        n # v /\ role'[n] = role[n] /\ term'[n] = term[n]
  BY <1>t, VoteChanges
<1>2. Growth(vh)'
  BY <1>c DEF Growth, RequestVote
\* Nobody of the candidate's term had this vote before.
<1>o. /\ \A d \in Node : role[d] = "candidate" /\ term[d] = term[c] => v \notin granted[d]
      /\ \A x \in DOMAIN el : term[c] = x => v \notin el[x].votes
  BY <1>c, <1>g, <1>n DEF VotesAreSpent, Elections
<1>3. VotesAreSpent'
  <2> SUFFICES ASSUME NEW a \in Node, role'[a] = "candidate"
               PROVE  /\ \A w \in granted'[a] : term'[w] >= term'[a]
                      /\ \A d \in Node :
                           d # a /\ role'[d] = "candidate" /\ term'[d] = term'[a]
                             => granted'[a] \cap granted'[d] = {}
    BY DEF VotesAreSpent
  <2>1. role[a] = "candidate" /\ term'[a] = term[a] /\ a # v
    BY <1>w
  <2>2. \A w \in granted[a] : w \in Node /\ term[w] >= term[a]
    BY <1>c, <1>n, <2>1 DEF VotesAreSpent
  <2>3. \A w \in granted[a] : term'[w] >= term'[a]
    BY <1>n, <1>u, <2>1, <2>2
  <2>4. \A w \in granted'[a] : term'[w] >= term'[a]
    BY <1>n, <1>u, <2>1, <2>3
  <2>5. ASSUME NEW d \in Node, d # a, role'[d] = "candidate", term'[d] = term'[a]
        PROVE  granted'[a] \cap granted'[d] = {}
    <3>1. role[d] = "candidate" /\ term[d] = term[a] /\ d # v
      BY <1>w, <2>1, <2>5
    <3>2. granted[a] \cap granted[d] = {}
      BY <1>c, <2>1, <2>5, <3>1 DEF VotesAreSpent
    <3>3. CASE a # c /\ d # c
      BY <1>u, <2>1, <3>1, <3>2, <3>3
    <3>4. CASE a = c
      <4>1. v \notin granted[d] /\ granted'[d] = granted[d]
        BY <1>o, <1>u, <2>5, <3>1, <3>4
      <4> QED
        BY <1>u, <3>2, <3>4, <4>1
    <3>5. CASE d = c
      <4>1. v \notin granted[a] /\ granted'[a] = granted[a]
        BY <1>o, <1>u, <2>1, <2>5, <3>1, <3>5
      <4> QED
        BY <1>u, <3>2, <3>5, <4>1
    <3> QED
      BY <3>3, <3>4, <3>5
  <2> QED
    BY <2>4, <2>5
<1>5. Electorates(vh)'
  <2> SUFFICES ASSUME NEW a \in Node, role'[a] = "candidate"
               PROVE  electorate'[a] \in vh /\ granted'[a] \subseteq electorate'[a]
    BY DEF Electorates
  <2>1. role[a] = "candidate" /\ a # v /\ electorate'[a] = electorate[a]
    BY <1>u, <1>w
  <2>2. electorate[a] \in vh /\ granted[a] \subseteq electorate[a]
    BY <1>c, <2>1 DEF Electorates
  <2>3. CASE a = c
    BY <1>g, <1>u, <2>1, <2>2, <2>3
  <2>4. CASE a # c
    BY <1>u, <2>1, <2>2, <2>4
  <2> QED
    BY <2>3, <2>4
<1>4. Elections(el, vh)'
  <2>1. \A x \in DOMAIN el : el[x].votes \subseteq Node /\ x \in Nat
    BY <1>c, <1>t, ZenonT(30) DEF Growth, Elections, BallotTypes
  <2>2. ASSUME NEW x \in DOMAIN el
        PROVE  /\ \A w \in el[x].votes : term'[w] >= x
               /\ \A a \in Node : role'[a] = "candidate" /\ term'[a] = x
                                  => granted'[a] \cap el[x].votes = {}
    <3>1. \A w \in el[x].votes : term[w] >= x /\ w \in Node
      BY <1>c, <2>1 DEF Elections
    <3>2. \A w \in el[x].votes : term'[w] >= x
      BY <1>n, <1>u, <2>1, <3>1
    <3>3. ASSUME NEW a \in Node, role'[a] = "candidate", term'[a] = x
          PROVE  granted'[a] \cap el[x].votes = {}
      <4>1. role[a] = "candidate" /\ term[a] = x /\ a # v
        BY <1>w, <3>3
      <4>2. granted[a] \cap el[x].votes = {}
        BY <1>c, <4>1 DEF Elections
      <4>3. a = c => v \notin el[x].votes
        BY <1>o, <4>1
      <4> QED
        BY <1>u, <4>1, <4>2, <4>3
    <3> QED
      BY <3>2, <3>3
  <2>3. \A l \in Node : role'[l] = "leader" => term'[l] \in DOMAIN el /\ el[term'[l]].leader = l
    BY <1>c, <1>w DEF Elections
  <2> QED
    BY <1>c, <2>2, <2>3 DEF Elections
<1> QED
  BY <1>g, <1>2, <1>3, <1>4, <1>5 DEF Ballot

\* What a candidacy changes.
LEMMA CampaignChanges ==
  ASSUME NEW el, BallotTypes(el), NEW c \in Node, Campaign(c)
  PROVE  /\ role[c] # "leader" /\ c \in voters /\ BallotTypes(el)'
         /\ \A n \in Node : term'[n] \in Nat /\ term[n] <= term'[n]
         /\ role'[c] = "candidate" /\ term'[c] = term[c] + 1 /\ granted'[c] = {c}
         /\ electorate'[c] = voters
         /\ \A n \in Node : n # c =>
              /\ role'[n] = role[n] /\ term'[n] = term[n] /\ granted'[n] = granted[n]
              /\ electorate'[n] = electorate[n]
<1>g. /\ role[c] # "leader" /\ c \in voters
      /\ term' = [term EXCEPT ![c] = term[c] + 1]
      /\ role' = [role EXCEPT ![c] = "candidate"]
      /\ electorate' = [electorate EXCEPT ![c] = voters]
      /\ granted' = [granted EXCEPT ![c] = {c}]
  BY DEF Campaign
<1>n. \A n \in Node : term[n] \in Nat
  BY DEF BallotTypes
<1>1. /\ role'[c] = "candidate" /\ term'[c] = term[c] + 1 /\ granted'[c] = {c}
      /\ electorate'[c] = voters
  BY <1>g DEF BallotTypes
<1>2. \A n \in Node : n # c =>
         /\ role'[n] = role[n] /\ term'[n] = term[n] /\ granted'[n] = granted[n]
         /\ electorate'[n] = electorate[n]
  BY <1>g DEF BallotTypes
<1>3. \A n \in Node : term'[n] \in Nat /\ term[n] <= term'[n]
  BY <1>n, <1>1, <1>2
<1>4. BallotTypes(el)'
  <2>1. term[c] + 1 \in Nat
    BY <1>n
  <2>2. voters' \in SUBSET Node /\ voters \in SUBSET Node
    BY DEF BallotTypes, Campaign
  <2> QED
    BY <1>g, <2>1, <2>2 DEF BallotTypes, Role
<1> QED
  BY <1>g, <1>1, <1>2, <1>3, <1>4

(***************************************************************************)
(* A candidacy: its own vote is a vote of a term it has not been in.       *)
(***************************************************************************)
LEMMA CampaignBallot ==
  ASSUME NEW el, NEW vh, Ballot(el, vh), NEW c \in Node, Campaign(c)
  PROVE  Ballot(el, vh)'
<1>t. BallotTypes(el)
  BY DEF Ballot
<1>c. Growth(vh) /\ VotesAreSpent /\ Electorates(vh) /\ Elections(el, vh)
  BY DEF Ballot
<1>g. role[c] # "leader" /\ c \in voters /\ BallotTypes(el)'
  BY <1>t, CampaignChanges
<1>n. \A n \in Node : term[n] \in Nat /\ granted[n] \in SUBSET Node
  BY <1>t DEF BallotTypes
<1>u. /\ \A n \in Node : term'[n] \in Nat /\ term[n] <= term'[n]
      /\ role'[c] = "candidate" /\ term'[c] = term[c] + 1 /\ granted'[c] = {c}
      /\ electorate'[c] = voters
      /\ \A n \in Node : n # c =>
           /\ role'[n] = role[n] /\ term'[n] = term[n] /\ granted'[n] = granted[n]
           /\ electorate'[n] = electorate[n]
  BY <1>t, CampaignChanges
<1>2. Growth(vh)'
  BY <1>c DEF Growth, Campaign
\* No candidate and no election of the new term has the vote.
<1>o. /\ \A d \in Node : role[d] = "candidate" /\ term[d] = term'[c] => c \notin granted[d]
      /\ \A x \in DOMAIN el : term'[c] = x => c \notin el[x].votes
  <2>1. ~ (term[c] >= term'[c])
    BY <1>n, <1>u
  <2> QED
    BY <1>c, <2>1 DEF VotesAreSpent, Elections
<1>3. VotesAreSpent'
  <2> SUFFICES ASSUME NEW a \in Node, role'[a] = "candidate"
               PROVE  /\ \A w \in granted'[a] : term'[w] >= term'[a]
                      /\ \A d \in Node :
                           d # a /\ role'[d] = "candidate" /\ term'[d] = term'[a]
                             => granted'[a] \cap granted'[d] = {}
    BY DEF VotesAreSpent
  <2>1. CASE a = c
    BY <1>o, <1>u, <2>1
  <2>2. CASE a # c
    <3>1. \A w \in granted[a] : w \in Node /\ term[w] >= term[a]
      BY <1>c, <1>n, <1>u, <2>2 DEF VotesAreSpent
    <3>2. \A w \in granted'[a] : term'[w] >= term'[a]
      BY <1>n, <1>u, <2>2, <3>1
    <3>3. ASSUME NEW d \in Node, d # a, role'[d] = "candidate", term'[d] = term'[a]
          PROVE  granted'[a] \cap granted'[d] = {}
      BY <1>c, <1>o, <1>u, <2>2, <3>3 DEF VotesAreSpent
    <3> QED
      BY <3>2, <3>3
  <2> QED
    BY <2>1, <2>2
<1>4. Elections(el, vh)'
  <2>1. \A x \in DOMAIN el : el[x].votes \subseteq Node /\ x \in Nat
    BY <1>c, <1>t, ZenonT(30) DEF Growth, Elections, BallotTypes
  <2>2. ASSUME NEW x \in DOMAIN el
        PROVE  /\ \A w \in el[x].votes : term'[w] >= x
               /\ \A a \in Node : role'[a] = "candidate" /\ term'[a] = x
                                  => granted'[a] \cap el[x].votes = {}
    <3>1. \A w \in el[x].votes : term[w] >= x /\ w \in Node
      BY <1>c, <2>1 DEF Elections
    <3>2. \A w \in el[x].votes : term'[w] >= x
      BY <1>n, <1>u, <2>1, <3>1
    <3>3. ASSUME NEW a \in Node, role'[a] = "candidate", term'[a] = x
          PROVE  granted'[a] \cap el[x].votes = {}
      BY <1>c, <1>o, <1>u, <3>3 DEF Elections
    <3> QED
      BY <3>2, <3>3
  <2>3. \A l \in Node : role'[l] = "leader" => term'[l] \in DOMAIN el /\ el[term'[l]].leader = l
    BY <1>c, <1>u DEF Elections
  <2> QED
    BY <1>c, <2>2, <2>3 DEF Elections
<1>5. Electorates(vh)'
  <2>1. voters \in vh
    BY <1>c DEF Growth
  <2> QED
    BY <1>c, <1>g, <1>u, <2>1 DEF Electorates
<1> QED
  BY <1>g, <1>2, <1>3, <1>4, <1>5 DEF Ballot

\* The elections with the one that c wins now.
Elected(el, c) ==
  [x \in DOMAIN el \cup {term[c]} |->
     IF x = term[c]
     THEN [leader |-> c, voters |-> electorate[c], votes |-> granted[c], base |-> Len(log[c])]
     ELSE el[x]]

\* A majority of those asked voted for c, and el2 adds the first election of the term.
Victory(el, vh, el2, c) ==
  /\ term[c] \notin DOMAIN el
  /\ electorate[c] \in vh /\ granted[c] \in SUBSET electorate[c]
  /\ Cardinality(granted[c]) >= Majority(electorate[c])
  /\ \A v \in granted[c] : v \in Node /\ term[v] >= term[c]
  /\ DOMAIN el2 = DOMAIN el \cup {term[c]}
  /\ \A x \in DOMAIN el : x # term[c] /\ el2[x] = el[x]
  /\ el2[term[c]].leader = c /\ el2[term[c]].base = Len(log[c])

(***************************************************************************)
(* An election: no other candidate of the term won or can win.             *)
(***************************************************************************)
LEMMA LeadBallot ==
  ASSUME MajoritiesMeet, NEW el, NEW vh, Ballot(el, vh), NEW c \in Node, BecomeLeader(c),
         NEW el2, el2 = Elected(el, c)
  PROVE  Ballot(el2, vh)' /\ Victory(el, vh, el2, c)
<1>z. PICK t : t = term[c]
  OBVIOUS
<1>t. BallotTypes(el)
  BY DEF Ballot
<1>c. Growth(vh) /\ VotesAreSpent /\ Electorates(vh) /\ Elections(el, vh)
  BY DEF Ballot
<1>g. /\ role[c] = "candidate" /\ Won(c)
      /\ role' = [role EXCEPT ![c] = "leader"]
      /\ electorate' = [electorate EXCEPT ![c] = {}]
      /\ granted' = [granted EXCEPT ![c] = {}]
      /\ term' = term /\ voters' = voters
  BY DEF BecomeLeader
<1>n. /\ \A n \in Node : term[n] \in Nat /\ granted[n] \in SUBSET Node
      /\ \A x \in DOMAIN el : x \in Nat
  BY <1>t DEF BallotTypes
<1>u. /\ role'[c] = "leader" /\ granted'[c] = {}
      /\ \A n \in Node : n # c =>
           role'[n] = role[n] /\ granted'[n] = granted[n] /\ electorate'[n] = electorate[n]
  BY <1>g, <1>t DEF BallotTypes
<1>m. /\ electorate[c] \in vh /\ electorate[c] \in SUBSET Node
      /\ granted[c] \in SUBSET electorate[c]
      /\ Cardinality(granted[c]) >= Majority(electorate[c])
      /\ \A v \in granted[c] : v \in Node /\ term[v] >= t
  BY <1>c, <1>g, <1>n, <1>t, <1>z DEF Won, Electorates, VotesAreSpent, BallotTypes
\* The term has no leader yet: its votes and these would meet.
<1>new. t \notin DOMAIN el
  <2> SUFFICES ASSUME t \in DOMAIN el PROVE FALSE
    OBVIOUS
  <2>1. /\ el[t].voters \in vh /\ el[t].votes \subseteq el[t].voters
        /\ Cardinality(el[t].votes) >= Majority(el[t].voters)
        /\ granted[c] \cap el[t].votes = {}
    BY <1>c, <1>g, <1>z DEF Elections
  <2>2. /\ el[t].voters \in SUBSET Node
        /\ el[t].voters \subseteq electorate[c] \/ electorate[c] \subseteq el[t].voters
        /\ \E I \in InitialVoters : I \subseteq el[t].voters
        /\ \E I \in InitialVoters : I \subseteq electorate[c]
    BY <1>c, <1>m, <2>1 DEF Growth
  <2>3. \E v \in el[t].votes : v \in granted[c]
    BY <1>m, <2>1, <2>2, Meeting
  <2> QED
    BY <2>1, <2>3
<1>e. /\ DOMAIN el2 = DOMAIN el \cup {t}
      /\ \A x \in DOMAIN el : x # t /\ el2[x] = el[x]
      /\ el2[t].leader = c /\ el2[t].voters = electorate[c]
      /\ el2[t].votes = granted[c] /\ el2[t].base = Len(log[c])
  BY <1>new, <1>z DEF Elected
<1>i. t \in Nat
  BY <1>n, <1>z
<1>1. BallotTypes(el2)'
  <2>1. DOMAIN el2 \subseteq Nat
    BY <1>e, <1>i, <1>n
  <2> QED
    BY <1>g, <1>t, <2>1 DEF BallotTypes, Role
<1>2. Growth(vh)'
  BY <1>c, <1>g DEF Growth
<1>3. VotesAreSpent'
  BY <1>c, <1>g, <1>u DEF VotesAreSpent
<1>5. Electorates(vh)'
  BY <1>c, <1>g, <1>u DEF Electorates
<1>4. Elections(el2, vh)'
  <2>1. ASSUME NEW x \in DOMAIN el2
        PROVE  /\ el2[x].voters \in vh /\ el2[x].votes \subseteq el2[x].voters
               /\ Cardinality(el2[x].votes) >= Majority(el2[x].voters)
               /\ \A w \in el2[x].votes : term'[w] >= x
               /\ \A a \in Node : role'[a] = "candidate" /\ term'[a] = x
                                  => granted'[a] \cap el2[x].votes = {}
    <3>1. CASE x = t
      <4>1. \A a \in Node : role'[a] = "candidate" /\ term'[a] = x
                                  => granted'[a] \cap granted[c] = {}
        BY <1>c, <1>g, <1>u, <1>z, <3>1 DEF VotesAreSpent
      <4> QED
        BY <1>e, <1>m, <1>g, <3>1, <4>1
    <3>2. CASE x # t
      <4>1. x \in DOMAIN el /\ el2[x] = el[x]
        BY <1>e, <3>2
      <4> QED
        BY <1>c, <1>g, <1>u, <4>1 DEF Elections
    <3> QED
      BY <3>1, <3>2
  <2>2. ASSUME NEW l \in Node, role'[l] = "leader"
        PROVE  term'[l] \in DOMAIN el2 /\ el2[term'[l]].leader = l
    <3>1. CASE l = c
      BY <1>e, <1>g, <3>1, <1>z
    <3>2. CASE l # c
      BY <1>c, <1>e, <1>g, <1>u, <2>2, <3>2 DEF Elections
    <3> QED
      BY <3>1, <3>2
  <2> QED
    BY <2>1, <2>2 DEF Elections
<1> QED
  BY <1>1, <1>2, <1>3, <1>4, <1>5, <1>e, <1>m, <1>new, <1>z DEF Ballot, Victory

\* An observer becomes a voter: the voters so far are in the past.
LEMMA PromoteBallot ==
  ASSUME NEW el, NEW vh, Ballot(el, vh), NEW l \in Node, NEW b \in Node, Promote(l, b),
         NEW vh2, vh2 = vh \cup {voters'}
  PROVE  Ballot(el, vh2)'
<1>c. /\ BallotTypes(el)
      /\ Growth(vh) /\ VotesAreSpent /\ Electorates(vh) /\ Elections(el, vh)
  BY DEF Ballot
<1>g. /\ voters' = voters \cup {b} /\ term' = term /\ role' = role
      /\ electorate' = electorate /\ granted' = granted
  BY DEF Promote
<1>1. BallotTypes(el)'
  BY <1>c, <1>g DEF BallotTypes
<1>2. Growth(vh2)'
  <2>1. voters' \in vh2 /\ voters \in vh
    BY <1>c DEF Growth
  <2>2. ASSUME NEW V \in vh2
        PROVE  /\ V \in SUBSET Node /\ V \subseteq voters'
               /\ \E I \in InitialVoters : I \subseteq V
    <3>1. CASE V \in vh
      BY <1>c, <1>g, <3>1 DEF Growth
    <3>2. CASE V = voters'
      <4>1. voters \in SUBSET Node /\ \E I \in InitialVoters : I \subseteq voters
        BY <1>c, <2>1 DEF Growth
      <4> QED
        BY <1>g, <3>2, <4>1
    <3> QED
      BY <3>1, <3>2
  <2>3. ASSUME NEW V \in vh2, NEW W \in vh2 PROVE V \subseteq W \/ W \subseteq V
    <3>1. CASE V \in vh /\ W \in vh
      BY <1>c, <3>1 DEF Growth
    <3>2. CASE V = voters' \/ W = voters'
      BY <2>2, <3>2
    <3> QED
      BY <3>1, <3>2
  <2> QED
    BY <2>1, <2>2, <2>3 DEF Growth
<1>3. VotesAreSpent'
  BY <1>c, <1>g DEF VotesAreSpent
<1>4. Electorates(vh2)'
  BY <1>c, <1>g DEF Electorates
<1>5. Elections(el, vh2)'
  BY <1>c, <1>g DEF Elections
<1> QED
  BY <1>1, <1>2, <1>3, <1>4, <1>5 DEF Ballot

\* Steps of other parts.
LEMMA SameBallot ==
  ASSUME NEW el, NEW vh, Ballot(el, vh), UNCHANGED electionVars
  PROVE  Ballot(el, vh)'
<1>1. /\ voters' = voters /\ term' = term /\ role' = role
      /\ electorate' = electorate /\ granted' = granted
  BY DEF electionVars
<1> QED
  BY <1>1 DEF Ballot, BallotTypes, Growth, VotesAreSpent, Electorates, Elections

\* A node moves to a term and keeps its log; requests may get lost (Confirm, Crash, and a
\* request that does not agree).
LEMMA FollowedCore ==
  ASSUME NEW el, NEW hl, NEW ak, NEW vh, Core(el, hl, ak, vh), NEW v, NEW t, Followed(v, t),
         log' = log, wire' \subseteq wire
  PROVE  Core(el, hl, ak, vh)'
<1>t. Types(el, hl)
  BY DEF Core, Ballot
<1>c. /\ Chronicle(el, hl) /\ Logs(el, hl)
      /\ Acks(el, hl, ak) /\ Requests(el, hl)
      /\ Kept(el, hl, ak, vh) /\ Candidates(el, hl, ak, vh) /\ Complete(el, hl, ak, vh)
  BY DEF Core, Ballot
<1>b. BallotTypes(el) /\ Ballot(el, vh)
  BY DEF Core, Ballot
<1>u. /\ \A n \in Node : term'[n] \in Nat /\ term[n] <= term'[n]
      /\ \A n \in Node : role'[n] # "follower" =>
           n # v /\ role'[n] = role[n] /\ term'[n] = term[n] /\ granted'[n] = granted[n]
  BY <1>b, FollowedTerms
<1>s. \A x, i \in Nat : Choosable(vh, ak, voters', term', x, i)
                       => Choosable(vh, ak, voters, term, x, i)
  <2>1. Later(vh, ak, voters, term, vh, ak, voters', term')
    BY <1>t, <1>u DEF Later, Types, Followed
  <2> QED
    BY <2>1, ChoosableShrinks
<1>1. Ballot(el, vh)'
  BY <1>b, FollowedBallot
<1>2. Types(el, hl)'
  BY <1>t, <1>1 DEF Types, Ballot, BallotTypes
<1>3. Chronicle(el, hl)'
  BY <1>c DEF Chronicle
<1>4. Logs(el, hl)'
  <2> SUFFICES ASSUME NEW n \in Node
               PROVE  /\ \A i \in 1 .. Len(log[n]) :
                           /\ log[n][i] <= term'[n]
                           /\ role'[n] = "candidate" => log[n][i] < term'[n]
                      /\ role'[n] = "leader" => log[n] = hl[term'[n]]
    BY <1>c DEF Logs
  <2>1. ASSUME NEW i \in 1 .. Len(log[n])
        PROVE  /\ log[n][i] <= term'[n]
               /\ role'[n] = "candidate" => log[n][i] < term'[n]
    <3>1. log[n][i] \in Nat /\ term[n] \in Nat /\ term'[n] \in Nat
      BY <1>t, <1>u, Typed
    <3>2. log[n][i] <= term[n] /\ (role[n] = "candidate" => log[n][i] < term[n])
      BY <1>c DEF Logs
    <3> QED
      BY <1>u, <3>1, <3>2
  <2> QED
    BY <1>c, <1>u, <2>1 DEF Logs
<1>5. Requests(el, hl)'
  BY <1>c DEF Requests
<1>6. Acks(el, hl, ak)'
  <2> SUFFICES ASSUME NEW x \in Nat, NEW w \in Node, NEW i \in Nat, <<x, w, i>> \in ak
               PROVE  x \in DOMAIN el /\ i \in 1 .. Len(hl[x]) /\ term'[w] >= x
    BY DEF Acks
  <2>1. x \in DOMAIN el /\ i \in 1 .. Len(hl[x]) /\ term[w] >= x
    BY <1>c DEF Acks
  <2>2. term[w] \in Nat /\ term'[w] \in Nat /\ term[w] <= term'[w]
    BY <1>t, <1>u, Typed
  <2> QED
    BY <2>1, <2>2
<1>7. Kept(el, hl, ak, vh)'
  BY <1>c, <1>t, <1>s DEF Kept, Types
<1>8. Candidates(el, hl, ak, vh)'
  BY <1>c, <1>t, <1>s, <1>u DEF Candidates, Types
<1>9. Complete(el, hl, ak, vh)'
  BY <1>c, <1>t, <1>s DEF Complete, Types
<1> QED
  BY <1>1, <1>2, <1>3, <1>4, <1>5, <1>6, <1>7, <1>8, <1>9 DEF Core

(***************************************************************************)
(* A log at least as current as one that holds an entry that may become    *)
(* committed holds it too: LogEnd.at_least_as_current_as is enough.        *)
(***************************************************************************)
LEMMA Currency ==
  ASSUME NEW el, NEW hl, NEW ak, NEW vh, Types(el, hl), Chronicle(el, hl),
         Complete(el, hl, ak, vh),
         NEW s \in Seq(Nat), NEW r \in Seq(Nat), Traced(el, hl, s), Traced(el, hl, r),
         NEW t \in DOMAIN el, NEW i \in Nat, Has(r, i, t), Own(hl, t, i),
         Choosable(vh, ak, voters, term, t, i), AtLeastAsCurrent(s, r)
  PROVE  Has(s, i, t)
<1> DEFINE x == s[Len(s)]
           y == r[Len(r)]
<1>1. Len(s) \in Nat /\ Len(r) \in Nat /\ i \in 1 .. Len(r) /\ r[i] = t
  BY DEF Has
<1>2. y \in Nat /\ y \in DOMAIN el /\ Len(r) <= Len(hl[y]) /\ r[i] = hl[y][i]
  BY <1>1 DEF Traced
<1>3. t \in Nat /\ t <= y /\ Len(hl[y]) \in Nat
  <2>1. Len(hl[y]) \in Nat /\ t \in Nat
    BY <1>2, Typed
  <2>2. i \in 1 .. Len(hl[y])
    BY <1>1, <1>2, <2>1
  <2> QED
    BY <1>1, <1>2, <2>1, <2>2 DEF Chronicle
<1>4. LastTerm(r) = y
  BY <1>1 DEF LastTerm, Last
<1>5. Len(s) > 0
  <2> SUFFICES ASSUME Len(s) = 0 PROVE FALSE
    BY <1>1
  <2>1. LastTerm(s) = 0
    BY DEF LastTerm
  <2> QED
    BY <1>1, <1>2, <1>4, <2>1 DEF AtLeastAsCurrent
<1>6. LastTerm(s) = x
  BY <1>1, <1>5 DEF LastTerm, Last
<1>7. /\ x \in Nat /\ x \in DOMAIN el /\ Len(s) <= Len(hl[x])
      /\ \A j \in 1 .. Len(s) : s[j] = hl[x][j]
  BY <1>1, <1>5 DEF Traced
<1>8. CASE x > y
  <2>1. t < x
    BY <1>2, <1>3, <1>7, <1>8
  <2>2. i <= el[x].base /\ Has(hl[x], i, t)
    BY <1>7, <2>1 DEF Complete
  <2>3. Len(s) \in 1 .. Len(hl[x]) /\ hl[x][Len(s)] = x
    BY <1>1, <1>5, <1>7, Typed
  <2>4. Len(s) > el[x].base
    BY <1>7, <2>3 DEF Chronicle
  <2>5. el[x].base \in Int
    BY <1>7 DEF Chronicle
  <2>6. i \in 1 .. Len(s)
    BY <1>1, <2>2, <2>4, <2>5
  <2> QED
    BY <1>7, <2>2, <2>6 DEF Has
<1>9. CASE x = y /\ Len(s) >= Len(r)
  <2>1. i \in 1 .. Len(s)
    BY <1>1, <1>9
  <2> QED
    BY <1>1, <1>2, <1>7, <1>9, <2>1 DEF Has
<1> QED
  BY <1>4, <1>6, <1>8, <1>9 DEF AtLeastAsCurrent

(***************************************************************************)
(* A vote (Election.request_vote): it goes to one candidate of the term,   *)
(* and only to one that holds what the voter holds.                        *)
(***************************************************************************)
LEMMA VoteCore ==
  ASSUME NEW el, NEW hl, NEW ak, NEW vh, Core(el, hl, ak, vh),
         NEW v \in Node, NEW c \in Node, RequestVote(v, c)
  PROVE  Core(el, hl, ak, vh)'
<1>t. Types(el, hl)
  BY DEF Core, Ballot
<1>c. /\ Growth(vh) /\ VotesAreSpent /\ Elections(el, vh) /\ Chronicle(el, hl) /\ Logs(el, hl)
      /\ Acks(el, hl, ak) /\ Requests(el, hl)
      /\ Kept(el, hl, ak, vh) /\ Candidates(el, hl, ak, vh) /\ Complete(el, hl, ak, vh)
  BY DEF Core, Ballot
<1>b. BallotTypes(el) /\ Ballot(el, vh)
  BY DEF Core, Ballot
<1>g. voters' = voters /\ log' = log /\ wire' = wire /\ role[c] = "candidate"
  BY DEF RequestVote, logVars
<1>n. \A n \in Node : term[n] \in Nat /\ granted[n] \in SUBSET Node
  BY <1>t, Typed
<1>u. /\ \A n \in Node : term'[n] \in Nat /\ term[n] <= term'[n]
      /\ role'[v] = "follower" /\ term'[v] = term[c] /\ granted'[v] = {}
      /\ \A n \in Node : n # v =>
           role'[n] = role[n] /\ term'[n] = term[n] /\ electorate'[n] = electorate[n]
      /\ \A n \in Node : n # v /\ n # c => granted'[n] = granted[n]
      /\ granted'[c] = IF Grants(v, c) THEN granted[c] \cup {v} ELSE granted[c]
  BY <1>b, VoteChanges
<1>w. \A n \in Node : role'[n] # "follower" =>
        n # v /\ role'[n] = role[n] /\ term'[n] = term[n]
  BY <1>b, VoteChanges
<1>s. \A x, i \in Nat : Choosable(vh, ak, voters', term', x, i)
                       => Choosable(vh, ak, voters, term, x, i)
  <2>1. Later(vh, ak, voters, term, vh, ak, voters', term')
    BY <1>n, <1>u, <1>g DEF Later
  <2> QED
    BY <2>1, ChoosableShrinks
<1>1. Ballot(el, vh)'
  BY <1>b, VoteBallot
<1>2. Types(el, hl)'
  BY <1>t, <1>g, <1>1 DEF Types, Ballot, BallotTypes
<1>5. Chronicle(el, hl)'
  BY <1>c DEF Chronicle
<1>6. Logs(el, hl)'
  <2> SUFFICES ASSUME NEW n \in Node
               PROVE  /\ \A i \in 1 .. Len(log[n]) :
                           /\ log[n][i] <= term'[n]
                           /\ role'[n] = "candidate" => log[n][i] < term'[n]
                      /\ role'[n] = "leader" => log[n] = hl[term'[n]]
    BY <1>c, <1>g DEF Logs
  <2>1. ASSUME NEW i \in 1 .. Len(log[n])
        PROVE  /\ log[n][i] <= term'[n]
               /\ role'[n] = "candidate" => log[n][i] < term'[n]
    <3>1. log[n][i] \in Nat /\ term[n] \in Nat /\ term'[n] \in Nat
      BY <1>t, <1>u, Typed
    <3>2. log[n][i] <= term[n] /\ (role[n] = "candidate" => log[n][i] < term[n])
      BY <1>c DEF Logs
    <3> QED
      BY <1>u, <1>w, <3>1, <3>2
  <2> QED
    BY <1>c, <1>w, <2>1 DEF Logs
<1>7. Requests(el, hl)'
  BY <1>c, <1>g DEF Requests
<1>8. Acks(el, hl, ak)'
  <2> SUFFICES ASSUME NEW x \in Nat, NEW w \in Node, NEW i \in Nat, <<x, w, i>> \in ak
               PROVE  x \in DOMAIN el /\ i \in 1 .. Len(hl[x]) /\ term'[w] >= x
    BY DEF Acks
  <2>1. x \in DOMAIN el /\ i \in 1 .. Len(hl[x]) /\ term[w] >= x
    BY <1>c DEF Acks
  <2> QED
    BY <1>n, <1>u, <2>1
<1>9. Kept(el, hl, ak, vh)'
  BY <1>c, <1>g, <1>t, <1>s DEF Kept, Types
<1>10. Candidates(el, hl, ak, vh)'
  <2> SUFFICES ASSUME NEW a \in Node, role'[a] = "candidate",
                      NEW w \in granted'[a], NEW x \in DOMAIN el, NEW i \in Nat,
                      x < term'[a], <<x, w, i>> \in ak, Own(hl, x, i),
                      Choosable(vh, ak, voters', term', x, i)
               PROVE  Has(log[a], i, x)
    BY <1>g DEF Candidates
  <2>1. role[a] = "candidate" /\ term'[a] = term[a] /\ a # v
    BY <1>w
  <2>2. x \in Nat /\ Choosable(vh, ak, voters, term, x, i)
    BY <1>t, <1>s DEF Types
  <2>3. CASE w \in granted[a]
    BY <1>c, <2>1, <2>2, <2>3 DEF Candidates
  <2>4. CASE w \notin granted[a]
    <3>1. a = c /\ w = v /\ Grants(v, c)
      BY <1>u, <2>1, <2>4
    <3>2. Has(log[v], i, x)
      BY <1>c, <2>2, <3>1 DEF Kept
    <3>3. /\ log[c] \in Seq(Nat) /\ log[v] \in Seq(Nat)
          /\ Traced(el, hl, log[c]) /\ Traced(el, hl, log[v])
      BY <1>c, <1>t DEF Logs, Types
    <3>4. AtLeastAsCurrent(log[c], log[v])
      BY <3>1 DEF Grants
    <3>5. Has(log[c], i, x)
      BY <1>t, <1>c, <2>2, <3>2, <3>3, <3>4, Currency
    <3> QED
      BY <3>1, <3>5
  <2> QED
    BY <2>3, <2>4
<1>11. Complete(el, hl, ak, vh)'
  BY <1>c, <1>t, <1>s DEF Complete, Types
<1> QED
  BY <1>1, <1>2, <1>5, <1>6, <1>7, <1>8, <1>9, <1>10, <1>11 DEF Core

(***************************************************************************)
(* A candidacy: its own vote is a vote of a term it has not been in.       *)
(***************************************************************************)
LEMMA CampaignCore ==
  ASSUME NEW el, NEW hl, NEW ak, NEW vh, Core(el, hl, ak, vh), NEW c \in Node, Campaign(c)
  PROVE  Core(el, hl, ak, vh)'
<1>t. Types(el, hl)
  BY DEF Core, Ballot
<1>c. /\ Growth(vh) /\ VotesAreSpent /\ Elections(el, vh) /\ Chronicle(el, hl) /\ Logs(el, hl)
      /\ Acks(el, hl, ak) /\ Requests(el, hl)
      /\ Kept(el, hl, ak, vh) /\ Candidates(el, hl, ak, vh) /\ Complete(el, hl, ak, vh)
  BY DEF Core, Ballot
<1>b. BallotTypes(el) /\ Ballot(el, vh)
  BY DEF Core, Ballot
<1>g. voters' = voters /\ log' = log /\ wire' = wire
  BY DEF Campaign, logVars
<1>n. \A n \in Node : term[n] \in Nat /\ granted[n] \in SUBSET Node
  BY <1>t, Typed
<1>u. /\ \A n \in Node : term'[n] \in Nat /\ term[n] <= term'[n]
      /\ role'[c] = "candidate" /\ term'[c] = term[c] + 1 /\ granted'[c] = {c}
      /\ \A n \in Node : n # c =>
           role'[n] = role[n] /\ term'[n] = term[n] /\ granted'[n] = granted[n]
  BY <1>b, CampaignChanges
<1>s. \A x, i \in Nat : Choosable(vh, ak, voters', term', x, i)
                       => Choosable(vh, ak, voters, term, x, i)
  <2>1. Later(vh, ak, voters, term, vh, ak, voters', term')
    BY <1>n, <1>u, <1>g DEF Later
  <2> QED
    BY <2>1, ChoosableShrinks
<1>1. Ballot(el, vh)'
  BY <1>b, CampaignBallot
<1>2. Types(el, hl)'
  BY <1>t, <1>g, <1>1 DEF Types, Ballot, BallotTypes
<1>5. Chronicle(el, hl)'
  BY <1>c DEF Chronicle
<1>6. Logs(el, hl)'
  <2> SUFFICES ASSUME NEW n \in Node
               PROVE  /\ \A i \in 1 .. Len(log[n]) :
                           /\ log[n][i] <= term'[n]
                           /\ role'[n] = "candidate" => log[n][i] < term'[n]
                      /\ role'[n] = "leader" => log[n] = hl[term'[n]]
    BY <1>c, <1>g DEF Logs
  <2>1. ASSUME NEW i \in 1 .. Len(log[n])
        PROVE  /\ log[n][i] <= term'[n]
               /\ role'[n] = "candidate" => log[n][i] < term'[n]
    <3>1. log[n][i] \in Nat /\ term[n] \in Nat /\ term'[n] \in Nat
      BY <1>t, <1>u, Typed
    <3>2. log[n][i] <= term[n] /\ (role[n] = "candidate" => log[n][i] < term[n])
      BY <1>c DEF Logs
    <3> QED
      BY <1>u, <3>1, <3>2
  <2> QED
    BY <1>c, <1>u, <2>1 DEF Logs
<1>7. Requests(el, hl)'
  BY <1>c, <1>g DEF Requests
<1>8. Acks(el, hl, ak)'
  <2> SUFFICES ASSUME NEW x \in Nat, NEW w \in Node, NEW i \in Nat, <<x, w, i>> \in ak
               PROVE  x \in DOMAIN el /\ i \in 1 .. Len(hl[x]) /\ term'[w] >= x
    BY DEF Acks
  <2>1. x \in DOMAIN el /\ i \in 1 .. Len(hl[x]) /\ term[w] >= x
    BY <1>c DEF Acks
  <2> QED
    BY <1>n, <1>u, <2>1
<1>9. Kept(el, hl, ak, vh)'
  BY <1>c, <1>g, <1>t, <1>s DEF Kept, Types
<1>10. Candidates(el, hl, ak, vh)'
  <2> SUFFICES ASSUME NEW a \in Node, role'[a] = "candidate",
                      NEW w \in granted'[a], NEW x \in DOMAIN el, NEW i \in Nat,
                      x < term'[a], <<x, w, i>> \in ak, Own(hl, x, i),
                      Choosable(vh, ak, voters', term', x, i)
               PROVE  Has(log[a], i, x)
    BY <1>g DEF Candidates
  <2>1. x \in Nat /\ Choosable(vh, ak, voters, term, x, i)
    BY <1>t, <1>s DEF Types
  <2>2. CASE a = c
    BY <1>c, <1>u, <2>1, <2>2 DEF Kept
  <2>3. CASE a # c
    BY <1>c, <1>u, <2>1, <2>3 DEF Candidates
  <2> QED
    BY <2>2, <2>3
<1>11. Complete(el, hl, ak, vh)'
  BY <1>c, <1>t, <1>s DEF Complete, Types
<1> QED
  BY <1>1, <1>2, <1>5, <1>6, <1>7, <1>8, <1>9, <1>10, <1>11 DEF Core

\* Leaders' logs got longer, and elections were added.
Longer(el, hl, el2, hl2) ==
  /\ DOMAIN el \subseteq DOMAIN el2
  /\ \A x \in DOMAIN el :
       /\ Len(hl[x]) \in Nat /\ Len(hl2[x]) \in Nat /\ Len(hl[x]) <= Len(hl2[x])
       /\ \A j \in 1 .. Len(hl[x]) : hl2[x][j] = hl[x][j]

\* Longer logs of leaders explain what the shorter ones did.
LEMMA TracedExtends ==
  ASSUME NEW el, NEW hl, NEW el2, NEW hl2, Longer(el, hl, el2, hl2),
         NEW s \in Seq(Nat), Traced(el, hl, s)
  PROVE  Traced(el2, hl2, s)
<1> SUFFICES ASSUME NEW i \in 1 .. Len(s)
             PROVE  /\ s[i] \in DOMAIN el2 /\ i <= Len(hl2[s[i]])
                    /\ \A j \in 1 .. i : s[j] = hl2[s[i]][j]
  BY DEF Traced
<1>1. /\ s[i] \in DOMAIN el /\ i <= Len(hl[s[i]]) /\ \A j \in 1 .. i : s[j] = hl[s[i]][j]
      /\ i \in Nat
  BY DEF Traced
<1>2. \A j \in 1 .. i : j \in 1 .. Len(hl[s[i]])
  BY <1>1
<1> QED
  BY <1>1, <1>2 DEF Longer

(***************************************************************************)
(* An election: no other candidate of the term won or can win, and the     *)
(* winner holds every entry that may have been committed before.           *)
(***************************************************************************)
LEMMA LeadCore ==
  ASSUME MajoritiesMeet, NEW el, NEW hl, NEW ak, NEW vh, Core(el, hl, ak, vh),
         NEW c \in Node, BecomeLeader(c)
  PROVE  \E el2, hl2, ak2 :
           /\ Core(el2, hl2, ak2, vh)'
           /\ Later(vh, ak, voters, term, vh, ak2, voters', term')
           /\ Longer(el, hl, el2, hl2)
           /\ term[c] \notin DOMAIN el
           /\ \A x \in Nat, v \in Node, i \in Nat :
                <<x, v, i>> \in ak2 <=>
                  <<x, v, i>> \in ak \/ (x = term[c] /\ v = c /\ i \in 1 .. Len(log[c]))
<1>z. PICK t : t = term[c]
  OBVIOUS
<1>t. Types(el, hl)
  BY DEF Core, Ballot
<1>c. /\ Growth(vh) /\ VotesAreSpent /\ Elections(el, vh) /\ Chronicle(el, hl) /\ Logs(el, hl)
      /\ Acks(el, hl, ak) /\ Requests(el, hl)
      /\ Kept(el, hl, ak, vh) /\ Candidates(el, hl, ak, vh) /\ Complete(el, hl, ak, vh)
  BY DEF Core, Ballot
<1>b. Ballot(el, vh)
  BY DEF Core
<1>g. /\ role[c] = "candidate" /\ Won(c)
      /\ role' = [role EXCEPT ![c] = "leader"]
      /\ granted' = [granted EXCEPT ![c] = {}]
      /\ term' = term /\ voters' = voters /\ log' = log /\ wire' = wire
  BY DEF BecomeLeader, logVars
<1>n. /\ \A n \in Node : term[n] \in Nat /\ granted[n] \in SUBSET Node /\ log[n] \in Seq(Nat)
      /\ \A n \in Node : Len(log[n]) \in Nat
      /\ \A x \in DOMAIN el : x \in Nat
      /\ \A x \in Nat : hl[x] \in Seq(Nat) /\ Len(hl[x]) \in Nat
  BY <1>t, Typed
<1>u. /\ role'[c] = "leader" /\ granted'[c] = {}
      /\ \A n \in Node : n # c => role'[n] = role[n] /\ granted'[n] = granted[n]
  BY <1>g, <1>t DEF Types
<1>q. PICK el2 : el2 = Elected(el, c)
  OBVIOUS
<1>f. Ballot(el2, vh)' /\ Victory(el, vh, el2, c)
  BY <1>b, <1>q, LeadBallot
<1>m. /\ electorate[c] \in vh /\ granted[c] \in SUBSET electorate[c]
      /\ Cardinality(granted[c]) >= Majority(electorate[c])
      /\ \A v \in granted[c] : v \in Node /\ term[v] >= t
  BY <1>f, <1>z DEF Victory
<1>new. t \notin DOMAIN el
  BY <1>f, <1>z DEF Victory
<1>e. /\ DOMAIN el2 = DOMAIN el \cup {t}
      /\ \A x \in DOMAIN el : x # t /\ el2[x] = el[x]
      /\ el2[t].leader = c /\ el2[t].base = Len(log[c])
  BY <1>f, <1>z DEF Victory
<1>i. t \in Nat
  BY <1>n, <1>z
<1>h. PICK hl2 : /\ hl2 \in [Nat -> Seq(Nat)] /\ hl2[t] = log[c]
                 /\ \A x \in Nat : x # t => hl2[x] = hl[x]
  <2> DEFINE new == [hl EXCEPT ![t] = log[c]]
  <2>1. /\ new \in [Nat -> Seq(Nat)] /\ new[t] = log[c]
        /\ \A x \in Nat : x # t => new[x] = hl[x]
    BY <1>i, <1>n, <1>t DEF Types
  <2> HIDE DEF new
  <2> QED
    BY <2>1
<1>a. PICK ak2 : /\ ak \subseteq ak2
                 /\ \A x \in Nat, v \in Node, i \in Nat :
                      <<x, v, i>> \in ak2 <=>
                        <<x, v, i>> \in ak \/ (x = t /\ v = c /\ i \in 1 .. Len(log[c]))
  <2> DEFINE new == ak \cup {<<t, c, i>> : i \in 1 .. Len(log[c])}
  <2>1. /\ ak \subseteq new
        /\ \A x \in Nat, v \in Node, i \in Nat :
             <<x, v, i>> \in new <=>
               <<x, v, i>> \in ak \/ (x = t /\ v = c /\ i \in 1 .. Len(log[c]))
    OBVIOUS
  <2> HIDE DEF new
  <2> QED
    BY <2>1
<1>l. Later(vh, ak, voters, term, vh, ak2, voters', term')
  BY <1>a, <1>g, <1>n, <1>z DEF Later
<1>s. \A x, i \in Nat : Choosable(vh, ak2, voters', term', x, i)
                       => Choosable(vh, ak, voters, term, x, i)
  BY <1>l, ChoosableShrinks
\* What was explained is, and the new leader has no entry of its term yet.
<1>r. Longer(el, hl, el2, hl2)
  <2>1. \A x \in DOMAIN el : hl2[x] = hl[x]
    BY <1>e, <1>h, <1>n
  <2> QED
    BY <1>e, <1>n, <2>1 DEF Longer
<1>x. \A s \in Seq(Nat) : Traced(el, hl, s) => Traced(el2, hl2, s)
  BY <1>r, TracedExtends
<1>o. \A i \in 1 .. Len(log[c]) : log[c][i] \in Nat /\ log[c][i] < t
  BY <1>c, <1>g, <1>t, <1>z, Typed DEF Logs
<1>p. \A x \in DOMAIN el2, i \in Nat : Own(hl2, x, i) => x \in DOMAIN el /\ x # t /\ Own(hl, x, i)
  <2> SUFFICES ASSUME NEW x \in DOMAIN el2, NEW i \in Nat, i \in 1 .. Len(hl2[x]), hl2[x][i] = x
               PROVE  x \in DOMAIN el /\ x # t /\ Own(hl, x, i)
    BY DEF Own
  <2>1. x # t
    <3> SUFFICES ASSUME x = t PROVE FALSE
      OBVIOUS
    <3>1. hl2[x] = log[c]
      BY <1>h
    <3>2. log[c][i] < t /\ log[c][i] = t
      BY <1>o, <3>1
    <3> QED
      BY <1>i, <3>2
  <2>2. x \in DOMAIN el /\ hl2[x] = hl[x]
    BY <1>e, <1>h, <1>n, <2>1
  <2> QED
    BY <2>1, <2>2 DEF Own
<1>1. Ballot(el2, vh)'
  BY <1>f
<1>2. Types(el2, hl2)'
  <2>1. log' \in [Node -> Seq(Nat)]
    BY <1>g, <1>t DEF Types
  <2> QED
    BY <1>1, <1>h, <2>1 DEF Types, Ballot, BallotTypes
<1>5. Chronicle(el2, hl2)'
  <2> SUFFICES ASSUME NEW x \in DOMAIN el2
               PROVE  /\ el2[x].base \in 0 .. Len(hl2[x])
                      /\ \A i \in 1 .. Len(hl2[x]) :
                           hl2[x][i] <= x /\ (hl2[x][i] = x <=> i > el2[x].base)
                      /\ Traced(el2, hl2, hl2[x])
    BY DEF Chronicle
  <2>1. CASE x = t
    <3>1. Traced(el2, hl2, log[c])
      BY <1>c, <1>n, <1>x DEF Logs
    <3>2. Len(log[c]) \in Nat
      BY <1>n
    <3>3. el2[x].base = Len(log[c]) /\ hl2[x] = log[c]
      BY <1>e, <1>h, <2>1
    <3>4. Len(log[c]) \in 0 .. Len(log[c])
      BY <3>2
    <3>5. \A i \in 1 .. Len(log[c]) : log[c][i] <= x /\ log[c][i] # x /\ ~ (i > Len(log[c]))
      BY <1>i, <1>o, <2>1, <3>2
    <3> QED
      BY <3>1, <3>3, <3>4, <3>5
  <2>2. CASE x # t
    <3>1. x \in DOMAIN el /\ el2[x] = el[x] /\ hl2[x] = hl[x] /\ hl[x] \in Seq(Nat)
      BY <1>e, <1>h, <1>n, <2>2
    <3> QED
      BY <1>c, <1>x, <3>1 DEF Chronicle
  <2> QED
    BY <2>1, <2>2
<1>6. Logs(el2, hl2)'
  <2> SUFFICES ASSUME NEW n \in Node
               PROVE  /\ Traced(el2, hl2, log[n])
                      /\ \A i \in 1 .. Len(log[n]) :
                           /\ log[n][i] <= term[n]
                           /\ role'[n] = "candidate" => log[n][i] < term[n]
                      /\ role'[n] = "leader" => log[n] = hl2[term[n]]
    BY <1>g DEF Logs
  <2>1. Traced(el2, hl2, log[n])
    BY <1>c, <1>n, <1>x DEF Logs
  <2>2. \A i \in 1 .. Len(log[n]) :
           log[n][i] <= term[n] /\ (role'[n] = "candidate" => log[n][i] < term[n])
    BY <1>c, <1>u DEF Logs
  <2>3. role'[n] = "leader" => log[n] = hl2[term[n]]
    <3>1. CASE n = c
      BY <1>h, <3>1, <1>z
    <3>2. ASSUME n # c, role'[n] = "leader" PROVE log[n] = hl2[term[n]]
      <4>1. role[n] = "leader" /\ log[n] = hl[term[n]]
        BY <1>c, <1>u, <3>2 DEF Logs
      <4>2. term[n] \in DOMAIN el
        BY <1>c, <4>1 DEF Elections
      <4>3. term[n] # t /\ term[n] \in Nat
        BY <1>new, <1>n, <4>2
      <4> QED
        BY <1>h, <4>1, <4>3
    <3> QED
      BY <3>1, <3>2
  <2> QED
    BY <2>1, <2>2, <2>3
<1>7. Requests(el2, hl2)'
  <2>1. ASSUME NEW m \in wire
        PROVE  /\ m.to \in Node
               /\ m.term \in Nat /\ m.term \in DOMAIN el2 /\ m.term # t
               /\ el2[m.term] = el[m.term] /\ hl2[m.term] = hl[m.term]
    BY <1>c, <1>e, <1>h, <1>n DEF Requests
  <2> QED
    BY <1>c, <1>g, <2>1, ZenonT(30) DEF Requests
<1>8. Acks(el2, hl2, ak2)'
  <2> SUFFICES ASSUME NEW x \in Nat, NEW w \in Node, NEW i \in Nat, <<x, w, i>> \in ak2
               PROVE  x \in DOMAIN el2 /\ i \in 1 .. Len(hl2[x]) /\ term[w] >= x
    BY <1>g DEF Acks
  <2>1. CASE <<x, w, i>> \in ak
    BY <1>c, <1>e, <1>h, <2>1 DEF Acks
  <2>2. CASE x = t /\ w = c /\ i \in 1 .. Len(log[c])
    <3>1. x \in DOMAIN el2 /\ i \in 1 .. Len(hl2[x])
      BY <1>e, <1>h, <2>2
    <3>2. term[w] = x
      BY <2>2, <1>z
    <3> QED
      BY <3>1, <3>2
  <2> QED
    BY <1>a, <2>1, <2>2
<1>9. Kept(el2, hl2, ak2, vh)'
  <2> SUFFICES ASSUME NEW x \in DOMAIN el2, NEW v \in Node, NEW i \in Nat, <<x, v, i>> \in ak2,
                      Own(hl2, x, i), Choosable(vh, ak2, voters', term', x, i)
               PROVE  Has(log[v], i, x)
    BY <1>g DEF Kept
  <2>1. x \in DOMAIN el /\ x # t /\ x \in Nat /\ Own(hl, x, i)
    BY <1>n, <1>p
  <2>2. <<x, v, i>> \in ak /\ Choosable(vh, ak, voters, term, x, i)
    BY <1>a, <1>s, <2>1
  <2> QED
    BY <1>c, <2>1, <2>2 DEF Kept
<1>10. Candidates(el2, hl2, ak2, vh)'
  <2> SUFFICES ASSUME NEW a \in Node, role'[a] = "candidate",
                      NEW w \in granted'[a], NEW x \in DOMAIN el2, NEW i \in Nat,
                      x < term[a], <<x, w, i>> \in ak2, Own(hl2, x, i),
                      Choosable(vh, ak2, voters', term', x, i)
               PROVE  Has(log[a], i, x)
    BY <1>g DEF Candidates
  <2>1. x \in DOMAIN el /\ x # t /\ x \in Nat /\ Own(hl, x, i)
    BY <1>n, <1>p
  <2>2. role[a] = "candidate" /\ w \in granted[a] /\ w \in Node
    BY <1>n, <1>u
  <2>3. <<x, w, i>> \in ak /\ Choosable(vh, ak, voters, term, x, i)
    BY <1>a, <1>s, <2>1, <2>2
  <2> QED
    BY <1>c, <2>1, <2>2, <2>3 DEF Candidates
<1>11. Complete(el2, hl2, ak2, vh)'
  <2> SUFFICES ASSUME NEW x \in DOMAIN el2, NEW y \in DOMAIN el2, NEW i \in Nat,
                      x < y, Own(hl2, x, i), Choosable(vh, ak2, voters', term', x, i)
               PROVE  i <= el2[y].base /\ Has(hl2[y], i, x)
    BY DEF Complete
  <2>1. x \in DOMAIN el /\ x # t /\ x \in Nat /\ Own(hl, x, i)
    BY <1>n, <1>p
  <2>2. Choosable(vh, ak, voters, term, x, i)
    BY <1>s, <2>1
  <2>3. CASE y = t
    <3>1. PICK v \in granted[c] : <<x, v, i>> \in ak
      <4>1. term \in [Node -> Nat] /\ x < t
        BY <1>t, <2>3 DEF Types
      <4> QED
        BY <1>c, <1>i, <1>m, <2>1, <2>2, <4>1, PassedBy
    <3>2. Has(log[c], i, x)
      BY <1>c, <1>g, <2>1, <2>2, <2>3, <3>1, <1>z DEF Candidates
    <3>3. i <= Len(log[c])
      BY <1>n, <3>2 DEF Has
    <3> QED
      BY <1>e, <1>h, <2>3, <3>2, <3>3
  <2>4. CASE y # t
    <3>1. y \in DOMAIN el /\ el2[y] = el[y] /\ hl2[y] = hl[y]
      BY <1>e, <1>h, <1>n, <2>4
    <3> QED
      BY <1>c, <2>1, <2>2, <3>1 DEF Complete
  <2> QED
    BY <2>3, <2>4
<1>12. Core(el2, hl2, ak2, vh)'
  BY <1>1, <1>2, <1>5, <1>6, <1>7, <1>8, <1>9, <1>10, <1>11 DEF Core
<1> QED
  BY <1>12, <1>r, <1>a, <1>e, <1>l, <1>new, <1>z

(***************************************************************************)
(* An entry of the leader: it is of its term, and nobody else has a later  *)
(* one at its place that could be taken for it.                            *)
(***************************************************************************)
LEMMA ProposeCore ==
  ASSUME MajoritiesMeet, NEW el, NEW hl, NEW ak, NEW vh, Core(el, hl, ak, vh),
         NEW l \in Node, Propose(l)
  PROVE  \E hl2, ak2 :
           /\ Core(el, hl2, ak2, vh)'
           /\ Later(vh, ak, voters, term, vh, ak2, voters', term')
           /\ Longer(el, hl, el, hl2)
           /\ \A x \in Nat, v \in Node, i \in Nat :
                <<x, v, i>> \in ak2 <=>
                  <<x, v, i>> \in ak \/ (x = term[l] /\ v = l /\ i \in 1 .. Len(log[l]) + 1)
<1>z. PICK t, k, h : t = term[l] /\ k = Len(log[l]) + 1 /\ h = log[l]
  OBVIOUS
<1>t. Types(el, hl)
  BY DEF Core, Ballot
<1>c. /\ Growth(vh) /\ VotesAreSpent /\ Elections(el, vh) /\ Chronicle(el, hl) /\ Logs(el, hl)
      /\ Acks(el, hl, ak) /\ Requests(el, hl)
      /\ Kept(el, hl, ak, vh) /\ Candidates(el, hl, ak, vh) /\ Complete(el, hl, ak, vh)
  BY DEF Core, Ballot
<1>g. /\ role[l] = "leader"
      /\ log' = [log EXCEPT ![l] = Append(h, t)]
      /\ term' = term /\ voters' = voters /\ role' = role /\ granted' = granted /\ wire' = wire
  BY <1>z DEF Propose, electionVars
<1>n. /\ \A n \in Node : term[n] \in Nat /\ granted[n] \in SUBSET Node /\ log[n] \in Seq(Nat)
      /\ \A n \in Node : Len(log[n]) \in Nat
      /\ \A x \in DOMAIN el : x \in Nat
      /\ \A x \in Nat : hl[x] \in Seq(Nat) /\ Len(hl[x]) \in Nat
  BY <1>t, Typed
<1>i. /\ t \in Nat /\ k \in Nat /\ k > 0 /\ h \in Seq(Nat) /\ Len(h) = k - 1
      /\ t \in DOMAIN el /\ el[t].leader = l /\ hl[t] = h
  <2>1. t \in Nat /\ h \in Seq(Nat) /\ Len(h) \in Nat /\ k = Len(h) + 1
    BY <1>n, <1>z
  <2>2. t \in DOMAIN el /\ el[t].leader = l /\ hl[t] = h
    BY <1>c, <1>g, <1>z DEF Elections, Logs
  <2> QED
    BY <2>1, <2>2
<1>q. PICK h2 : /\ h2 = Append(h, t) /\ h2 \in Seq(Nat) /\ Len(h2) = k /\ h2[k] = t
                /\ \A j \in 1 .. Len(h) : h2[j] = h[j]
  <2> DEFINE new == Append(h, t)
  <2>1. /\ new \in Seq(Nat) /\ Len(new) = Len(h) + 1 /\ new[Len(h) + 1] = t
        /\ \A j \in 1 .. Len(h) : new[j] = h[j]
    BY <1>i
  <2>2. k = Len(h) + 1
    BY <1>i
  <2> QED
    BY <2>1, <2>2
<1>h. PICK hl2 : /\ hl2 \in [Nat -> Seq(Nat)] /\ hl2[t] = h2
                 /\ \A x \in Nat : x # t => hl2[x] = hl[x]
  <2> DEFINE new == [hl EXCEPT ![t] = h2]
  <2>1. /\ new \in [Nat -> Seq(Nat)] /\ new[t] = h2
        /\ \A x \in Nat : x # t => new[x] = hl[x]
    BY <1>i, <1>q, <1>t DEF Types
  <2> HIDE DEF new
  <2> QED
    BY <2>1
<1>a. PICK ak2 : /\ ak \subseteq ak2
                 /\ \A x \in Nat, v \in Node, i \in Nat :
                      <<x, v, i>> \in ak2 <=>
                        <<x, v, i>> \in ak \/ (x = t /\ v = l /\ i \in 1 .. k)
  <2> DEFINE new == ak \cup {<<t, l, i>> : i \in 1 .. k}
  <2>1. /\ ak \subseteq new
        /\ \A x \in Nat, v \in Node, i \in Nat :
             <<x, v, i>> \in new <=> <<x, v, i>> \in ak \/ (x = t /\ v = l /\ i \in 1 .. k)
    OBVIOUS
  <2> HIDE DEF new
  <2> QED
    BY <2>1
<1>l. Later(vh, ak, voters, term, vh, ak2, voters', term')
  BY <1>a, <1>g, <1>n, <1>z DEF Later
<1>s. \A x, i \in Nat : Choosable(vh, ak2, voters', term', x, i)
                       => Choosable(vh, ak, voters, term, x, i)
  BY <1>l, ChoosableShrinks
<1>r. Longer(el, hl, el, hl2)
  <2>1. ASSUME NEW x \in DOMAIN el
        PROVE  /\ Len(hl[x]) \in Nat /\ Len(hl2[x]) \in Nat /\ Len(hl[x]) <= Len(hl2[x])
               /\ \A j \in 1 .. Len(hl[x]) : hl2[x][j] = hl[x][j]
    <3>1. CASE x = t
      <4>1. hl[x] = h /\ hl2[x] = h2 /\ Len(h) \in Nat /\ Len(h) = k - 1 /\ Len(h2) = k
        BY <1>h, <1>i, <1>q, <3>1
      <4>2. Len(h) <= k /\ k \in Nat
        BY <1>i
      <4> QED
        BY <1>q, <4>1, <4>2
    <3>2. CASE x # t
      <4>1. x \in Nat /\ hl2[x] = hl[x] /\ Len(hl[x]) \in Nat
        BY <1>h, <1>n, <3>2
      <4> QED
        BY <4>1
    <3> QED
      BY <3>1, <3>2
  <2> QED
    BY <2>1 DEF Longer
<1>x. \A s \in Seq(Nat) : Traced(el, hl, s) => Traced(el, hl2, s)
  BY <1>r, TracedExtends
<1>u. log'[l] = h2 /\ \A n \in Node : n # l => log'[n] = log[n]
  BY <1>g, <1>q, <1>t DEF Types
<1>y. /\ Traced(el, hl2, h2) /\ \A i \in 1 .. k : h2[i] \in Nat /\ h2[i] <= t
      /\ \A i \in 1 .. k : h2[i] = t <=> i > el[t].base
      /\ el[t].base \in 0 .. k
  <2>1. Traced(el, hl2, h)
    BY <1>c, <1>i, <1>x DEF Chronicle
  <2>2. /\ el[t].base \in 0 .. Len(h)
        /\ \A i \in 1 .. Len(h) : h[i] \in Nat /\ h[i] <= t /\ (h[i] = t <=> i > el[t].base)
    BY <1>c, <1>i DEF Chronicle
  <2>3. ASSUME NEW i \in 1 .. k
        PROVE  /\ h2[i] \in Nat /\ h2[i] <= t /\ (h2[i] = t <=> i > el[t].base)
               /\ h2[i] \in DOMAIN el /\ i <= Len(hl2[h2[i]])
               /\ \A j \in 1 .. i : h2[j] = hl2[h2[i]][j]
    <3>1. CASE i = k
      <4>1. h2[i] = t /\ hl2[h2[i]] = h2 /\ Len(h2) = i
        BY <1>h, <1>q, <3>1
      <4>2. i > el[t].base
        BY <1>i, <2>2, <3>1
      <4> QED
        BY <1>i, <4>1, <4>2
    <3>2. CASE i # k
      <4>1. i \in 1 .. Len(h) /\ h2[i] = h[i] /\ \A j \in 1 .. i : h2[j] = h[j]
        BY <1>i, <1>q, <3>2
      <4>2. h[i] \in DOMAIN el /\ i <= Len(hl2[h[i]]) /\ \A j \in 1 .. i : h[j] = hl2[h[i]][j]
        BY <2>1, <4>1 DEF Traced
      <4> QED
        BY <2>2, <4>1, <4>2
    <3> QED
      BY <3>1, <3>2
  <2>4. el[t].base \in 0 .. k
    BY <1>i, <2>2
  <2> QED
    BY <1>q, <2>3, <2>4 DEF Traced
\* What is acknowledged already is not the new entry.
<1>p. \A x \in DOMAIN el, v \in Node, i \in Nat :
        <<x, v, i>> \in ak /\ Own(hl2, x, i) => Own(hl, x, i)
  <2> SUFFICES ASSUME NEW x \in DOMAIN el, NEW v \in Node, NEW i \in Nat, <<x, v, i>> \in ak,
                      hl2[x][i] = x
               PROVE  Own(hl, x, i)
    BY DEF Own
  <2>1. i \in 1 .. Len(hl[x])
    BY <1>c, <1>n DEF Acks
  <2> QED
    BY <1>r, <2>1 DEF Longer, Own
<1>1. Ballot(el, vh)'
  BY SameBallot DEF Core, Propose
<1>2. Types(el, hl2)'
  <2>1. log' \in [Node -> Seq(Nat)]
    BY <1>g, <1>q, <1>t DEF Types
  <2> QED
    BY <1>g, <1>h, <1>t, <2>1 DEF Types
<1>5. Chronicle(el, hl2)'
  <2> SUFFICES ASSUME NEW x \in DOMAIN el
               PROVE  /\ el[x].base \in 0 .. Len(hl2[x])
                      /\ \A i \in 1 .. Len(hl2[x]) :
                           hl2[x][i] <= x /\ (hl2[x][i] = x <=> i > el[x].base)
                      /\ Traced(el, hl2, hl2[x])
    BY DEF Chronicle
  <2>1. CASE x = t
    BY <1>h, <1>q, <1>y, <2>1
  <2>2. CASE x # t
    <3>1. hl2[x] = hl[x] /\ hl[x] \in Seq(Nat)
      BY <1>h, <1>n, <2>2
    <3> QED
      BY <1>c, <1>x, <3>1 DEF Chronicle
  <2> QED
    BY <2>1, <2>2
<1>6. Logs(el, hl2)'
  <2> SUFFICES ASSUME NEW n \in Node
               PROVE  /\ Traced(el, hl2, log'[n])
                      /\ \A i \in 1 .. Len(log'[n]) :
                           /\ log'[n][i] <= term[n]
                           /\ role[n] = "candidate" => log'[n][i] < term[n]
                      /\ role[n] = "leader" => log'[n] = hl2[term[n]]
    BY <1>g DEF Logs
  <2>1. CASE n = l
    BY <1>g, <1>h, <1>q, <1>u, <1>y, <1>z, <2>1
  <2>2. CASE n # l
    <3>1. role[n] = "leader" => term[n] # t /\ log[n] = hl[term[n]]
      BY <1>c, <1>i, <2>2 DEF Elections, Logs
    <3>2. Traced(el, hl2, log[n])
      BY <1>c, <1>n, <1>x DEF Logs
    <3> QED
      BY <1>c, <1>h, <1>n, <1>u, <2>2, <3>1, <3>2 DEF Logs
  <2> QED
    BY <2>1, <2>2
<1>7. Requests(el, hl2)'
  <2>1. ASSUME NEW m \in wire
        PROVE  /\ m.prev + Len(m.new) <= Len(hl2[m.term])
               /\ \A j \in 1 .. Len(m.new) : m.new[j] = hl2[m.term][m.prev + j]
               /\ m.prev > 0 => m.prev_term = hl2[m.term][m.prev]
    <3>1. /\ m.to \in Node /\ m.from # m.to
          /\ m.term \in DOMAIN el /\ el[m.term].leader = m.from
          /\ m.prev \in Nat /\ Len(m.new) \in Nat
          /\ m.prev + Len(m.new) <= Len(hl[m.term])
          /\ \A j \in 1 .. Len(m.new) : m.new[j] = hl[m.term][m.prev + j]
          /\ m.prev > 0 => m.prev_term = hl[m.term][m.prev]
      BY <1>c, SMTT(30) DEF Requests
    <3>2. /\ Len(hl[m.term]) \in Nat /\ Len(hl2[m.term]) \in Nat
          /\ Len(hl[m.term]) <= Len(hl2[m.term])
          /\ \A j \in 1 .. Len(hl[m.term]) : hl2[m.term][j] = hl[m.term][j]
      BY <1>r, <3>1 DEF Longer
    <3>4. ASSUME NEW j \in 1 .. Len(m.new)
          PROVE  m.new[j] = hl2[m.term][m.prev + j]
      <4>1. m.prev + j \in 1 .. Len(hl[m.term])
        BY <3>1, <3>2
      <4> QED
        BY <3>1, <3>2, <4>1
    <3>5. m.prev > 0 => m.prev_term = hl2[m.term][m.prev]
      <4>1. m.prev > 0 => m.prev \in 1 .. Len(hl[m.term])
        BY <3>1, <3>2
      <4> QED
        BY <3>1, <3>2, <4>1
    <3> QED
      BY <3>1, <3>2, <3>4, <3>5, SMTT(30)
  <2> QED
    BY <1>c, <1>g, <2>1 DEF Requests
<1>8. Acks(el, hl2, ak2)'
  <2> SUFFICES ASSUME NEW x \in Nat, NEW w \in Node, NEW i \in Nat, <<x, w, i>> \in ak2
               PROVE  x \in DOMAIN el /\ i \in 1 .. Len(hl2[x]) /\ term[w] >= x
    BY <1>g DEF Acks
  <2>1. CASE <<x, w, i>> \in ak
    <3>1. x \in DOMAIN el /\ i \in 1 .. Len(hl[x]) /\ term[w] >= x
      BY <1>c, <2>1 DEF Acks
    <3>2. Len(hl[x]) \in Nat /\ Len(hl2[x]) \in Nat /\ Len(hl[x]) <= Len(hl2[x])
      BY <1>r, <3>1 DEF Longer
    <3> QED
      BY <3>1, <3>2
  <2>2. CASE x = t /\ w = l /\ i \in 1 .. k
    <3>1. x \in DOMAIN el /\ i \in 1 .. Len(hl2[x])
      BY <1>h, <1>i, <1>q, <2>2
    <3>2. term[w] = x
      BY <1>z, <2>2
    <3> QED
      BY <3>1, <3>2
  <2> QED
    BY <1>a, <2>1, <2>2
<1>9. Kept(el, hl2, ak2, vh)'
  <2> SUFFICES ASSUME NEW x \in DOMAIN el, NEW v \in Node, NEW i \in Nat, <<x, v, i>> \in ak2,
                      Own(hl2, x, i), Choosable(vh, ak2, voters', term', x, i)
               PROVE  Has(log'[v], i, x)
    BY DEF Kept
  <2>1. x \in Nat /\ Choosable(vh, ak, voters, term, x, i)
    BY <1>n, <1>s
  <2>2. CASE <<x, v, i>> \in ak
    <3>1. Has(log[v], i, x)
      BY <1>c, <1>p, <2>1, <2>2 DEF Kept
    <3>2. CASE v = l
      <4>1. i \in 1 .. Len(h) /\ h[i] = x
        BY <1>z, <3>1, <3>2 DEF Has
      <4> QED
        BY <1>i, <1>q, <1>u, <3>2, <4>1 DEF Has
    <3>3. CASE v # l
      BY <1>u, <3>1, <3>3
    <3> QED
      BY <3>2, <3>3
  <2>3. CASE x = t /\ v = l /\ i \in 1 .. k
    BY <1>h, <1>u, <2>3 DEF Own, Has
  <2> QED
    BY <1>a, <2>1, <2>2, <2>3
<1>10. Candidates(el, hl2, ak2, vh)'
  <2> SUFFICES ASSUME NEW a \in Node, role[a] = "candidate",
                      NEW w \in granted[a], NEW x \in DOMAIN el, NEW i \in Nat,
                      x < term[a], <<x, w, i>> \in ak2, Own(hl2, x, i),
                      Choosable(vh, ak2, voters', term', x, i)
               PROVE  Has(log'[a], i, x)
    BY <1>g DEF Candidates
  <2>1. x \in Nat /\ w \in Node /\ term[w] \in Nat /\ term[w] >= term[a] /\ a # l
    BY <1>c, <1>g, <1>n DEF VotesAreSpent
  <2>2. <<x, w, i>> \in ak
    <3> SUFFICES ASSUME x = t, w = l PROVE FALSE
      BY <1>a, <2>1
    <3>1. term[w] = x /\ term[a] \in Nat
      BY <1>n, <1>z
    <3> QED
      BY <2>1, <3>1
  <2>3. Own(hl, x, i) /\ Choosable(vh, ak, voters, term, x, i)
    BY <1>p, <1>s, <2>1, <2>2
  <2>4. Has(log[a], i, x)
    BY <1>c, <2>2, <2>3 DEF Candidates
  <2> QED
    BY <1>u, <2>1, <2>4
<1>11. Complete(el, hl2, ak2, vh)'
  <2> SUFFICES ASSUME NEW x \in DOMAIN el, NEW y \in DOMAIN el, NEW i \in Nat,
                      x < y, Own(hl2, x, i), Choosable(vh, ak2, voters', term', x, i)
               PROVE  i <= el[y].base /\ Has(hl2[y], i, x)
    BY DEF Complete
  <2>1. x \in Nat /\ y \in Nat /\ Choosable(vh, ak, voters, term, x, i)
    BY <1>n, <1>s
  <2>2. PICK v \in el[y].votes : <<x, v, i>> \in ak
    <3>1. /\ el[y].voters \in vh /\ el[y].votes \in SUBSET el[y].voters
          /\ Cardinality(el[y].votes) >= Majority(el[y].voters)
          /\ \A v \in el[y].votes : term[v] >= y
      BY <1>c DEF Elections
    <3>2. term \in [Node -> Nat]
      BY <1>t DEF Types
    <3> QED
      BY <1>c, <2>1, <3>1, <3>2, PassedBy
  <2>3. v \in Node
    BY <1>c DEF Elections, Growth
  <2>4. Own(hl, x, i)
    BY <1>p, <2>2, <2>3
  <2>5. i <= el[y].base /\ Has(hl[y], i, x)
    BY <1>c, <2>1, <2>4 DEF Complete
  <2>6. Has(hl2[y], i, x)
    <3>1. i \in 1 .. Len(hl[y]) /\ hl[y][i] = x
      BY <2>5 DEF Has
    <3>2. /\ Len(hl[y]) \in Nat /\ Len(hl2[y]) \in Nat /\ Len(hl[y]) <= Len(hl2[y])
          /\ \A j \in 1 .. Len(hl[y]) : hl2[y][j] = hl[y][j]
      BY <1>r DEF Longer
    <3> QED
      BY <3>1, <3>2 DEF Has
  <2> QED
    BY <2>5, <2>6
<1>12. Core(el, hl2, ak2, vh)'
  BY <1>1, <1>2, <1>5, <1>6, <1>7, <1>8, <1>9, <1>10, <1>11 DEF Core
<1> QED
  BY <1>12, <1>a, <1>l, <1>r, <1>z

\* A follower's log becomes the start of the log of term t (an agreeing request or a
\* snapshot).  It keeps what it acknowledged and may become committed.
Received(el, hl, ak, vh, v, t, s) ==
  /\ Followed(v, t)
  /\ t \in DOMAIN el /\ el[t].leader # v
  /\ s \in Seq(Nat) /\ Len(s) <= Len(hl[t]) /\ \A j \in 1 .. Len(s) : s[j] = hl[t][j]
  /\ log' = [log EXCEPT ![v] = s]
  /\ wire' \subseteq wire
  /\ \A x \in DOMAIN el, i \in Nat :
       <<x, v, i>> \in ak /\ Own(hl, x, i) /\ Choosable(vh, ak, voters, term, x, i) => i <= Len(s)

(***************************************************************************)
(* What a follower takes over explains its log, and what it held and may   *)
(* become committed is part of it.                                         *)
(***************************************************************************)
LEMMA ReceivedCore ==
  ASSUME NEW el, NEW hl, NEW ak, NEW vh, Core(el, hl, ak, vh),
         NEW v, NEW t, NEW s, Received(el, hl, ak, vh, v, t, s)
  PROVE  \E ak2 :
           /\ Core(el, hl, ak2, vh)'
           /\ Later(vh, ak, voters, term, vh, ak2, voters', term')
           /\ \A x \in Nat, w \in Node, i \in Nat :
                <<x, w, i>> \in ak2 <=>
                  <<x, w, i>> \in ak \/ (x = t /\ w = v /\ i \in 1 .. Len(s))
<1>t. Types(el, hl)
  BY DEF Core, Ballot
<1>c. /\ Growth(vh) /\ VotesAreSpent /\ Elections(el, vh) /\ Chronicle(el, hl) /\ Logs(el, hl)
      /\ Acks(el, hl, ak) /\ Requests(el, hl)
      /\ Kept(el, hl, ak, vh) /\ Candidates(el, hl, ak, vh) /\ Complete(el, hl, ak, vh)
  BY DEF Core, Ballot
<1>f. Followed(v, t) /\ v \in Node /\ t \in Nat /\ term[v] <= t /\ voters' = voters
  BY DEF Received, Followed
<1>g. /\ t \in DOMAIN el /\ el[t].leader # v
      /\ s \in Seq(Nat) /\ Len(s) \in Nat
      /\ Len(s) <= Len(hl[t]) /\ \A j \in 1 .. Len(s) : s[j] = hl[t][j]
      /\ log' = [log EXCEPT ![v] = s]
      /\ wire' \subseteq wire
      /\ \A x \in DOMAIN el, i \in Nat :
           <<x, v, i>> \in ak /\ Own(hl, x, i) /\ Choosable(vh, ak, voters, term, x, i)
             => i <= Len(s)
  BY DEF Received
<1>n. /\ \A n \in Node : term[n] \in Nat /\ granted[n] \in SUBSET Node /\ log[n] \in Seq(Nat)
      /\ \A x \in DOMAIN el : x \in Nat
      /\ \A x \in Nat : hl[x] \in Seq(Nat) /\ Len(hl[x]) \in Nat
  BY <1>t, Typed
<1>b. BallotTypes(el) /\ Ballot(el, vh)
  BY DEF Core, Ballot
<1>u. /\ \A n \in Node : term'[n] \in Nat /\ term[n] <= term'[n]
      /\ \A n \in Node : role'[n] # "follower" =>
           n # v /\ role'[n] = role[n] /\ term'[n] = term[n] /\ granted'[n] = granted[n]
      /\ term'[v] = t
      /\ \A n \in Node : n # v => term'[n] = term[n]
  BY <1>b, <1>f, FollowedTerms
<1>w. log'[v] = s /\ \A n \in Node : n # v => log'[n] = log[n]
  BY <1>f, <1>g, <1>t DEF Types
<1>a. PICK ak2 : /\ ak \subseteq ak2
                 /\ \A x \in Nat, w \in Node, i \in Nat :
                      <<x, w, i>> \in ak2 <=>
                        <<x, w, i>> \in ak \/ (x = t /\ w = v /\ i \in 1 .. Len(s))
  <2> DEFINE new == ak \cup {<<t, v, i>> : i \in 1 .. Len(s)}
  <2>1. /\ ak \subseteq new
        /\ \A x \in Nat, w \in Node, i \in Nat :
             <<x, w, i>> \in new <=>
               <<x, w, i>> \in ak \/ (x = t /\ w = v /\ i \in 1 .. Len(s))
    OBVIOUS
  <2> HIDE DEF new
  <2> QED
    BY <2>1
<1>l. Later(vh, ak, voters, term, vh, ak2, voters', term')
  BY <1>a, <1>f, <1>n, <1>u DEF Later
<1>s. \A x, i \in Nat : Choosable(vh, ak2, voters', term', x, i)
                       => Choosable(vh, ak, voters, term, x, i)
  BY <1>l, ChoosableShrinks
<1>2. Ballot(el, vh)'
  BY <1>b, <1>f, FollowedBallot
<1>1. Types(el, hl)'
  <2>1. log' \in [Node -> Seq(Nat)]
    BY <1>g, <1>t DEF Types
  <2> QED
    BY <1>2, <1>t, <2>1 DEF Types, Ballot, BallotTypes
<1>3. Chronicle(el, hl)'
  BY <1>c DEF Chronicle
<1>4. Logs(el, hl)'
  <2> SUFFICES ASSUME NEW n \in Node
               PROVE  /\ Traced(el, hl, log'[n])
                      /\ \A i \in 1 .. Len(log'[n]) :
                           /\ log'[n][i] <= term'[n]
                           /\ role'[n] = "candidate" => log'[n][i] < term'[n]
                      /\ role'[n] = "leader" => log'[n] = hl[term'[n]]
    BY DEF Logs
  <2>1. CASE n = v
    <3>1. role'[n] = "follower"
      BY <1>u, <2>1
    <3>2. ASSUME NEW i \in 1 .. Len(s)
          PROVE  /\ s[i] \in DOMAIN el /\ i <= Len(hl[s[i]]) /\ s[i] <= t
                 /\ \A j \in 1 .. i : s[j] = hl[s[i]][j]
      <4>1. Len(hl[t]) \in Nat
        BY <1>f, <1>n
      <4>2. i \in 1 .. Len(hl[t]) /\ s[i] = hl[t][i] /\ \A j \in 1 .. i : s[j] = hl[t][j]
        <5>1. i \in 1 .. Len(hl[t]) /\ \A j \in 1 .. i : j \in 1 .. Len(s)
          BY <1>g, <4>1
        <5> QED
          BY <1>g, <5>1
      <4>3. /\ hl[t][i] \in DOMAIN el /\ i <= Len(hl[hl[t][i]]) /\ hl[t][i] <= t
            /\ \A j \in 1 .. i : hl[t][j] = hl[hl[t][i]][j]
        BY <1>c, <1>g, <4>2, ZenonT(30) DEF Chronicle, Traced
      <4> QED
        BY <4>2, <4>3
    <3>3. Traced(el, hl, s)
      BY <3>2 DEF Traced
    <3> QED
      BY <1>u, <1>w, <2>1, <3>1, <3>2, <3>3
  <2>2. CASE n # v
    <3>1. log'[n] = log[n] /\ term'[n] = term[n]
      BY <1>u, <1>w, <2>2
    <3> QED
      BY <1>c, <1>u, <3>1 DEF Logs
  <2> QED
    BY <2>1, <2>2
<1>5. Requests(el, hl)'
  BY <1>c, <1>g DEF Requests
<1>6. Acks(el, hl, ak2)'
  <2> SUFFICES ASSUME NEW x \in Nat, NEW w \in Node, NEW i \in Nat, <<x, w, i>> \in ak2
               PROVE  x \in DOMAIN el /\ i \in 1 .. Len(hl[x]) /\ term'[w] >= x
    BY DEF Acks
  <2>1. CASE <<x, w, i>> \in ak
    <3>1. x \in DOMAIN el /\ i \in 1 .. Len(hl[x]) /\ term[w] >= x
      BY <1>c, <2>1 DEF Acks
    <3> QED
      BY <1>n, <1>u, <3>1
  <2>2. CASE x = t /\ w = v /\ i \in 1 .. Len(s)
    <3>1. term'[w] = x /\ Len(hl[x]) \in Nat
      BY <1>n, <1>u, <2>2
    <3>2. i \in 1 .. Len(hl[x])
      BY <1>g, <2>2, <3>1
    <3> QED
      BY <1>g, <2>2, <3>1, <3>2
  <2> QED
    BY <1>a, <2>1, <2>2
<1>7. Kept(el, hl, ak2, vh)'
  <2> SUFFICES ASSUME NEW x \in DOMAIN el, NEW w \in Node, NEW i \in Nat, <<x, w, i>> \in ak2,
                      Own(hl, x, i), Choosable(vh, ak2, voters', term', x, i)
               PROVE  Has(log'[w], i, x)
    BY DEF Kept
  <2>1. x \in Nat /\ Choosable(vh, ak, voters, term, x, i)
    BY <1>n, <1>s
  <2>2. CASE <<x, w, i>> \in ak /\ w # v
    BY <1>c, <1>w, <2>1, <2>2 DEF Kept
  <2>3. CASE <<x, w, i>> \in ak /\ w = v
    <3>1. i \in Nat /\ i >= 1 /\ x <= t
      BY <1>c, <1>f, <1>n, <2>1, <2>3 DEF Acks
    <3>2. i \in 1 .. Len(s)
      BY <1>g, <2>1, <2>3, <3>1
    <3>3. hl[t][i] = x
      <4>1. CASE x = t
        BY <4>1 DEF Own
      <4>2. CASE x # t
        <5>1. x < t
          BY <1>f, <2>1, <3>1, <4>2
        <5> QED
          BY <1>c, <1>g, <2>1, <5>1 DEF Complete, Has
      <4> QED
        BY <4>1, <4>2
    <3> QED
      BY <1>g, <1>w, <2>3, <3>2, <3>3 DEF Has
  <2>4. CASE x = t /\ w = v /\ i \in 1 .. Len(s)
    BY <1>g, <1>w, <2>4 DEF Own, Has
  <2> QED
    BY <1>a, <2>1, <2>2, <2>3, <2>4
<1>8. Candidates(el, hl, ak2, vh)'
  <2> SUFFICES ASSUME NEW a \in Node, role'[a] = "candidate",
                      NEW w \in granted'[a], NEW x \in DOMAIN el, NEW i \in Nat,
                      x < term'[a], <<x, w, i>> \in ak2, Own(hl, x, i),
                      Choosable(vh, ak2, voters', term', x, i)
               PROVE  Has(log'[a], i, x)
    BY DEF Candidates
  <2>1. /\ x \in Nat /\ w \in Node /\ term'[w] >= term'[a] /\ a # v
        /\ role[a] = "candidate" /\ w \in granted[a] /\ term'[a] = term[a]
    BY <1>2, <1>n, <1>u DEF Ballot, VotesAreSpent
  <2>2. <<x, w, i>> \in ak
    <3> SUFFICES ASSUME x = t, w = v PROVE FALSE
      BY <1>a, <2>1
    <3>1. term'[w] = x /\ term'[a] \in Nat
      BY <1>u
    <3> QED
      BY <2>1, <3>1
  <2>3. Choosable(vh, ak, voters, term, x, i)
    BY <1>s, <2>1
  <2>4. Has(log[a], i, x)
    BY <1>c, <2>1, <2>2, <2>3 DEF Candidates
  <2> QED
    BY <1>w, <2>1, <2>4
<1>9. Complete(el, hl, ak2, vh)'
  BY <1>c, <1>n, <1>s DEF Complete
<1>10. Core(el, hl, ak2, vh)'
  BY <1>1, <1>2, <1>3, <1>4, <1>5, <1>6, <1>7, <1>8, <1>9 DEF Core
<1> QED
  BY <1>10, <1>a, <1>l

(***************************************************************************)
(* A request: the rest of the leader's log.                                *)
(***************************************************************************)
LEMMA SendCore ==
  ASSUME NEW el, NEW hl, NEW ak, NEW vh, Core(el, hl, ak, vh),
         NEW l \in Node, NEW f \in Node, NEW prev \in Nat, SendAppend(l, f, prev)
  PROVE  Core(el, hl, ak, vh)'
<1>t. Types(el, hl)
  BY DEF Core, Ballot
<1>c. /\ Growth(vh) /\ VotesAreSpent /\ Elections(el, vh) /\ Chronicle(el, hl) /\ Logs(el, hl)
      /\ Acks(el, hl, ak) /\ Requests(el, hl)
      /\ Kept(el, hl, ak, vh) /\ Candidates(el, hl, ak, vh) /\ Complete(el, hl, ak, vh)
  BY DEF Core, Ballot
<1>z. PICK t, h : t = term[l] /\ h = log[l]
  OBVIOUS
<1>q. PICK q : q = [from |-> l, to |-> f, term |-> t, prev |-> prev,
                    prev_term |-> IF prev = 0 THEN 0 ELSE h[prev],
                    new |-> SubSeq(h, prev + 1, Len(h))]
  OBVIOUS
<1>g. /\ role[l] = "leader" /\ f # l /\ prev <= Len(h) - 1
      /\ wire' = wire \cup {q}
      /\ term' = term /\ voters' = voters /\ role' = role /\ granted' = granted /\ log' = log
  BY <1>q, <1>z DEF SendAppend, electionVars
<1>i. /\ t \in Nat /\ h \in Seq(Nat) /\ Len(h) \in Nat
      /\ t \in DOMAIN el /\ el[t].leader = l /\ hl[t] = h
  BY <1>c, <1>g, <1>t, <1>z, Typed DEF Elections, Logs
<1>r. q.new \in Seq(Nat) /\ Len(q.new) = Len(h) - prev /\ \A j \in 1 .. Len(q.new) : q.new[j] = h[prev + j]
  <2> DEFINE r == SubSeq(h, prev + 1, Len(h))
  <2>1. prev + 1 \in 1 .. Len(h) /\ Len(h) \in 1 .. Len(h)
    BY <1>g, <1>i
  <2>2. /\ r \in Seq(Nat) /\ Len(r) = Len(h) - (prev + 1) + 1
        /\ \A j \in 1 .. Len(h) - (prev + 1) + 1 : r[j] = h[prev + 1 + j - 1]
    BY <1>i, <2>1, SubSeqProperties
  <2>3. q.new = r
    BY <1>q
  <2> HIDE DEF r
  <2>4. Len(h) - (prev + 1) + 1 = Len(h) - prev
    BY <1>i
  <2>5. \A j \in 1 .. Len(h) - prev : prev + 1 + j - 1 = prev + j
    BY <1>i
  <2> QED
    BY <2>2, <2>3, <2>4, <2>5
<1>1. Requests(el, hl)'
  <2>1. /\ q.from \in Node /\ q.to \in Node /\ q.from # q.to
        /\ q.term \in DOMAIN el /\ el[q.term].leader = q.from
        /\ q.prev \in Nat /\ q.new \in Seq(Nat)
        /\ q.prev > 0 => q.prev_term = hl[q.term][q.prev]
        /\ \A j \in 1 .. Len(q.new) : q.new[j] = hl[q.term][q.prev + j]
    BY <1>g, <1>i, <1>q, <1>r, SMTT(30)
  <2>2. q.prev + Len(q.new) = Len(hl[q.term]) /\ q.term = t
    <3>1. q.prev = prev /\ q.term = t /\ hl[q.term] = h
      BY <1>i, <1>q
    <3>2. prev + (Len(h) - prev) = Len(h)
      BY <1>i
    <3> QED
      BY <1>r, <3>1, <3>2
  <2>3. el[t].base <= Len(hl[t]) /\ Len(hl[t]) <= Len(hl[t])
    BY <1>c, <1>i DEF Chronicle
  <2>6. ASSUME NEW m \in wire'
        PROVE  /\ m.from \in Node /\ m.to \in Node /\ m.from # m.to
               /\ m.term \in DOMAIN el /\ el[m.term].leader = m.from
               /\ m.prev \in Nat /\ m.new \in Seq(Nat)
               /\ el[m.term].base <= m.prev + Len(m.new)
               /\ m.prev + Len(m.new) <= Len(hl[m.term])
               /\ \A j \in 1 .. Len(m.new) : m.new[j] = hl[m.term][m.prev + j]
               /\ m.prev > 0 => m.prev_term = hl[m.term][m.prev]
    <3>1. CASE m = q
      BY <2>1, <2>2, <2>3, <3>1
    <3>2. CASE m # q
      <4>1. m \in wire
        BY <1>g, <3>2
      <4> QED
        BY <1>c, <4>1 DEF Requests
    <3> QED
      BY <3>1, <3>2
  <2> QED
    BY <2>6 DEF Requests
<1>b. Ballot(el, vh)'
  BY SameBallot DEF Core, SendAppend
<1>2. Types(el, hl)' /\ Logs(el, hl)'
  BY <1>c, <1>g, <1>t DEF Types, Logs
<1>3. Chronicle(el, hl)'
  BY <1>c DEF Chronicle
<1>4. Acks(el, hl, ak)' /\ Kept(el, hl, ak, vh)'
  BY <1>c, <1>g DEF Acks, Kept
<1>5. Candidates(el, hl, ak, vh)' /\ Complete(el, hl, ak, vh)'
  BY <1>c, <1>g DEF Candidates, Complete
<1> QED
  BY <1>b, <1>1, <1>2, <1>3, <1>4, <1>5 DEF Core

(***************************************************************************)
(* Nothing changes but that requests get lost.                             *)
(***************************************************************************)
LEMMA SameCore ==
  ASSUME NEW el, NEW hl, NEW ak, NEW vh, Core(el, hl, ak, vh),
         UNCHANGED <<electionVars, log>>, wire' \subseteq wire
  PROVE  Core(el, hl, ak, vh)'
<1>g. term' = term /\ voters' = voters /\ role' = role /\ granted' = granted /\ log' = log
  BY DEF electionVars
<1>b. Ballot(el, vh)'
  BY SameBallot DEF Core
<1>1. Types(el, hl)' /\ Logs(el, hl)'
  BY <1>g DEF Core, Types, Logs
<1>2. Chronicle(el, hl)' /\ Requests(el, hl)'
  BY DEF Core, Chronicle, Requests
<1>3. Acks(el, hl, ak)' /\ Kept(el, hl, ak, vh)'
  BY <1>g DEF Core, Acks, Kept
<1>4. Candidates(el, hl, ak, vh)' /\ Complete(el, hl, ak, vh)'
  BY <1>g DEF Core, Candidates, Complete
<1> QED
  BY <1>b, <1>1, <1>2, <1>3, <1>4 DEF Core

(***************************************************************************)
(* A promotion adds to the voters; what was out of reach of a majority     *)
(* stays so.                                                               *)
(***************************************************************************)
LEMMA PromoteCore ==
  ASSUME NEW el, NEW hl, NEW ak, NEW vh, Core(el, hl, ak, vh),
         NEW l \in Node, NEW b \in Node, Promote(l, b)
  PROVE  \E vh2 : /\ Core(el, hl, ak, vh2)'
                  /\ Later(vh, ak, voters, term, vh2, ak, voters', term')
<1>t. Types(el, hl)
  BY DEF Core, Ballot
<1>c. /\ Growth(vh) /\ VotesAreSpent /\ Elections(el, vh) /\ Chronicle(el, hl) /\ Logs(el, hl)
      /\ Acks(el, hl, ak) /\ Requests(el, hl)
      /\ Kept(el, hl, ak, vh) /\ Candidates(el, hl, ak, vh) /\ Complete(el, hl, ak, vh)
  BY DEF Core, Ballot
<1>g. /\ voters' = voters \cup {b}
      /\ term' = term /\ role' = role /\ granted' = granted /\ log' = log /\ wire' = wire
  BY DEF Promote, logVars
<1>z. PICK vh2 : vh2 = vh \cup {voters \cup {b}}
  OBVIOUS
<1>n. \A x \in DOMAIN el : x \in Nat
  BY <1>t, Typed
<1>l. Later(vh, ak, voters, term, vh2, ak, voters', term')
  <2>1. \A v \in Node : term[v] \in Nat /\ term[v] <= term[v]
    BY <1>t, Typed
  <2>2. vh \subseteq vh2 /\ \A V \in vh2 : V \in vh \/ voters \subseteq V
    BY <1>z
  <2> QED
    BY <1>g, <2>1, <2>2 DEF Later
<1>s. \A x, i \in Nat : Choosable(vh2, ak, voters', term', x, i)
                       => Choosable(vh, ak, voters, term, x, i)
  BY <1>l, ChoosableShrinks
<1>1. Ballot(el, vh2)'
  <2>1. Ballot(el, vh) /\ vh2 = vh \cup {voters'}
    BY <1>g, <1>z DEF Core
  <2> QED
    BY <2>1, PromoteBallot
<1>2. Types(el, hl)' /\ Logs(el, hl)'
  BY <1>c, <1>g, <1>t DEF Types, Logs
<1>3. Chronicle(el, hl)' /\ Requests(el, hl)' /\ Acks(el, hl, ak)'
  BY <1>c, <1>g DEF Chronicle, Requests, Acks
<1>4. Kept(el, hl, ak, vh2)'
  BY <1>c, <1>g, <1>n, <1>s DEF Kept
<1>5. Candidates(el, hl, ak, vh2)' /\ Complete(el, hl, ak, vh2)'
  BY <1>c, <1>g, <1>n, <1>s DEF Candidates, Complete
<1>6. Core(el, hl, ak, vh2)'
  BY <1>1, <1>2, <1>3, <1>4, <1>5 DEF Core
<1> QED
  BY <1>6, <1>l

(***************************************************************************)
(* An agreeing request: FollowerLog.append checks one entry, and the whole *)
(* log up to the end of the request becomes the leader's.                  *)
(***************************************************************************)
LEMMA DeliverReceived ==
  ASSUME NEW el, NEW hl, NEW ak, NEW vh, Core(el, hl, ak, vh),
         NEW m \in wire, m.term >= term[m.to], Followed(m.to, m.term), Agrees(m.to, m), ~ Cuts(m.to, m),
         log' = [log EXCEPT ![m.to] = Appended(m.to, m)], wire' = wire \ {m}
  PROVE  \E s : /\ Received(el, hl, ak, vh, m.to, m.term, s)
                /\ Len(s) = m.prev + Len(m.new)
                /\ s = Appended(m.to, m)
                /\ el[m.term].base <= Len(s)
<1>t. Types(el, hl)
  BY DEF Core, Ballot
<1>c. /\ Chronicle(el, hl) /\ Logs(el, hl) /\ Acks(el, hl, ak) /\ Requests(el, hl)
      /\ Kept(el, hl, ak, vh) /\ Complete(el, hl, ak, vh)
  BY DEF Core, Ballot
<1>z. PICK f, t, p, b, h, g :
        f = m.to /\ t = m.term /\ p = m.prev /\ b = m.new /\ h = log[f] /\ g = hl[t]
  OBVIOUS
<1>m. /\ f \in Node /\ m.from # f /\ t \in DOMAIN el /\ el[t].leader = m.from
      /\ p \in Nat /\ b \in Seq(Nat) /\ el[t].base <= p + Len(b) /\ p + Len(b) <= Len(g)
      /\ \A j \in 1 .. Len(b) : b[j] = g[p + j]
      /\ p > 0 => m.prev_term = g[p]
  BY <1>c, <1>z DEF Requests
<1>n. /\ t \in Nat /\ h \in Seq(Nat) /\ Len(h) \in Nat /\ g \in Seq(Nat) /\ Len(g) \in Nat
      /\ Len(b) \in Nat /\ term[f] \in Nat /\ term[f] <= t
      /\ el[t].base \in Nat
  <2>1. /\ t \in Nat /\ h \in Seq(Nat) /\ Len(h) \in Nat /\ g \in Seq(Nat) /\ Len(g) \in Nat
        /\ term[f] \in Nat
    BY <1>m, <1>t, <1>z, Typed
  <2>2. Len(b) \in Nat /\ el[t].base \in Nat
    BY <1>c, <1>m DEF Chronicle
  <2> QED
    BY <1>z, <2>1, <2>2
<1>a. p = 0 \/ (p <= Len(h) /\ h[p] = m.prev_term)
  BY <1>z DEF Agrees
<1>1. \A j \in 1 .. p : p <= Len(h) /\ h[j] = g[j]
  <2> SUFFICES ASSUME NEW j \in 1 .. p PROVE p <= Len(h) /\ h[j] = g[j]
    OBVIOUS
  <2>1. p > 0 /\ p \in 1 .. Len(h) /\ p \in 1 .. Len(g) /\ h[p] = g[p]
    BY <1>a, <1>m, <1>n, SMTT(30)
  <2>t. Traced(el, hl, h) /\ Traced(el, hl, g)
    BY <1>c, <1>m, <1>z DEF Logs, Chronicle
  <2>2. \A i \in 1 .. p : h[i] = hl[h[p]][i]
    BY <2>1, <2>t DEF Traced
  <2>3. \A i \in 1 .. p : g[i] = hl[g[p]][i]
    BY <2>1, <2>t DEF Traced
  <2> QED
    BY <2>1, <2>2, <2>3
<1>2. PICK s : s = SubSeq(h, 1, p) \o b
  OBVIOUS
<1>3. s \in Seq(Nat) /\ Len(s) = p + Len(b) /\ \A j \in 1 .. p + Len(b) : s[j] = g[j]
  <2> DEFINE r == SubSeq(h, 1, p)
  <2>1. r \in Seq(Nat) /\ Len(r) = p /\ \A j \in 1 .. p : r[j] = h[j]
    <3>1. CASE p = 0
      <4>1. r = << >>
        BY <1>n, <3>1
      <4> QED
        BY <3>1, <4>1
    <3>2. CASE p # 0
      <4>1. 1 \in 1 .. Len(h) + 1 /\ p \in 0 .. Len(h) /\ p \in 1 .. Len(h) /\ 1 \in 1 .. Len(h)
        BY <1>a, <1>m, <1>n, <3>2, SMTT(30)
      <4>2. /\ r \in Seq(Nat) /\ Len(r) = p - 1 + 1
            /\ \A j \in 1 .. p - 1 + 1 : r[j] = h[1 + j - 1]
        BY <1>n, <4>1, SubSeqProperties
      <4>3. p - 1 + 1 = p /\ \A j \in 1 .. p : 1 + j - 1 = j
        BY <1>m
      <4> QED
        BY <4>2, <4>3
    <3> QED
      BY <3>1, <3>2
  <2> HIDE DEF r
  <2>2. s = r \o b
    BY <1>2 DEF r
  <2>3. /\ s \in Seq(Nat) /\ Len(s) = p + Len(b)
        /\ \A j \in 1 .. p + Len(b) : s[j] = IF j <= p THEN r[j] ELSE b[j - p]
    <3>1. /\ r \o b \in Seq(Nat) /\ Len(r \o b) = Len(r) + Len(b)
          /\ \A j \in 1 .. Len(r) + Len(b) :
               (r \o b)[j] = IF j <= Len(r) THEN r[j] ELSE b[j - Len(r)]
      <4>1. b \in Seq(Nat) /\ r \in Seq(Nat)
        BY <1>m, <2>1
      <4> QED
        BY <4>1, ConcatProperties
    <3> QED
      BY <2>1, <2>2, <3>1
  <2>4. ASSUME NEW j \in 1 .. p + Len(b) PROVE s[j] = g[j]
    <3>1. CASE j <= p
      <4>1. j \in 1 .. p
        BY <3>1
      <4> QED
        BY <1>1, <2>1, <2>3, <3>1, <4>1
    <3>2. CASE ~ (j <= p)
      <4>1. j - p \in 1 .. Len(b) /\ p + (j - p) = j
        BY <1>m, <1>n, <3>2
      <4> QED
        BY <1>m, <2>3, <3>2, <4>1
    <3> QED
      BY <3>1, <3>2
  <2> QED
    BY <2>3, <2>4
<1>5. ASSUME NEW x \in DOMAIN el, NEW i \in Nat, <<x, f, i>> \in ak, Own(hl, x, i),
             Choosable(vh, ak, voters, term, x, i)
      PROVE  i <= Len(s)
  <2>1. x \in Nat /\ x <= term[f]
    BY <1>c, <1>m, <1>n, <1>t, <1>5, Typed DEF Acks
  <2>2. CASE x = t
    <3>1. i \in 1 .. Len(h) /\ h[i] = t
      BY <1>5, <1>c, <1>m, <1>z, <2>2 DEF Kept, Has
    <3>2. \A j \in p + Len(b) + 1 .. Len(h) : h[j] # t
      BY <1>z DEF Cuts
    <3>3. ~ (i > p + Len(b))
      BY <1>m, <1>n, <3>1, <3>2
    <3> QED
      BY <1>3, <1>m, <1>n, <3>1, <3>3
  <2>3. CASE x # t
    <3>1. x < t
      BY <1>n, <2>1, <2>3
    <3>2. i <= el[t].base
      BY <1>5, <1>c, <1>m, <3>1 DEF Complete
    <3> QED
      BY <1>3, <1>m, <1>n, <3>2
  <2> QED
    BY <2>2, <2>3
<1>6. s = Appended(f, m)
  BY <1>2, <1>z DEF Appended
<1>7. Received(el, hl, ak, vh, f, t, s)
  <2>1. Followed(f, t) /\ log' = [log EXCEPT ![f] = s]
    BY <1>6, <1>z
  <2>2. Len(s) <= Len(hl[t]) /\ \A j \in 1 .. Len(s) : s[j] = hl[t][j]
    BY <1>3, <1>m, <1>z
  <2> QED
    BY <1>3, <1>5, <1>m, <2>1, <2>2 DEF Received
<1> QED
  BY <1>3, <1>6, <1>7, <1>m, <1>z
----------------------------------------------------------------------------
(***************************************************************************)
(* What leaders, snapshots and reads rest on.                              *)
(***************************************************************************)
LeaderTypes ==
  /\ match \in [Node -> [Node -> Nat]]
  /\ commit_index \in [Node -> Nat]
  /\ read \in [Node -> {None} \cup [index : Nat, confirmed : SUBSET Node, floor : Nat]]
  /\ snapshot \in [Node -> [offset : Nat, durable : Nat]]
  /\ log_start \in [Node -> Nat \ {0}]

\* A leader counts what was acknowledged in its term, and has committed an entry of its
\* own; who does not lead counts nothing.
LeaderCounts(ak, n) ==
  /\ role[n] # "leader" => match[n] = NoMatch /\ commit_index[n] = 0 /\ read[n] = None
  /\ role[n] = "leader" =>
       /\ \A v \in Node : \A i \in 1 .. match[n][v] : <<term[n], v, i>> \in ak
       /\ \A i \in 1 .. Len(log[n]) : <<term[n], n, i>> \in ak
  /\ commit_index[n] > 0 => Has(log[n], commit_index[n], term[n])

\* Node n holds committed entries up to k, and will.
Fixed(ak, vh, n, k) ==
  k > 0 =>
    /\ k \in 1 .. Len(log[n]) /\ k <= Len(committed)
    /\ Chosen(vh, ak, log[n][k], k)
    /\ log[n][k] < term[n] \/ <<log[n][k], n, k>> \in ak

\* Snapshots are of committed entries; what is discarded is in one on disk.
SnapshotsHold(ak, vh, n) ==
  /\ Fixed(ak, vh, n, commit_index[n])
  /\ Fixed(ak, vh, n, snapshot[n].offset)
  /\ Fixed(ak, vh, n, snapshot[n].durable)
  /\ Fixed(ak, vh, n, log_start[n] - 1)
  /\ snapshot[n].durable <= snapshot[n].offset
  /\ log_start[n] - 1 <= snapshot[n].durable

\* A majority is beyond the leader's term and has not confirmed its read.
Overtaken(vh, l) ==
  \E V \in vh : \E Q \in SUBSET V :
    /\ Cardinality(Q) >= Majority(V)
    /\ \A v \in Q : term[v] > term[l] /\ v \notin read[l].confirmed

\* A read of a leader that has committed began with all that was committed, unless the
\* leader had been deposed by then.
ReadHolds(vh, l) ==
  read[l] # None =>
    /\ l \in read[l].confirmed
    /\ \/ read[l].index = 0
       \/ read[l].index >= read[l].floor
       \/ Overtaken(vh, l)

\* The committed prefix is that of a leader's log up to an entry of its own term that a
\* majority acknowledged; if that leader still leads, it knows.
CommittedHolds(el, hl, ak, vh) ==
  /\ committed \in Seq(Nat)
  /\ \A k \in 1 .. Len(committed) : k = Len(committed) =>
       /\ committed[k] \in DOMAIN el
       /\ Own(hl, committed[k], k)
       /\ Chosen(vh, ak, committed[k], k)
       /\ \A j \in 1 .. k : committed[j] = hl[committed[k]][j]
       /\ \A l \in Node : role[l] = "leader" /\ term[l] = committed[k] => commit_index[l] >= k

\* The part of the invariant about leaders, snapshots, reads and the committed prefix.
Outer(el, hl, ak, vh) ==
  /\ LeaderTypes
  /\ \A n \in Node : LeaderCounts(ak, n) /\ SnapshotsHold(ak, vh, n) /\ ReadHolds(vh, n)
  /\ CommittedHolds(el, hl, ak, vh)

(***************************************************************************)
(* The inductive invariant: some past explains the state.                  *)
(***************************************************************************)
IInv == \E el, hl, ak, vh : Core(el, hl, ak, vh) /\ Outer(el, hl, ak, vh)
----------------------------------------------------------------------------
\* Fixed stays fixed as long as the log keeps the entry.
LEMMA FixedStays ==
  ASSUME NEW ak, NEW vh, NEW ak2, NEW vh2, NEW n \in Node, NEW k \in Nat, Fixed(ak, vh, n, k),
         Later(vh, ak, voters, term, vh2, ak2, voters', term'),
         log[n] \in Seq(Nat), k > 0 => Has(log'[n], k, log[n][k]),
         Len(committed) \in Nat, Len(committed') \in Nat, Len(committed) <= Len(committed')
  PROVE  Fixed(ak2, vh2, n, k)'
<1> SUFFICES ASSUME k > 0
             PROVE  /\ k \in 1 .. Len(log'[n]) /\ k <= Len(committed')
                    /\ Chosen(vh2, ak2, log'[n][k], k)
                    /\ log'[n][k] < term'[n] \/ <<log'[n][k], n, k>> \in ak2
  BY DEF Fixed
<1>1. /\ k \in 1 .. Len(log[n]) /\ k <= Len(committed)
      /\ Chosen(vh, ak, log[n][k], k)
      /\ log[n][k] < term[n] \/ <<log[n][k], n, k>> \in ak
  BY DEF Fixed
<1>2. k \in 1 .. Len(log'[n]) /\ log'[n][k] = log[n][k] /\ log[n][k] \in Nat
  BY <1>1, SMTT(30) DEF Has
<1>3. Chosen(vh2, ak2, log[n][k], k)
  BY <1>1, ChosenStays
<1>4. log[n][k] < term'[n] \/ <<log[n][k], n, k>> \in ak2
  BY <1>1, <1>2, SMTT(30) DEF Later
<1> QED
  BY <1>1, <1>2, <1>3, <1>4

\* The log of node n keeps every entry that is fixed.
Retains(ak, vh, n) ==
  \A k \in Nat : k > 0 /\ Fixed(ak, vh, n, k) => Has(log'[n], k, log[n][k])

\* What a step preserves for every node: the past moves on, and the committed prefix only
\* grows.
Onward(ak, vh, ak2, vh2) ==
  /\ Later(vh, ak, voters, term, vh2, ak2, voters', term')
  /\ \A n \in Node : log[n] \in Seq(Nat)
  /\ Len(committed) \in Nat /\ Len(committed') \in Nat /\ Len(committed) <= Len(committed')

\* A node's snapshot and its log's start are what they were.
LEMMA SnapshotsStay ==
  ASSUME LeaderTypes, NEW ak, NEW vh, NEW ak2, NEW vh2, Onward(ak, vh, ak2, vh2), NEW n \in Node,
         Retains(ak, vh, n), SnapshotsHold(ak, vh, n),
         snapshot'[n] = snapshot[n], log_start'[n] = log_start[n],
         commit_index'[n] \in {0, commit_index[n]}
  PROVE  SnapshotsHold(ak2, vh2, n)'
<1>1. /\ commit_index[n] \in Nat /\ snapshot[n].offset \in Nat /\ snapshot[n].durable \in Nat
      /\ log_start[n] - 1 \in Nat
  BY DEF LeaderTypes
<1>2. \A k \in Nat : Fixed(ak, vh, n, k) => Fixed(ak2, vh2, n, k)'
  <2> SUFFICES ASSUME NEW k \in Nat, Fixed(ak, vh, n, k) PROVE Fixed(ak2, vh2, n, k)'
    OBVIOUS
  <2>1. k > 0 => Has(log'[n], k, log[n][k])
    BY DEF Retains
  <2> QED
    BY <2>1, FixedStays DEF Onward
<1>3. Fixed(ak2, vh2, n, 0)'
  BY DEF Fixed
<1> QED
  BY <1>1, <1>2, <1>3 DEF SnapshotsHold

\* A node that nothing happened to counts and reads as before.
Untouched(n) ==
  /\ role'[n] = role[n] /\ term'[n] = term[n] /\ log'[n] = log[n]
  /\ match'[n] = match[n] /\ commit_index'[n] = commit_index[n] /\ read'[n] = read[n]
  /\ snapshot'[n] = snapshot[n] /\ log_start'[n] = log_start[n]

\* A read that nobody touched is as fresh as it was: who moved on does not come back.
LEMMA ReadStays ==
  ASSUME NEW ak, NEW vh, NEW ak2, NEW vh2, Growth(vh),
         Later(vh, ak, voters, term, vh2, ak2, voters', term'),
         NEW l \in Node, ReadHolds(vh, l), read'[l] = read[l], term'[l] = term[l]
  PROVE  ReadHolds(vh2, l)'
<1> SUFFICES ASSUME read[l] # None, read[l].index # 0, ~ (read[l].index >= read[l].floor)
             PROVE  Overtaken(vh2, l)'
  BY DEF ReadHolds
<1>1. PICK V \in vh : \E Q \in SUBSET V :
        /\ Cardinality(Q) >= Majority(V)
        /\ \A v \in Q : term[v] > term[l] /\ v \notin read[l].confirmed
  BY DEF ReadHolds, Overtaken
<1>2. PICK Q \in SUBSET V :
        /\ Cardinality(Q) >= Majority(V)
        /\ \A v \in Q : term[v] > term[l] /\ v \notin read[l].confirmed
  BY <1>1
<1>3. V \in vh2 /\ \A v \in Q : v \in Node
  BY DEF Later, Growth
<1>4. \A v \in Q : term'[v] > term'[l] /\ v \notin read'[l].confirmed
  BY <1>2, <1>3 DEF Later
<1> QED
  BY <1>2, <1>3, <1>4 DEF Overtaken

\* What holds of a node that nothing happened to still does.
LEMMA UntouchedHolds ==
  ASSUME LeaderTypes, NEW ak, NEW vh, NEW ak2, NEW vh2, Growth(vh), Onward(ak, vh, ak2, vh2),
         NEW n \in Node, Untouched(n),
         LeaderCounts(ak, n), SnapshotsHold(ak, vh, n), ReadHolds(vh, n)
  PROVE  LeaderCounts(ak2, n)' /\ SnapshotsHold(ak2, vh2, n)' /\ ReadHolds(vh2, n)'
<1>1. LeaderCounts(ak2, n)'
  <2>1. ak \subseteq ak2
    BY DEF Onward, Later
  <2> QED
    BY <2>1 DEF LeaderCounts, Untouched, NoMatch
<1>2. ReadHolds(vh2, n)'
  BY ReadStays DEF Untouched, Onward
<1>3. Retains(ak, vh, n)
  BY DEF Retains, Fixed, Has, Untouched
<1>4. SnapshotsHold(ak2, vh2, n)'
  BY <1>3, SnapshotsStay DEF Untouched
<1> QED
  BY <1>1, <1>2, <1>4

\* A node that follows counts and reads nothing; its snapshot may stay.
Rested(v) ==
  /\ role'[v] = "follower" /\ match'[v] = NoMatch /\ commit_index'[v] = 0 /\ read'[v] = None

\* Of a node that follows there is nothing to show but its snapshot.
LEMMA RestedHolds ==
  ASSUME NEW ak2, NEW vh2, NEW v \in Node, Rested(v)
  PROVE  LeaderCounts(ak2, v)' /\ ReadHolds(vh2, v)'
  BY DEF Rested, LeaderCounts, ReadHolds, NoMatch

\* Nothing is committed, and no leader of a past term appears.
LEMMA CommittedStays ==
  ASSUME NEW el, NEW hl, NEW ak, NEW vh, NEW el2, NEW hl2, NEW ak2, NEW vh2,
         CommittedHolds(el, hl, ak, vh), committed' = committed,
         Later(vh, ak, voters, term, vh2, ak2, voters', term'), Longer(el, hl, el2, hl2),
         LeaderTypes,
         \A l \in Node : role'[l] = "leader" =>
           \/ role[l] = "leader" /\ term'[l] = term[l] /\ commit_index'[l] = commit_index[l]
           \/ term'[l] \notin DOMAIN el
  PROVE  CommittedHolds(el2, hl2, ak2, vh2)'
<1> SUFFICES ASSUME NEW k \in 1 .. Len(committed), k = Len(committed)
             PROVE  /\ committed[k] \in DOMAIN el2
                    /\ Own(hl2, committed[k], k)
                    /\ Chosen(vh2, ak2, committed[k], k)
                    /\ \A j \in 1 .. k : committed[j] = hl2[committed[k]][j]
                    /\ \A l \in Node :
                         role'[l] = "leader" /\ term'[l] = committed[k] => commit_index'[l] >= k
  BY DEF CommittedHolds
<1>1. PICK t : t = committed[k]
  OBVIOUS
<1>2. /\ t \in DOMAIN el /\ k \in 1 .. Len(hl[t]) /\ hl[t][k] = t
      /\ Chosen(vh, ak, t, k)
      /\ \A j \in 1 .. k : committed[j] = hl[t][j]
      /\ \A l \in Node : role[l] = "leader" /\ term[l] = t => commit_index[l] >= k
  BY <1>1 DEF CommittedHolds, Own
<1>3. /\ t \in DOMAIN el2 /\ Len(hl[t]) \in Nat /\ Len(hl2[t]) \in Nat
      /\ Len(hl[t]) <= Len(hl2[t]) /\ \A j \in 1 .. Len(hl[t]) : hl2[t][j] = hl[t][j]
  BY <1>2 DEF Longer
<1>4. k \in 1 .. Len(hl2[t]) /\ hl2[t][k] = t
  BY <1>2, <1>3
<1>5. \A j \in 1 .. k : committed[j] = hl2[t][j]
  <2>1. \A j \in 1 .. k : j \in 1 .. Len(hl[t])
    BY <1>2, <1>3
  <2> QED
    BY <1>2, <1>3, <2>1
<1>6. Chosen(vh2, ak2, t, k)
  BY <1>2, ChosenStays
<1>7. \A l \in Node : role'[l] = "leader" /\ term'[l] = t => commit_index'[l] >= k
  BY <1>2
<1> QED
  BY <1>1, <1>3, <1>4, <1>5, <1>6, <1>7 DEF Own

(***************************************************************************)
(* A step preserves the invariant when its part about votes and logs does, *)
(* and every node is untouched or still counts, reads and holds.           *)
(***************************************************************************)
LEMMA Assembled ==
  ASSUME NEW el, NEW hl, NEW ak, NEW vh, NEW el2, NEW hl2, NEW ak2, NEW vh2,
         Core(el, hl, ak, vh), Outer(el, hl, ak, vh), Core(el2, hl2, ak2, vh2)',
         Onward(ak, vh, ak2, vh2), LeaderTypes', CommittedHolds(el2, hl2, ak2, vh2)',
         \A n \in Node :
           \/ Untouched(n)
           \/ LeaderCounts(ak2, n)' /\ SnapshotsHold(ak2, vh2, n)' /\ ReadHolds(vh2, n)'
  PROVE  IInv'
<1>1. ASSUME NEW n \in Node
      PROVE  LeaderCounts(ak2, n)' /\ SnapshotsHold(ak2, vh2, n)' /\ ReadHolds(vh2, n)'
  <2>1. /\ LeaderTypes /\ Growth(vh)
        /\ LeaderCounts(ak, n) /\ SnapshotsHold(ak, vh, n) /\ ReadHolds(vh, n)
    BY DEF Core, Ballot, Outer
  <2> QED
    BY <2>1, UntouchedHolds
<1>2. Outer(el2, hl2, ak2, vh2)'
  BY <1>1 DEF Outer
<1> QED
  BY <1>2 DEF IInv

\* Without a new acknowledgement or voter the past is the same.
LEMMA SamePast ==
  ASSUME NEW el, NEW hl, NEW ak, NEW vh, Core(el, hl, ak, vh), Outer(el, hl, ak, vh),
         voters' = voters, \A n \in Node : term'[n] \in Nat /\ term[n] <= term'[n],
         committed' = committed
  PROVE  Onward(ak, vh, ak, vh) /\ Longer(el, hl, el, hl)
<1>1. \A n \in Node : term[n] \in Nat /\ log[n] \in Seq(Nat)
  BY Typed DEF Core
<1>2. Later(vh, ak, voters, term, vh, ak, voters', term')
  BY <1>1 DEF Later
<1>3. Len(committed) \in Nat
  BY DEF Outer, CommittedHolds
<1>4. Longer(el, hl, el, hl)
  <2>1. \A x \in DOMAIN el : Len(hl[x]) \in Nat
    BY Typed DEF Core
  <2> QED
    BY <2>1 DEF Longer
<1> QED
  BY <1>1, <1>2, <1>3, <1>4 DEF Onward

\* A node whose log stays retains what is fixed.
LEMMA SameLogRetains ==
  ASSUME NEW ak, NEW vh, NEW n, log'[n] = log[n]
  PROVE  Retains(ak, vh, n)
  BY DEF Retains, Fixed, Has

\* Election.request_vote: the voter follows.
LEMMA VoteStep ==
  ASSUME NEW el, NEW hl, NEW ak, NEW vh, Core(el, hl, ak, vh), Outer(el, hl, ak, vh),
         NEW v \in Node, NEW c \in Node, RequestVote(v, c)
  PROVE  IInv'
<1>t. Types(el, hl) /\ LeaderTypes
  BY DEF Core, Ballot, Outer
<1>g. /\ role[c] = "candidate" /\ term[v] < term[c]
      /\ term' = [term EXCEPT ![v] = term[c]]
      /\ role' = [role EXCEPT ![v] = "follower"]
      /\ match' = [match EXCEPT ![v] = NoMatch]
      /\ commit_index' = [commit_index EXCEPT ![v] = 0]
      /\ read' = [read EXCEPT ![v] = None]
      /\ voters' = voters /\ log' = log /\ committed' = committed
      /\ snapshot' = snapshot /\ log_start' = log_start
  BY DEF RequestVote, Follow, logVars, snapVars
<1>1. Core(el, hl, ak, vh)'
  BY VoteCore
<1>n. \A n \in Node : term[n] \in Nat
  BY <1>t, Typed
<1>u. Rested(v) /\ \A n \in Node : n # v => Untouched(n)
  BY <1>g, <1>t DEF Rested, Untouched, Types, LeaderTypes
<1>w. \A n \in Node : term'[n] \in Nat /\ term[n] <= term'[n]
  <2>1. term'[v] = term[c] /\ \A n \in Node : n # v => term'[n] = term[n]
    BY <1>g, <1>t DEF Types
  <2> QED
    BY <1>g, <1>n, <2>1
<1>2. Onward(ak, vh, ak, vh) /\ Longer(el, hl, el, hl)
  BY <1>g, <1>w, SamePast
<1>3. LeaderTypes'
  BY <1>g, <1>t DEF LeaderTypes, NoMatch
<1>4. CommittedHolds(el, hl, ak, vh)'
  <2>1. \A l \in Node : role'[l] = "leader" =>
          role[l] = "leader" /\ term'[l] = term[l] /\ commit_index'[l] = commit_index[l]
    BY <1>u DEF Rested, Untouched
  <2> QED
    BY <1>2, <1>g, <1>t, <2>1, CommittedStays DEF Outer, Onward
<1>5. LeaderCounts(ak, v)' /\ ReadHolds(vh, v)'
  BY <1>u, RestedHolds
<1>6. SnapshotsHold(ak, vh, v)'
  <2>1. Retains(ak, vh, v)
    BY <1>g, SameLogRetains
  <2>2. snapshot'[v] = snapshot[v] /\ log_start'[v] = log_start[v] /\ commit_index'[v] = 0
    BY <1>g, <1>u DEF Rested
  <2> QED
    BY <1>2, <1>t, <2>1, <2>2, SnapshotsStay DEF Outer
<1> QED
  BY <1>1, <1>2, <1>3, <1>4, <1>5, <1>6, <1>u, Assembled

\* ReadIndex.confirm: the voter follows, and its answer counts for the read.
LEMMA ConfirmStep ==
  ASSUME NEW el, NEW hl, NEW ak, NEW vh, Core(el, hl, ak, vh), Outer(el, hl, ak, vh),
         NEW l \in Node, NEW v \in Node, Confirm(l, v)
  PROVE  IInv'
<1>t. Types(el, hl) /\ BallotTypes(el) /\ LeaderTypes
  BY DEF Core, Ballot, Outer
<1>g. /\ read[l] # None /\ v \notin read[l].confirmed /\ term[v] <= term[l]
      /\ Follow(v, term[l])
      /\ granted' = [granted EXCEPT ![v] = {}]
      /\ match' = [match EXCEPT ![v] = NoMatch]
      /\ commit_index' = [commit_index EXCEPT ![v] = 0]
      /\ read' = [read EXCEPT ![v] = None, ![l].confirmed = @ \cup {v}]
      /\ voters' = voters /\ log' = log /\ committed' = committed /\ wire' = wire
      /\ snapshot' = snapshot /\ log_start' = log_start
  BY DEF Confirm, Confirms, logVars, snapVars
<1>o. /\ LeaderCounts(ak, l) /\ ReadHolds(vh, l) /\ Growth(vh)
      /\ SnapshotsHold(ak, vh, l) /\ SnapshotsHold(ak, vh, v)
  BY DEF Outer, Core, Ballot
<1>v. v # l
  BY <1>g, <1>o DEF ReadHolds
<1>f. Followed(v, term[l])
  BY <1>g, <1>t, Typed DEF Followed
<1>1. Core(el, hl, ak, vh)'
  BY <1>f, <1>g, FollowedCore
<1>w. /\ \A n \in Node : term'[n] \in Nat /\ term[n] <= term'[n]
      /\ \A n \in Node : n # v => term'[n] = term[n]
  BY <1>f, <1>t, FollowedTerms
<1>r. /\ read[l] \in [index : Nat, confirmed : SUBSET Node, floor : Nat]
      /\ read'[v] = None
      /\ \A n \in Node : n # v /\ n # l => read'[n] = read[n]
      /\ read'[l] = [read[l] EXCEPT !.confirmed = @ \cup {v}]
  BY <1>g, <1>t, <1>v DEF LeaderTypes
<1>x. /\ read'[l].confirmed = read[l].confirmed \cup {v}
      /\ read'[l].index = read[l].index /\ read'[l].floor = read[l].floor
      /\ read'[l] \in [index : Nat, confirmed : SUBSET Node, floor : Nat]
  BY <1>r
<1>u. /\ Rested(v) /\ \A n \in Node : n # v /\ n # l => Untouched(n)
      /\ role'[l] = role[l] /\ match'[l] = match[l] /\ commit_index'[l] = commit_index[l]
  BY <1>g, <1>r, <1>t, <1>v, <1>w DEF Rested, Untouched, Types, LeaderTypes, Follow
<1>2. Onward(ak, vh, ak, vh) /\ Longer(el, hl, el, hl)
  BY <1>g, <1>w, SamePast
<1>3. LeaderTypes'
  <2>1. read' \in [Node -> {None} \cup [index : Nat, confirmed : SUBSET Node, floor : Nat]]
    <3>1. DOMAIN read' = Node /\ read' = [n \in Node |-> read'[n]]
      BY <1>g, <1>t DEF LeaderTypes
    <3>2. \A n \in Node : read'[n] \in {None} \cup [index : Nat, confirmed : SUBSET Node, floor : Nat]
      BY <1>r, <1>t, <1>x DEF LeaderTypes
    <3> QED
      BY <3>1, <3>2
  <2> QED
    BY <1>g, <1>t, <2>1 DEF LeaderTypes, NoMatch
<1>4. CommittedHolds(el, hl, ak, vh)'
  <2>1. \A n \in Node : role'[n] = "leader" =>
          role[n] = "leader" /\ term'[n] = term[n] /\ commit_index'[n] = commit_index[n]
    BY <1>u, <1>v, <1>w DEF Rested, Untouched
  <2> QED
    BY <1>2, <1>g, <1>t, <2>1, CommittedStays DEF Outer, Onward
<1>5. LeaderCounts(ak, v)' /\ ReadHolds(vh, v)'
  BY <1>u, RestedHolds
<1>6. SnapshotsHold(ak, vh, v)' /\ SnapshotsHold(ak, vh, l)'
  <2>1. Retains(ak, vh, v) /\ Retains(ak, vh, l)
    BY <1>g, SameLogRetains
  <2>2. /\ snapshot'[v] = snapshot[v] /\ log_start'[v] = log_start[v] /\ commit_index'[v] = 0
        /\ snapshot'[l] = snapshot[l] /\ log_start'[l] = log_start[l]
        /\ commit_index'[l] = commit_index[l]
    BY <1>g, <1>u DEF Rested
  <2> QED
    BY <1>2, <1>o, <1>t, <2>1, <2>2, SnapshotsStay
<1>7. LeaderCounts(ak, l)'
  <2>1. role[l] = "leader"
    BY <1>g, <1>o DEF LeaderCounts
  <2> QED
    BY <1>g, <1>o, <1>u, <1>v, <1>w, <2>1 DEF LeaderCounts
\* Who confirms is not of the majority that moved on.
<1>8. ReadHolds(vh, l)'
  <2> SUFFICES ASSUME read[l].index # 0, ~ (read[l].index >= read[l].floor)
               PROVE  Overtaken(vh, l)'
    BY <1>o, <1>g, <1>x DEF ReadHolds
  <2>1. PICK V \in vh : \E Q \in SUBSET V :
          /\ Cardinality(Q) >= Majority(V)
          /\ \A w \in Q : term[w] > term[l] /\ w \notin read[l].confirmed
    BY <1>g, <1>o DEF ReadHolds, Overtaken
  <2>2. PICK Q \in SUBSET V :
          /\ Cardinality(Q) >= Majority(V)
          /\ \A w \in Q : term[w] > term[l] /\ w \notin read[l].confirmed
    BY <2>1
  <2>3. \A w \in Q : w \in Node /\ term[w] \in Nat /\ term[l] \in Nat
    BY <1>o, <1>t, Typed DEF Growth
  <2>4. v \notin Q
    BY <1>g, <2>2, <2>3
  <2>5. \A w \in Q : term'[w] > term'[l] /\ w \notin read'[l].confirmed
    BY <1>v, <1>w, <1>x, <2>2, <2>3, <2>4
  <2> QED
    BY <2>2, <2>5 DEF Overtaken
<1> QED
  BY <1>1, <1>2, <1>3, <1>4, <1>5, <1>6, <1>7, <1>8, <1>u, Assembled

\* A restart: the node follows, and falls back to its snapshot on disk.
LEMMA CrashStep ==
  ASSUME NEW el, NEW hl, NEW ak, NEW vh, Core(el, hl, ak, vh), Outer(el, hl, ak, vh),
         NEW v \in Node, Crash(v)
  PROVE  IInv'
<1>t. Types(el, hl) /\ BallotTypes(el) /\ LeaderTypes
  BY DEF Core, Ballot, Outer
<1>g. /\ Follow(v, term[v])
      /\ granted' = [granted EXCEPT ![v] = {}]
      /\ match' = [match EXCEPT ![v] = NoMatch]
      /\ commit_index' = [commit_index EXCEPT ![v] = 0]
      /\ read' = [read EXCEPT ![v] = None]
      /\ snapshot' = [snapshot EXCEPT ![v].offset = snapshot[v].durable]
      /\ voters' = voters /\ log' = log /\ committed' = committed /\ wire' = wire
      /\ log_start' = log_start
  BY DEF Crash, logVars
<1>f. Followed(v, term[v])
  BY <1>g, <1>t, Typed DEF Followed
<1>1. Core(el, hl, ak, vh)'
  BY <1>f, <1>g, FollowedCore
<1>w. /\ \A n \in Node : term'[n] \in Nat /\ term[n] <= term'[n]
      /\ \A n \in Node : n # v => term'[n] = term[n]
  BY <1>f, <1>t, FollowedTerms
<1>r. /\ snapshot[v].offset \in Nat /\ snapshot[v].durable \in Nat
      /\ \A n \in Node : n # v => snapshot'[n] = snapshot[n]
      /\ snapshot'[v] = [snapshot[v] EXCEPT !.offset = snapshot[v].durable]
      /\ snapshot[v] \in [offset : Nat, durable : Nat]
  BY <1>g, <1>t DEF LeaderTypes
<1>x. /\ snapshot'[v].offset = snapshot[v].durable /\ snapshot'[v].durable = snapshot[v].durable
      /\ snapshot'[v] \in [offset : Nat, durable : Nat]
  BY <1>r
<1>u. Rested(v) /\ \A n \in Node : n # v => Untouched(n)
  BY <1>g, <1>r, <1>t, <1>w DEF Rested, Untouched, Types, LeaderTypes, Follow
<1>2. Onward(ak, vh, ak, vh) /\ Longer(el, hl, el, hl)
  BY <1>g, <1>w, SamePast
<1>3. LeaderTypes'
  <2>1. snapshot' \in [Node -> [offset : Nat, durable : Nat]]
    <3>1. snapshot' = [n \in Node |-> snapshot'[n]]
      BY <1>g, <1>t DEF LeaderTypes
    <3>2. \A n \in Node : snapshot'[n] \in [offset : Nat, durable : Nat]
      BY <1>r, <1>t, <1>x DEF LeaderTypes
    <3> QED
      BY <3>1, <3>2
  <2> QED
    BY <1>g, <1>t, <2>1 DEF LeaderTypes, NoMatch
<1>4. CommittedHolds(el, hl, ak, vh)'
  <2>1. \A n \in Node : role'[n] = "leader" =>
          role[n] = "leader" /\ term'[n] = term[n] /\ commit_index'[n] = commit_index[n]
    BY <1>u DEF Rested, Untouched
  <2> QED
    BY <1>2, <1>g, <1>t, <2>1, CommittedStays DEF Outer, Onward
<1>5. LeaderCounts(ak, v)' /\ ReadHolds(vh, v)'
  BY <1>u, RestedHolds
<1>6. SnapshotsHold(ak, vh, v)'
  <2>1. SnapshotsHold(ak, vh, v) /\ log_start[v] - 1 \in Nat
    BY <1>t DEF Outer, LeaderTypes
  <2>2. \A k \in Nat : Fixed(ak, vh, v, k) => Fixed(ak, vh, v, k)'
    <3> SUFFICES ASSUME NEW k \in Nat, Fixed(ak, vh, v, k) PROVE Fixed(ak, vh, v, k)'
      OBVIOUS
    <3>1. k > 0 => Has(log'[v], k, log[v][k])
      BY <1>g, SameLogRetains DEF Retains
    <3> QED
      BY <1>2, <3>1, FixedStays DEF Onward
  <2>3. Fixed(ak, vh, v, 0)' /\ commit_index'[v] = 0 /\ log_start'[v] = log_start[v]
    BY <1>g, <1>u DEF Fixed, Rested
  <2> QED
    BY <1>r, <1>x, <2>1, <2>2, <2>3 DEF SnapshotsHold
<1> QED
  BY <1>1, <1>2, <1>3, <1>4, <1>5, <1>6, <1>u, Assembled

\* A campaign, warranted by a pre-vote: the candidate led nobody.
LEMMA CampaignStep ==
  ASSUME NEW el, NEW hl, NEW ak, NEW vh, Core(el, hl, ak, vh), Outer(el, hl, ak, vh),
         NEW c \in Node, Campaign(c)
  PROVE  IInv'
<1>t. Types(el, hl) /\ LeaderTypes
  BY DEF Core, Ballot, Outer
<1>g. /\ role[c] # "leader"
      /\ term' = [term EXCEPT ![c] = term[c] + 1]
      /\ role' = [role EXCEPT ![c] = "candidate"]
      /\ match' = match /\ commit_index' = commit_index /\ read' = read
      /\ voters' = voters /\ log' = log /\ committed' = committed
      /\ snapshot' = snapshot /\ log_start' = log_start
  BY DEF Campaign, leaderVars, logVars, snapVars
<1>1. Core(el, hl, ak, vh)'
  BY CampaignCore
<1>u. /\ role'[c] = "candidate" /\ term'[c] = term[c] + 1
      /\ \A n \in Node : n # c => Untouched(n)
  BY <1>g, <1>t DEF Untouched, Types
<1>w. \A n \in Node : term'[n] \in Nat /\ term[n] <= term'[n]
  <2>1. \A n \in Node : term[n] \in Nat
    BY <1>t, Typed
  <2> QED
    BY <1>u, <2>1 DEF Untouched
<1>2. Onward(ak, vh, ak, vh) /\ Longer(el, hl, el, hl)
  BY <1>g, <1>w, SamePast
<1>3. LeaderTypes'
  BY <1>g, <1>t DEF LeaderTypes
<1>4. CommittedHolds(el, hl, ak, vh)'
  <2>1. \A n \in Node : role'[n] = "leader" =>
          role[n] = "leader" /\ term'[n] = term[n] /\ commit_index'[n] = commit_index[n]
    BY <1>u DEF Untouched
  <2> QED
    BY <1>2, <1>g, <1>t, <2>1, CommittedStays DEF Outer, Onward
<1>5. LeaderCounts(ak, c) /\ SnapshotsHold(ak, vh, c)
  BY DEF Outer
<1>6. match[c] = NoMatch /\ commit_index[c] = 0 /\ read[c] = None
  BY <1>5, <1>g DEF LeaderCounts
<1>7. LeaderCounts(ak, c)' /\ ReadHolds(vh, c)'
  BY <1>6, <1>g, <1>u DEF LeaderCounts, ReadHolds, NoMatch
<1>8. SnapshotsHold(ak, vh, c)'
  <2>1. Retains(ak, vh, c)
    BY <1>g, SameLogRetains
  <2> QED
    BY <1>2, <1>5, <1>g, <1>t, <2>1, SnapshotsStay
<1> QED
  BY <1>1, <1>2, <1>3, <1>4, <1>7, <1>8, <1>u, Assembled

\* A request is sent or lost: nothing else happens.
LEMMA IdleStep ==
  ASSUME NEW el, NEW hl, NEW ak, NEW vh, Core(el, hl, ak, vh), Outer(el, hl, ak, vh),
         Core(el, hl, ak, vh)', UNCHANGED <<electionVars, leaderVars, log, committed, snapVars>>
  PROVE  IInv'
<1>t. Types(el, hl) /\ LeaderTypes
  BY DEF Core, Ballot, Outer
<1>g. /\ term' = term /\ role' = role /\ voters' = voters /\ log' = log /\ committed' = committed
      /\ match' = match /\ commit_index' = commit_index /\ read' = read
      /\ snapshot' = snapshot /\ log_start' = log_start
  BY DEF electionVars, leaderVars, snapVars
<1>u. \A n \in Node : Untouched(n)
  BY <1>g DEF Untouched
<1>2. Onward(ak, vh, ak, vh) /\ Longer(el, hl, el, hl)
  BY <1>g, <1>t, Typed, SamePast
<1>3. LeaderTypes'
  BY <1>g, <1>t DEF LeaderTypes
<1>4. CommittedHolds(el, hl, ak, vh)'
  BY <1>2, <1>g, <1>t, CommittedStays DEF Outer, Onward
<1> QED
  BY <1>2, <1>3, <1>4, <1>u, Assembled

\* ReadIndex.serve: the read is over.
LEMMA ServeStep ==
  ASSUME NEW el, NEW hl, NEW ak, NEW vh, Core(el, hl, ak, vh), Outer(el, hl, ak, vh),
         NEW l \in Node, ServeRead(l)
  PROVE  IInv'
<1>t. Types(el, hl) /\ LeaderTypes
  BY DEF Core, Ballot, Outer
<1>g. /\ term' = term /\ role' = role /\ voters' = voters /\ log' = log /\ committed' = committed
      /\ match' = match /\ commit_index' = commit_index /\ read' = [read EXCEPT ![l] = None]
      /\ snapshot' = snapshot /\ log_start' = log_start /\ wire' = wire /\ granted' = granted
  BY DEF ServeRead, electionVars, logVars, snapVars
<1>1. Core(el, hl, ak, vh)'
  BY <1>g, SameCore DEF electionVars, ServeRead
<1>u. read'[l] = None /\ \A n \in Node : n # l => Untouched(n)
  BY <1>g, <1>t DEF Untouched, LeaderTypes
<1>2. Onward(ak, vh, ak, vh) /\ Longer(el, hl, el, hl)
  BY <1>g, <1>t, Typed, SamePast
<1>3. LeaderTypes'
  BY <1>g, <1>t DEF LeaderTypes
<1>4. CommittedHolds(el, hl, ak, vh)'
  BY <1>2, <1>g, <1>t, CommittedStays DEF Outer, Onward
<1>5. LeaderCounts(ak, l) /\ SnapshotsHold(ak, vh, l)
  BY DEF Outer
<1>6. LeaderCounts(ak, l)' /\ ReadHolds(vh, l)'
  BY <1>5, <1>g, <1>u DEF LeaderCounts, ReadHolds, NoMatch
<1>7. SnapshotsHold(ak, vh, l)'
  <2>1. Retains(ak, vh, l)
    BY <1>g, SameLogRetains
  <2> QED
    BY <1>2, <1>5, <1>g, <1>t, <2>1, SnapshotsStay
<1> QED
  BY <1>1, <1>2, <1>3, <1>4, <1>6, <1>7, <1>u, Assembled

(***************************************************************************)
(* A read begins: whatever was committed by then was committed by this     *)
(* leader or before its term, or a majority has moved on already.          *)
(***************************************************************************)
LEMMA BeginStep ==
  ASSUME NEW el, NEW hl, NEW ak, NEW vh, Core(el, hl, ak, vh), Outer(el, hl, ak, vh),
         NEW l \in Node, BeginRead(l)
  PROVE  IInv'
<1>t. Types(el, hl) /\ LeaderTypes
  BY DEF Core, Ballot, Outer
<1>z. PICK r : r = [index |-> commit_index[l], confirmed |-> {l}, floor |-> Len(committed)]
  OBVIOUS
<1>g. /\ role[l] = "leader"
      /\ term' = term /\ role' = role /\ voters' = voters /\ log' = log /\ committed' = committed
      /\ match' = match /\ commit_index' = commit_index /\ read' = [read EXCEPT ![l] = r]
      /\ snapshot' = snapshot /\ log_start' = log_start /\ wire' = wire /\ granted' = granted
  BY <1>z DEF BeginRead, electionVars, logVars, snapVars
<1>c. /\ Growth(vh) /\ Elections(el, vh) /\ Chronicle(el, hl) /\ Logs(el, hl)
      /\ Acks(el, hl, ak) /\ Complete(el, hl, ak, vh)
      /\ CommittedHolds(el, hl, ak, vh)
      /\ LeaderCounts(ak, l) /\ SnapshotsHold(ak, vh, l)
  BY DEF Core, Ballot, Outer
<1>n. Len(committed) \in Nat /\ commit_index[l] \in Nat /\ term[l] \in Nat
  BY <1>c, <1>t, Typed DEF CommittedHolds, LeaderTypes
<1>x. /\ r.index = commit_index[l] /\ r.confirmed = {l} /\ r.floor = Len(committed)
      /\ r \in [index : Nat, confirmed : SUBSET Node, floor : Nat]
  BY <1>n, <1>z
<1>1. Core(el, hl, ak, vh)'
  BY <1>g, SameCore DEF electionVars, BeginRead
<1>u. read'[l] = r /\ \A n \in Node : n # l => Untouched(n)
  BY <1>g, <1>t DEF Untouched, LeaderTypes
<1>2. Onward(ak, vh, ak, vh) /\ Longer(el, hl, el, hl)
  BY <1>g, <1>t, Typed, SamePast
<1>3. LeaderTypes'
  BY <1>g, <1>t, <1>x DEF LeaderTypes
<1>4. CommittedHolds(el, hl, ak, vh)'
  BY <1>2, <1>g, <1>t, CommittedStays DEF Outer, Onward
<1>5. LeaderCounts(ak, l)'
  BY <1>c, <1>g DEF LeaderCounts
<1>6. SnapshotsHold(ak, vh, l)'
  <2>1. Retains(ak, vh, l)
    BY <1>g, SameLogRetains
  <2> QED
    BY <1>2, <1>c, <1>g, <1>t, <2>1, SnapshotsStay
<1>7. commit_index[l] = 0 \/ commit_index[l] >= Len(committed) \/ Overtaken(vh, l)'
  <2> SUFFICES ASSUME Len(committed) > 0, commit_index[l] > 0
               PROVE  commit_index[l] >= Len(committed) \/ Overtaken(vh, l)'
    BY <1>n
  <2>1. PICK k, t, u, i : /\ k = Len(committed) /\ t = committed[k] /\ u = term[l]
                          /\ i = commit_index[l]
    OBVIOUS
  <2>2. /\ t \in DOMAIN el /\ Own(hl, t, k) /\ Chosen(vh, ak, t, k)
        /\ (u = t => i >= k)
    BY <1>c, <1>g, <1>n, <2>1 DEF CommittedHolds
  <2>3. u \in DOMAIN el /\ log[l] = hl[u] /\ Has(hl[u], i, u) /\ t \in Nat /\ u \in Nat
    BY <1>c, <1>g, <1>n, <1>t, <2>1, <2>2, Typed DEF Elections, Logs, LeaderCounts
  <2>4. CASE t < u
    <3>1. Choosable(vh, ak, voters, term, t, k)
      BY <1>c, <2>2, ChosenIsChoosable
    <3>2. k <= el[u].base
      BY <1>c, <1>n, <2>1, <2>2, <2>3, <2>4, <3>1 DEF Complete
    <3>3. i > el[u].base /\ el[u].base \in Int
      BY <1>c, <2>3 DEF Chronicle, Has
    <3> QED
      BY <1>n, <2>1, <3>2, <3>3
  <2>5. CASE t > u
    <3>1. PICK V \in vh : \E Q \in SUBSET V :
            Cardinality(Q) >= Majority(V) /\ \A v \in Q : <<t, v, k>> \in ak
      BY <2>2 DEF Chosen
    <3>2. PICK Q \in SUBSET V :
            Cardinality(Q) >= Majority(V) /\ \A v \in Q : <<t, v, k>> \in ak
      BY <3>1
    <3>3. \A v \in Q : v \in Node
      BY <1>c DEF Growth
    <3>4. ASSUME NEW v \in Q PROVE term[v] > u
      <4>1. term[v] \in Nat /\ term[v] >= t
        BY <1>c, <1>n, <1>t, <2>1, <2>3, <3>2, <3>3, Typed DEF Acks
      <4> QED
        BY <2>3, <2>5, <4>1
    <3>5. \A v \in Q : term'[v] > term'[l] /\ v \notin read'[l].confirmed
      BY <1>g, <1>u, <1>x, <2>1, <2>3, <3>4
    <3> QED
      BY <3>2, <3>5 DEF Overtaken
  <2>6. CASE t = u
    BY <2>1, <2>2, <2>6
  <2> QED
    BY <2>3, <2>4, <2>5, <2>6
<1>8. ReadHolds(vh, l)'
  BY <1>7, <1>u, <1>x DEF ReadHolds
<1> QED
  BY <1>1, <1>2, <1>3, <1>4, <1>5, <1>6, <1>8, <1>u, Assembled

\* QuorumMembership.promote: only the voters change.
LEMMA PromoteStep ==
  ASSUME NEW el, NEW hl, NEW ak, NEW vh, Core(el, hl, ak, vh), Outer(el, hl, ak, vh),
         NEW l \in Node, NEW b \in Node, Promote(l, b)
  PROVE  IInv'
<1>t. Types(el, hl) /\ LeaderTypes
  BY DEF Core, Ballot, Outer
<1>g. /\ term' = term /\ role' = role /\ log' = log /\ committed' = committed
      /\ match' = match /\ commit_index' = commit_index /\ read' = read
      /\ snapshot' = snapshot /\ log_start' = log_start
  BY DEF Promote, leaderVars, logVars, snapVars
<1>1. PICK vh2 : /\ Core(el, hl, ak, vh2)'
                 /\ Later(vh, ak, voters, term, vh2, ak, voters', term')
  BY PromoteCore
<1>u. \A n \in Node : Untouched(n)
  BY <1>g DEF Untouched
<1>2. Onward(ak, vh, ak, vh2)
  BY <1>1, <1>g, <1>t, Typed DEF Onward, Outer, CommittedHolds
<1>3. LeaderTypes'
  BY <1>g, <1>t DEF LeaderTypes
<1>4. Longer(el, hl, el, hl)
  <2>1. \A x \in DOMAIN el : Len(hl[x]) \in Nat
    BY <1>t, Typed
  <2> QED
    BY <2>1 DEF Longer
<1>5. CommittedHolds(el, hl, ak, vh2)'
  BY <1>1, <1>4, <1>g, <1>t, CommittedStays DEF Outer
<1> QED
  BY <1>1, <1>2, <1>3, <1>5, <1>u, Assembled

\* The leader of a new term counts what it holds itself.
LEMMA LeadStep ==
  ASSUME MajoritiesMeet,
         NEW el, NEW hl, NEW ak, NEW vh, Core(el, hl, ak, vh), Outer(el, hl, ak, vh),
         NEW c \in Node, BecomeLeader(c)
  PROVE  IInv'
<1>t. Types(el, hl) /\ LeaderTypes
  BY DEF Core, Ballot, Outer
<1>g. /\ role[c] = "candidate"
      /\ role' = [role EXCEPT ![c] = "leader"]
      /\ match' = [match EXCEPT ![c] = [match[c] EXCEPT ![c] = Len(log[c])]]
      /\ term' = term /\ voters' = voters /\ log' = log /\ committed' = committed
      /\ commit_index' = commit_index /\ read' = read
      /\ snapshot' = snapshot /\ log_start' = log_start
  BY DEF BecomeLeader, logVars, snapVars
<1>1. PICK el2, hl2, ak2 :
        /\ Core(el2, hl2, ak2, vh)'
        /\ Later(vh, ak, voters, term, vh, ak2, voters', term')
        /\ Longer(el, hl, el2, hl2)
        /\ term[c] \notin DOMAIN el
        /\ \A x \in Nat, v \in Node, i \in Nat :
             <<x, v, i>> \in ak2 <=>
               <<x, v, i>> \in ak \/ (x = term[c] /\ v = c /\ i \in 1 .. Len(log[c]))
  BY LeadCore
<1>o. /\ LeaderCounts(ak, c) /\ SnapshotsHold(ak, vh, c) /\ ReadHolds(vh, c)
      /\ CommittedHolds(el, hl, ak, vh)
  BY DEF Outer
<1>n. term[c] \in Nat /\ log[c] \in Seq(Nat) /\ Len(log[c]) \in Nat
  BY <1>t, Typed
<1>c. match[c] = NoMatch /\ commit_index[c] = 0 /\ read[c] = None
  BY <1>g, <1>o DEF LeaderCounts
<1>u. /\ role'[c] = "leader" /\ \A n \in Node : n # c => Untouched(n)
      /\ match'[c][c] = Len(log[c]) /\ \A v \in Node : v # c => match'[c][v] = 0
      /\ match'[c] \in [Node -> Nat]
  <2>1. role'[c] = "leader" /\ \A n \in Node : n # c => Untouched(n)
    BY <1>g, <1>t DEF Untouched, Types, LeaderTypes
  <2>2. match'[c] = [match[c] EXCEPT ![c] = Len(log[c])]
    BY <1>g, <1>t DEF LeaderTypes
  <2> QED
    BY <1>c, <1>n, <2>1, <2>2 DEF NoMatch
<1>2. Onward(ak, vh, ak2, vh)
  BY <1>1, <1>g, <1>o, <1>t, Typed DEF Onward, CommittedHolds
<1>3. LeaderTypes'
  <2>1. match' \in [Node -> [Node -> Nat]]
    BY <1>g, <1>n, <1>t DEF LeaderTypes
  <2> QED
    BY <1>g, <1>t, <2>1 DEF LeaderTypes
<1>4. CommittedHolds(el2, hl2, ak2, vh)'
  <2>1. \A l \in Node : role'[l] = "leader" =>
          \/ role[l] = "leader" /\ term'[l] = term[l] /\ commit_index'[l] = commit_index[l]
          \/ term'[l] \notin DOMAIN el
    BY <1>1, <1>g, <1>u DEF Untouched
  <2> QED
    BY <1>1, <1>g, <1>o, <1>t, <2>1, CommittedStays
<1>5. LeaderCounts(ak2, c)'
  <2>1. \A i \in 1 .. Len(log[c]) : <<term[c], c, i>> \in ak2
    BY <1>1, <1>n
  <2>2. \A v \in Node : \A i \in 1 .. match'[c][v] : <<term'[c], v, i>> \in ak2
    BY <1>g, <1>u, <2>1
  <2> QED
    BY <1>c, <1>g, <1>u, <2>1, <2>2 DEF LeaderCounts
<1>6. SnapshotsHold(ak2, vh, c)'
  <2>1. Retains(ak, vh, c)
    BY <1>g, SameLogRetains
  <2> QED
    BY <1>2, <1>g, <1>o, <1>t, <2>1, SnapshotsStay
<1>7. ReadHolds(vh, c)'
  BY <1>c, <1>g DEF ReadHolds
<1> QED
  BY <1>1, <1>2, <1>3, <1>4, <1>5, <1>6, <1>7, <1>u, Assembled

\* A leader's new entry is one it holds itself; what it held before stays.
LEMMA ProposeStep ==
  ASSUME MajoritiesMeet,
         NEW el, NEW hl, NEW ak, NEW vh, Core(el, hl, ak, vh), Outer(el, hl, ak, vh),
         NEW l \in Node, Propose(l)
  PROVE  IInv'
<1>t. Types(el, hl) /\ LeaderTypes
  BY DEF Core, Ballot, Outer
<1>g. /\ role[l] = "leader"
      /\ log' = [log EXCEPT ![l] = Append(log[l], term[l])]
      /\ match' = [match EXCEPT ![l] = [match[l] EXCEPT ![l] = Len(log[l]) + 1]]
      /\ term' = term /\ role' = role /\ voters' = voters /\ committed' = committed
      /\ commit_index' = commit_index /\ read' = read
      /\ snapshot' = snapshot /\ log_start' = log_start
  BY DEF Propose, electionVars, snapVars
<1>1. PICK hl2, ak2 :
        /\ Core(el, hl2, ak2, vh)'
        /\ Later(vh, ak, voters, term, vh, ak2, voters', term')
        /\ Longer(el, hl, el, hl2)
        /\ \A x \in Nat, v \in Node, i \in Nat :
             <<x, v, i>> \in ak2 <=>
               <<x, v, i>> \in ak \/ (x = term[l] /\ v = l /\ i \in 1 .. Len(log[l]) + 1)
  BY ProposeCore
<1>o. /\ LeaderCounts(ak, l) /\ SnapshotsHold(ak, vh, l) /\ ReadHolds(vh, l) /\ Growth(vh)
      /\ CommittedHolds(el, hl, ak, vh)
  BY DEF Core, Ballot, Outer
<1>n. term[l] \in Nat /\ log[l] \in Seq(Nat) /\ Len(log[l]) \in Nat
  BY <1>t, Typed
<1>u. /\ \A n \in Node : n # l => Untouched(n)
      /\ match'[l][l] = Len(log[l]) + 1 /\ \A v \in Node : v # l => match'[l][v] = match[l][v]
  <2>1. \A n \in Node : n # l => Untouched(n)
    BY <1>g, <1>t DEF Untouched, Types, LeaderTypes
  <2>2. match'[l] = [match[l] EXCEPT ![l] = Len(log[l]) + 1] /\ match[l] \in [Node -> Nat]
    BY <1>g, <1>t DEF LeaderTypes
  <2> QED
    BY <2>1, <2>2
<1>h. /\ Len(log'[l]) = Len(log[l]) + 1
      /\ \A k \in 1 .. Len(log[l]) : k \in 1 .. Len(log'[l]) /\ log'[l][k] = log[l][k]
  <2>1. log'[l] = Append(log[l], term[l])
    BY <1>g, <1>t DEF Types
  <2> QED
    BY <1>n, <2>1, AppendProperties
<1>2. Onward(ak, vh, ak2, vh)
  BY <1>1, <1>g, <1>o, <1>t, Typed DEF Onward, CommittedHolds
<1>3. LeaderTypes'
  <2>1. match' \in [Node -> [Node -> Nat]]
    BY <1>g, <1>n, <1>t DEF LeaderTypes
  <2> QED
    BY <1>g, <1>t, <2>1 DEF LeaderTypes
<1>4. CommittedHolds(el, hl2, ak2, vh)'
  BY <1>1, <1>g, <1>o, <1>t, CommittedStays
<1>5. LeaderCounts(ak2, l)'
  <2>1. \A i \in 1 .. Len(log[l]) + 1 : <<term[l], l, i>> \in ak2
    BY <1>1, <1>n
  <2>2. ak \subseteq ak2
    BY <1>1 DEF Later
  <2>3. \A v \in Node : \A i \in 1 .. match'[l][v] : <<term'[l], v, i>> \in ak2
    BY <1>g, <1>o, <1>u, <2>1, <2>2 DEF LeaderCounts
  <2>4. commit_index[l] > 0 => Has(log'[l], commit_index[l], term[l])
    BY <1>h, <1>o DEF LeaderCounts, Has
  <2> QED
    BY <1>g, <1>h, <2>1, <2>3, <2>4 DEF LeaderCounts
<1>6. SnapshotsHold(ak2, vh, l)'
  <2>1. Retains(ak, vh, l)
    BY <1>h DEF Retains, Fixed, Has
  <2> QED
    BY <1>2, <1>g, <1>o, <1>t, <2>1, SnapshotsStay
<1>7. ReadHolds(vh, l)'
  BY <1>1, <1>g, <1>o, ReadStays
<1> QED
  BY <1>1, <1>2, <1>3, <1>4, <1>5, <1>6, <1>7, <1>u, Assembled

\* CommitIndex.try_advance, and commit_prior_via_current if it commits no more: a majority
\* of the voters holds an entry of the leader's own term.
Commits(l, i) ==
  /\ role[l] = "leader"
  /\ i \in commit_index[l] + 1 .. Len(log[l])
  /\ Replicated(l, i)
  /\ log[l][i] = term[l]
  /\ CommitTo(l, i)

(***************************************************************************)
(* What a leader commits was acknowledged by a majority in its term, and   *)
(* the committed prefix becomes its log's, or is longer already.           *)
(***************************************************************************)
LEMMA CommitStep ==
  ASSUME NEW el, NEW hl, NEW ak, NEW vh, Core(el, hl, ak, vh), Outer(el, hl, ak, vh),
         NEW l \in Node, NEW i \in Nat, Commits(l, i)
  PROVE  IInv'
<1>t. Types(el, hl) /\ LeaderTypes
  BY DEF Core, Ballot, Outer
<1>c. /\ Growth(vh) /\ Elections(el, vh) /\ Logs(el, hl) /\ CommittedHolds(el, hl, ak, vh)
      /\ LeaderCounts(ak, l) /\ SnapshotsHold(ak, vh, l) /\ ReadHolds(vh, l)
  BY DEF Core, Ballot, Outer
<1>n. /\ term[l] \in Nat /\ log[l] \in Seq(Nat) /\ Len(log[l]) \in Nat /\ commit_index[l] \in Nat
      /\ Len(committed) \in Nat /\ match[l] \in [Node -> Nat]
  BY <1>c, <1>t, Typed DEF LeaderTypes, CommittedHolds
<1>z. PICK t, s : t = term[l] /\ s = SubSeq(log[l], 1, i)
  OBVIOUS
<1>g. /\ role[l] = "leader" /\ log[l][i] = t
      /\ i \in commit_index[l] + 1 .. Len(log[l])
      /\ IsMajority({n \in Node : match[l][n] >= i})
      /\ term' = term /\ role' = role /\ voters' = voters /\ log' = log /\ wire' = wire
      /\ granted' = granted /\ match' = match /\ read' = read
      /\ snapshot' = snapshot /\ log_start' = log_start
      /\ commit_index' = [commit_index EXCEPT ![l] = Max({commit_index[l], i})]
      /\ committed' = IF i > Len(committed) THEN s ELSE committed
  BY <1>z DEF Commits, CommitTo, Replicated, electionVars, snapVars
<1>i. i \in 1 .. Len(log[l]) /\ i > commit_index[l] /\ i > 0
  BY <1>g, <1>n
<1>m. Max({commit_index[l], i}) = i
  <2>1. /\ {commit_index[l], i} \in SUBSET Nat /\ {commit_index[l], i} # {}
        /\ \A y \in {commit_index[l], i} : y <= i
    BY <1>i, <1>n
  <2>2. /\ Max({commit_index[l], i}) \in {commit_index[l], i}
        /\ i <= Max({commit_index[l], i})
    BY <2>1, MaxOfNaturals
  <2> QED
    BY <1>i, <1>n, <2>2
<1>s. s \in Seq(Nat) /\ Len(s) = i /\ \A j \in 1 .. i : s[j] = log[l][j]
  BY <1>i, <1>n, <1>z, SubSeqProperties
<1>1. Core(el, hl, ak, vh)'
  BY <1>g, SameCore DEF electionVars, Commits, CommitTo
<1>u. commit_index'[l] = i /\ \A n \in Node : n # l => Untouched(n)
  BY <1>g, <1>m, <1>t DEF Untouched, LeaderTypes
<1>q. Chosen(vh, ak, t, i)
  <2> DEFINE Q == {n \in Node : match[l][n] >= i} \cap voters
  <2>1. voters \in vh /\ Q \in SUBSET voters /\ Cardinality(Q) >= Majority(voters)
    BY <1>c, <1>g DEF Growth, IsMajority
  <2>2. \A v \in Q : <<t, v, i>> \in ak
    BY <1>c, <1>g, <1>i, <1>n, <1>z DEF LeaderCounts
  <2> QED
    BY <2>1, <2>2 DEF Chosen
<1>k. committed' \in Seq(Nat) /\ Len(committed') \in Nat /\ Len(committed) <= Len(committed')
      /\ i <= Len(committed')
  <2>1. CASE i > Len(committed)
    <3>1. committed' = s
      BY <1>g, <2>1
    <3> QED
      BY <1>n, <1>s, <2>1, <3>1
  <2>2. CASE ~ (i > Len(committed))
    <3>1. committed' = committed
      BY <1>g, <2>2
    <3> QED
      BY <1>c, <1>n, <2>2, <3>1 DEF CommittedHolds
  <2> QED
    BY <2>1, <2>2
<1>2. Onward(ak, vh, ak, vh)
  <2>1. Later(vh, ak, voters, term, vh, ak, voters', term')
    BY <1>g, <1>t, Typed DEF Later
  <2> QED
    BY <1>k, <1>n, <1>t, <2>1, Typed DEF Onward
<1>3. LeaderTypes'
  BY <1>g, <1>m, <1>t DEF LeaderTypes
<1>e. /\ t \in DOMAIN el /\ el[t].leader = l /\ log[l] = hl[t]
      /\ \A n \in Node : role[n] = "leader" /\ term[n] = t => n = l
  BY <1>c, <1>g, <1>z DEF Elections, Logs
<1>4. CommittedHolds(el, hl, ak, vh)'
  <2>1. CASE i > Len(committed)
    <3>1. committed' = s /\ s[i] = t
      BY <1>g, <1>i, <1>s, <2>1
    <3>2. Own(hl, t, i)
      BY <1>e, <1>g, <1>i DEF Own
    <3>3. \A j \in 1 .. i : s[j] = hl[t][j]
      BY <1>e, <1>s
    <3>4. \A n \in Node : role'[n] = "leader" /\ term'[n] = t => commit_index'[n] >= i
      <4>1. \A n \in Node : role'[n] = "leader" /\ term'[n] = t => n = l
        BY <1>e, <1>g
      <4> QED
        BY <1>u, <4>1
    <3> QED
      BY <1>e, <1>k, <1>q, <1>s, <3>1, <3>2, <3>3, <3>4 DEF CommittedHolds
  <2>2. CASE ~ (i > Len(committed))
    <3>1. committed' = committed
      BY <1>g, <2>2
    <3>2. \A n \in Node : commit_index'[n] >= commit_index[n] /\ commit_index'[n] \in Nat
                          /\ commit_index[n] \in Nat
      <4>1. \A n \in Node : commit_index[n] \in Nat
        BY <1>t DEF LeaderTypes
      <4>2. \A n \in Node : n # l => commit_index'[n] = commit_index[n]
        BY <1>u DEF Untouched
      <4>3. commit_index'[l] >= commit_index[l] /\ commit_index'[l] \in Nat
        BY <1>i, <1>n, <1>u
      <4>4. \A n \in Node : n # l =>
              commit_index'[n] >= commit_index[n] /\ commit_index'[n] \in Nat
        BY <4>1, <4>2
      <4> QED
        BY <4>1, <4>3, <4>4
    <3>3. \A k \in 1 .. Len(committed) : \A n \in Node :
             commit_index[n] >= k => commit_index'[n] >= k
      BY <1>n, <3>2
    <3> QED
      BY <1>c, <1>g, <3>1, <3>3, ZenonT(30) DEF CommittedHolds
  <2> QED
    BY <2>1, <2>2
<1>5. LeaderCounts(ak, l)'
  BY <1>c, <1>g, <1>i, <1>u, <1>z DEF LeaderCounts, Has
<1>6. SnapshotsHold(ak, vh, l)'
  <2>1. /\ snapshot[l].offset \in Nat /\ snapshot[l].durable \in Nat /\ log_start[l] - 1 \in Nat
    BY <1>t DEF LeaderTypes
  <2>2. \A k \in Nat : Fixed(ak, vh, l, k) => Fixed(ak, vh, l, k)'
    <3> SUFFICES ASSUME NEW k \in Nat, Fixed(ak, vh, l, k) PROVE Fixed(ak, vh, l, k)'
      OBVIOUS
    <3>1. k > 0 => Has(log'[l], k, log[l][k])
      BY <1>g, SameLogRetains DEF Retains
    <3> QED
      BY <1>2, <3>1, FixedStays DEF Onward
  <2>3. Fixed(ak, vh, l, i)'
    <3>1. <<t, l, i>> \in ak
      BY <1>c, <1>g, <1>i, <1>z DEF LeaderCounts
    <3> QED
      BY <1>g, <1>i, <1>k, <1>q, <3>1 DEF Fixed
  <2> QED
    BY <1>c, <1>g, <1>u, <2>1, <2>2, <2>3 DEF SnapshotsHold
<1>7. ReadHolds(vh, l)'
  BY <1>2, <1>c, <1>g, ReadStays DEF Onward
<1> QED
  BY <1>1, <1>2, <1>3, <1>4, <1>5, <1>6, <1>7, <1>u, Assembled

\* What Fixed says stays when logs, terms and the committed prefix do.
LEMMA FixedSame ==
  ASSUME NEW ak, NEW vh, NEW n, NEW k, Fixed(ak, vh, n, k),
         log'[n] = log[n], term'[n] = term[n], committed' = committed
  PROVE  Fixed(ak, vh, n, k)'
  BY DEF Fixed

\* SnapshotManager: a snapshot is taken of what is committed, reaches the disk, or lets
\* the log be cut; the rest stays.
LEMMA SnapshotStep ==
  ASSUME NEW el, NEW hl, NEW ak, NEW vh, Core(el, hl, ak, vh), Outer(el, hl, ak, vh),
         UNCHANGED <<electionVars, leaderVars, logVars>>, NEW n \in Node,
         LeaderTypes', SnapshotsHold(ak, vh, n)',
         \A v \in Node : v # n => snapshot'[v] = snapshot[v] /\ log_start'[v] = log_start[v]
  PROVE  IInv'
<1>t. Types(el, hl) /\ LeaderTypes /\ Growth(vh)
  BY DEF Core, Ballot, Outer
<1>g. /\ term' = term /\ role' = role /\ voters' = voters /\ log' = log /\ committed' = committed
      /\ match' = match /\ commit_index' = commit_index /\ read' = read /\ wire' = wire
      /\ granted' = granted
  BY DEF electionVars, leaderVars, logVars
<1>1. Core(el, hl, ak, vh)'
  BY <1>g, SameCore DEF electionVars
<1>u. \A v \in Node : v # n => Untouched(v)
  BY <1>g DEF Untouched
<1>2. Onward(ak, vh, ak, vh) /\ Longer(el, hl, el, hl)
  BY <1>g, <1>t, Typed, SamePast
<1>3. CommittedHolds(el, hl, ak, vh)'
  BY <1>2, <1>g, <1>t, CommittedStays DEF Outer, Onward
<1>4. LeaderCounts(ak, n) /\ ReadHolds(vh, n)
  BY DEF Outer
<1>5. LeaderCounts(ak, n)'
  BY <1>4, <1>g DEF LeaderCounts, NoMatch
<1>6. ReadHolds(vh, n)'
  BY <1>2, <1>4, <1>g, <1>t, ReadStays DEF Onward
<1> QED
  BY <1>1, <1>2, <1>3, <1>5, <1>6, <1>u, Assembled

\* SnapshotManager.take, of what the leader committed.
LEMMA TakeStep ==
  ASSUME NEW el, NEW hl, NEW ak, NEW vh, Core(el, hl, ak, vh), Outer(el, hl, ak, vh),
         NEW n \in Node, TakeSnapshot(n)
  PROVE  IInv'
<1>t. LeaderTypes /\ SnapshotsHold(ak, vh, n)
  BY DEF Outer
<1>g. /\ commit_index[n] > snapshot[n].offset
      /\ snapshot' = [snapshot EXCEPT ![n].offset = commit_index[n]]
      /\ UNCHANGED <<electionVars, leaderVars, logVars>>
      /\ log_start' = log_start
      /\ log' = log /\ term' = term /\ committed' = committed /\ commit_index' = commit_index
      /\ match' = match /\ read' = read
  BY DEF TakeSnapshot, electionVars, leaderVars, logVars
<1>n. /\ commit_index[n] \in Nat /\ snapshot[n].offset \in Nat /\ snapshot[n].durable \in Nat
      /\ log_start[n] - 1 \in Nat
      /\ snapshot'[n] = [snapshot[n] EXCEPT !.offset = commit_index[n]]
      /\ snapshot[n] \in [offset : Nat, durable : Nat]
      /\ \A v \in Node : v # n => snapshot'[v] = snapshot[v]
  BY <1>g, <1>t DEF LeaderTypes
<1>x. /\ snapshot'[n].offset = commit_index[n] /\ snapshot'[n].durable = snapshot[n].durable
      /\ snapshot'[n] \in [offset : Nat, durable : Nat]
  BY <1>n
<1>1. LeaderTypes'
  <2>1. snapshot' \in [Node -> [offset : Nat, durable : Nat]]
    <3>1. snapshot' = [v \in Node |-> snapshot'[v]]
      BY <1>g, <1>t DEF LeaderTypes
    <3>2. \A v \in Node : snapshot'[v] \in [offset : Nat, durable : Nat]
      BY <1>n, <1>t, <1>x DEF LeaderTypes
    <3> QED
      BY <3>1, <3>2
  <2> QED
    BY <1>g, <1>t, <2>1 DEF LeaderTypes
<1>2. SnapshotsHold(ak, vh, n)'
  <2>1. \A k \in Nat : Fixed(ak, vh, n, k) => Fixed(ak, vh, n, k)'
    BY <1>g, FixedSame
  <2>2. snapshot[n].durable <= commit_index[n]
    BY <1>g, <1>n, <1>t DEF SnapshotsHold
  <2> QED
    BY <1>g, <1>n, <1>t, <1>x, <2>1, <2>2 DEF SnapshotsHold
<1> QED
  BY <1>1, <1>2, <1>g, <1>n, SnapshotStep

\* SnapshotManager.mark_durable.
LEMMA DurableStep ==
  ASSUME NEW el, NEW hl, NEW ak, NEW vh, Core(el, hl, ak, vh), Outer(el, hl, ak, vh),
         NEW n \in Node, MarkDurable(n)
  PROVE  IInv'
<1>t. LeaderTypes /\ SnapshotsHold(ak, vh, n)
  BY DEF Outer
<1>g. /\ snapshot' = [snapshot EXCEPT ![n].durable = snapshot[n].offset]
      /\ UNCHANGED <<electionVars, leaderVars, logVars>>
      /\ log_start' = log_start
      /\ log' = log /\ term' = term /\ committed' = committed /\ commit_index' = commit_index
      /\ match' = match /\ read' = read
  BY DEF MarkDurable, electionVars, leaderVars, logVars
<1>n. /\ commit_index[n] \in Nat /\ snapshot[n].offset \in Nat /\ snapshot[n].durable \in Nat
      /\ log_start[n] - 1 \in Nat
      /\ snapshot'[n] = [snapshot[n] EXCEPT !.durable = snapshot[n].offset]
      /\ snapshot[n] \in [offset : Nat, durable : Nat]
      /\ \A v \in Node : v # n => snapshot'[v] = snapshot[v]
  BY <1>g, <1>t DEF LeaderTypes
<1>x. /\ snapshot'[n].offset = snapshot[n].offset /\ snapshot'[n].durable = snapshot[n].offset
      /\ snapshot'[n] \in [offset : Nat, durable : Nat]
  BY <1>n
<1>1. LeaderTypes'
  <2>1. snapshot' \in [Node -> [offset : Nat, durable : Nat]]
    <3>1. snapshot' = [v \in Node |-> snapshot'[v]]
      BY <1>g, <1>t DEF LeaderTypes
    <3>2. \A v \in Node : snapshot'[v] \in [offset : Nat, durable : Nat]
      BY <1>n, <1>t, <1>x DEF LeaderTypes
    <3> QED
      BY <3>1, <3>2
  <2> QED
    BY <1>g, <1>t, <2>1 DEF LeaderTypes
<1>2. SnapshotsHold(ak, vh, n)'
  <2>1. \A k \in Nat : Fixed(ak, vh, n, k) => Fixed(ak, vh, n, k)'
    BY <1>g, FixedSame
  <2>2. log_start[n] - 1 <= snapshot[n].offset
    BY <1>n, <1>t DEF SnapshotsHold
  <2> QED
    BY <1>g, <1>n, <1>t, <1>x, <2>1, <2>2 DEF SnapshotsHold
<1> QED
  BY <1>1, <1>2, <1>g, <1>n, SnapshotStep

\* SnapshotManager.discard_below: only what a snapshot on disk covers.
LEMMA DiscardStep ==
  ASSUME NEW el, NEW hl, NEW ak, NEW vh, Core(el, hl, ak, vh), Outer(el, hl, ak, vh),
         NEW n \in Node, DiscardBelow(n)
  PROVE  IInv'
<1>t. LeaderTypes /\ SnapshotsHold(ak, vh, n)
  BY DEF Outer
<1>g. /\ snapshot[n].durable = snapshot[n].offset
      /\ log_start' = [log_start EXCEPT ![n] = snapshot[n].offset + 1]
      /\ UNCHANGED <<electionVars, leaderVars, logVars>>
      /\ snapshot' = snapshot
      /\ log' = log /\ term' = term /\ committed' = committed /\ commit_index' = commit_index
      /\ match' = match /\ read' = read
  BY DEF DiscardBelow, MayDiscard, electionVars, leaderVars, logVars
<1>n. /\ commit_index[n] \in Nat /\ snapshot[n].offset \in Nat
      /\ log_start'[n] = snapshot[n].offset + 1
      /\ \A v \in Node : v # n => log_start'[v] = log_start[v]
  BY <1>g, <1>t DEF LeaderTypes
<1>x. log_start'[n] - 1 = snapshot[n].offset /\ snapshot[n].offset + 1 \in Nat \ {0}
  BY <1>n
<1>1. LeaderTypes'
  BY <1>g, <1>t, <1>x DEF LeaderTypes
<1>2. SnapshotsHold(ak, vh, n)'
  <2>1. \A k \in Nat : Fixed(ak, vh, n, k) => Fixed(ak, vh, n, k)'
    BY <1>g, FixedSame
  <2> QED
    BY <1>g, <1>n, <1>t, <1>x, <2>1 DEF SnapshotsHold
<1> QED
  BY <1>1, <1>2, <1>g, <1>n, SnapshotStep

\* A request is sent.
LEMMA SendStep ==
  ASSUME NEW el, NEW hl, NEW ak, NEW vh, Core(el, hl, ak, vh), Outer(el, hl, ak, vh),
         NEW l \in Node, NEW f \in Node, NEW prev \in Nat, SendAppend(l, f, prev)
  PROVE  IInv'
<1>1. Core(el, hl, ak, vh)'
  BY SendCore
<1>2. UNCHANGED <<electionVars, leaderVars, log, committed, snapVars>>
  BY DEF SendAppend
<1> QED
  BY <1>1, <1>2, IdleStep

\* A request is lost.
LEMMA DropStep ==
  ASSUME NEW el, NEW hl, NEW ak, NEW vh, Core(el, hl, ak, vh), Outer(el, hl, ak, vh),
         NEW m \in wire, DropAppend(m)
  PROVE  IInv'
<1>2. /\ UNCHANGED <<electionVars, leaderVars, log, committed, snapVars>>
      /\ UNCHANGED <<electionVars, log>> /\ wire' \subseteq wire
  BY DEF DropAppend
<1>1. Core(el, hl, ak, vh)'
  BY <1>2, SameCore
<1> QED
  BY <1>1, <1>2, IdleStep

\* A node that takes over a log keeps what is fixed: the log goes as far as the leader was
\* elected with, or as far as the node's own.
LEMMA ReceivedRetains ==
  ASSUME NEW el, NEW hl, NEW ak, NEW vh, Core(el, hl, ak, vh),
         NEW v, NEW t, NEW s, Received(el, hl, ak, vh, v, t, s),
         el[t].base <= Len(s) \/ Len(log[v]) <= Len(s)
  PROVE  Retains(ak, vh, v)
<1>t. Types(el, hl)
  BY DEF Core, Ballot
<1>c. Growth(vh) /\ Chronicle(el, hl) /\ Logs(el, hl) /\ Complete(el, hl, ak, vh)
  BY DEF Core, Ballot
<1>g. /\ v \in Node /\ t \in Nat /\ term[v] <= t
      /\ t \in DOMAIN el /\ s \in Seq(Nat) /\ Len(s) \in Nat
      /\ \A j \in 1 .. Len(s) : s[j] = hl[t][j]
      /\ log' = [log EXCEPT ![v] = s]
      /\ \A x \in DOMAIN el, i \in Nat :
           <<x, v, i>> \in ak /\ Own(hl, x, i) /\ Choosable(vh, ak, voters, term, x, i)
             => i <= Len(s)
  BY DEF Received, Followed
<1>n. /\ term[v] \in Nat /\ log[v] \in Seq(Nat) /\ Len(log[v]) \in Nat
      /\ el[t].base \in Nat /\ log'[v] = s
  BY <1>c, <1>g, <1>t, Typed DEF Chronicle, Types
<1> SUFFICES ASSUME NEW k \in Nat, k > 0, Fixed(ak, vh, v, k)
             PROVE  Has(s, k, log[v][k])
  BY <1>n DEF Retains
<1>1. PICK u : u = log[v][k]
  OBVIOUS
<1>2. /\ k \in 1 .. Len(log[v]) /\ Chosen(vh, ak, u, k)
      /\ u < term[v] \/ <<u, v, k>> \in ak
  BY <1>1 DEF Fixed
<1>3. u \in DOMAIN el /\ k <= Len(hl[u]) /\ u = hl[u][k] /\ u <= term[v]
  <2>1. Traced(el, hl, log[v]) /\ u <= term[v]
    BY <1>1, <1>2, <1>c, <1>g DEF Logs
  <2>2. u \in DOMAIN el /\ k <= Len(hl[u]) /\ \A j \in 1 .. k : log[v][j] = hl[u][j]
    BY <1>1, <1>2, <2>1 DEF Traced
  <2>3. k \in 1 .. k
    OBVIOUS
  <2> QED
    BY <1>1, <2>1, <2>2, <2>3
<1>4. u \in Nat /\ Own(hl, u, k)
  BY <1>2, <1>3, <1>t, Typed DEF Own
<1>5. Choosable(vh, ak, voters, term, u, k)
  BY <1>2, <1>c, ChosenIsChoosable
<1>6. CASE u < t
  <2>1. k <= el[t].base /\ Has(hl[t], k, u)
    BY <1>3, <1>4, <1>5, <1>6, <1>c, <1>g DEF Complete
  <2>2. k <= Len(s)
    BY <1>2, <1>n, <1>g, <2>1
  <2> QED
    BY <1>1, <1>g, <2>1, <2>2 DEF Has
<1>7. CASE u = t
  <2>1. <<u, v, k>> \in ak
    BY <1>2, <1>4, <1>7, <1>g, <1>n
  <2>2. k <= Len(s)
    BY <1>3, <1>4, <1>5, <1>g, <2>1
  <2> QED
    BY <1>1, <1>3, <1>7, <1>g, <2>2 DEF Has
<1> QED
  BY <1>3, <1>4, <1>6, <1>7, <1>g, <1>n

\* The snapshot a follower gets is of the leader's log, up to an entry that is fixed there.
Installed(ak, vh, v, l, t, s) ==
  /\ snapshot'[v].offset = Len(s) /\ snapshot'[v].durable = Len(s)
  /\ log_start'[v] = Len(s) + 1
  /\ Len(s) > 0 /\ Fixed(ak, vh, l, Len(s))
  /\ role[l] = "leader" /\ term[l] = t

(***************************************************************************)
(* A follower takes over a log, and the leader, if it still leads, counts  *)
(* it: the follower acknowledged all of it in the leader's term.           *)
(***************************************************************************)
LEMMA TakenOver ==
  ASSUME NEW el, NEW hl, NEW ak, NEW vh, Core(el, hl, ak, vh), Outer(el, hl, ak, vh),
         NEW v, NEW t, NEW s, Received(el, hl, ak, vh, v, t, s),
         el[t].base <= Len(s) \/ Len(log[v]) <= Len(s),
         NEW l \in Node, l # v, Rested(v), LeaderTypes', committed' = committed,
         \A n \in Node : n # v =>
           /\ commit_index'[n] = commit_index[n] /\ read'[n] = read[n]
           /\ snapshot'[n] = snapshot[n] /\ log_start'[n] = log_start[n]
           /\ n # l => match'[n] = match[n],
         \/ match'[l] = match[l]
         \/ /\ role[l] = "leader" /\ term[l] = t
            /\ match'[l] = [match[l] EXCEPT ![v] = Len(s)],
         \/ snapshot'[v] = snapshot[v] /\ log_start'[v] = log_start[v]
         \/ Installed(ak, vh, v, l, t, s)
  PROVE  IInv'
<1>t. Types(el, hl) /\ BallotTypes(el) /\ LeaderTypes
  BY DEF Core, Ballot, Outer
<1>c. /\ Growth(vh) /\ Logs(el, hl) /\ CommittedHolds(el, hl, ak, vh)
      /\ LeaderCounts(ak, l) /\ SnapshotsHold(ak, vh, l) /\ ReadHolds(vh, l)
  BY DEF Core, Ballot, Outer
<1>g. /\ v \in Node /\ t \in Nat /\ Followed(v, t)
      /\ t \in DOMAIN el /\ s \in Seq(Nat) /\ Len(s) \in Nat
      /\ \A j \in 1 .. Len(s) : s[j] = hl[t][j]
      /\ log' = [log EXCEPT ![v] = s]
      /\ role' = [role EXCEPT ![v] = "follower"]
  BY DEF Received, Followed, Follow
<1>1. PICK ak2 :
        /\ Core(el, hl, ak2, vh)'
        /\ Later(vh, ak, voters, term, vh, ak2, voters', term')
        /\ \A x \in Nat, w \in Node, i \in Nat :
             <<x, w, i>> \in ak2 <=>
               <<x, w, i>> \in ak \/ (x = t /\ w = v /\ i \in 1 .. Len(s))
  BY ReceivedCore
<1>w. term'[v] = t /\ \A n \in Node : n # v => term'[n] = term[n]
  BY <1>g, <1>t, FollowedTerms
<1>v. /\ log'[v] = s
      /\ \A n \in Node : n # v => role'[n] = role[n] /\ log'[n] = log[n]
  BY <1>g, <1>t DEF Types
<1>u. \A n \in Node : n # v /\ n # l => Untouched(n)
  BY <1>v, <1>w DEF Untouched
<1>2. Onward(ak, vh, ak2, vh)
  BY <1>1, <1>c, <1>t, Typed DEF Onward, CommittedHolds
<1>3. CommittedHolds(el, hl, ak2, vh)'
  <2>1. \A n \in Node : role'[n] = "leader" =>
          role[n] = "leader" /\ term'[n] = term[n] /\ commit_index'[n] = commit_index[n]
    BY <1>v, <1>w DEF Rested
  <2>2. Longer(el, hl, el, hl)
    <3>1. \A x \in DOMAIN el : Len(hl[x]) \in Nat
      BY <1>t, Typed
    <3> QED
      BY <3>1 DEF Longer
  <2> QED
    BY <1>1, <1>c, <1>t, <2>1, <2>2, CommittedStays
<1>4. LeaderCounts(ak2, v)' /\ ReadHolds(vh, v)'
  BY <1>g, RestedHolds
<1>5. SnapshotsHold(ak2, vh, v)'
  <2>1. CASE snapshot'[v] = snapshot[v] /\ log_start'[v] = log_start[v]
    <3>1. Retains(ak, vh, v) /\ commit_index'[v] = 0 /\ SnapshotsHold(ak, vh, v)
      BY <1>g, ReceivedRetains DEF Rested, Outer
    <3> QED
      BY <1>2, <1>g, <1>t, <2>1, <3>1, SnapshotsStay
  <2>2. CASE Installed(ak, vh, v, l, t, s)
    <3>1. PICK k, u : k = Len(s) /\ u = log[l][k]
      OBVIOUS
    <3>2. /\ snapshot'[v].offset = k /\ snapshot'[v].durable = k /\ log_start'[v] = k + 1
          /\ k \in Nat /\ k > 0 /\ role[l] = "leader" /\ term[l] = t
          /\ k \in 1 .. Len(log[l]) /\ k <= Len(committed) /\ Chosen(vh, ak, u, k)
      BY <1>g, <2>2, <3>1 DEF Installed, Fixed
    <3>3. log[l] = hl[t] /\ u <= t
      BY <1>c, <3>1, <3>2 DEF Logs
    <3>4. u \in Nat /\ s[k] = u
      BY SMTT(30), <1>g, <1>t, <3>1, <3>2, <3>3, Typed
    <3>5. Chosen(vh, ak2, u, k)
      BY <1>1, <3>2, ChosenStays
    <3>6. u < t \/ <<u, v, k>> \in ak2
      BY <1>1, <1>g, <3>1, <3>2, <3>3, <3>4
    <3>7. Fixed(ak2, vh, v, k)'
      BY <1>v, <1>w, <3>1, <3>2, <3>4, <3>5, <3>6 DEF Fixed
    <3>8. Fixed(ak2, vh, v, 0)' /\ commit_index'[v] = 0
      BY DEF Fixed, Rested
    <3> QED
      BY <3>2, <3>7, <3>8 DEF SnapshotsHold
  <2> QED
    BY <2>1, <2>2
<1>6. LeaderCounts(ak2, l)'
  <2>1. ak \subseteq ak2
    BY <1>1 DEF Later
  <2>2. role'[l] = "leader" => \A w \in Node : \A i \in 1 .. match'[l][w] : <<term[l], w, i>> \in ak2
    <3>1. CASE match'[l] = match[l]
      BY <1>c, <1>v, <2>1, <3>1 DEF LeaderCounts
    <3>2. CASE /\ role[l] = "leader" /\ term[l] = t
               /\ match'[l] = [match[l] EXCEPT ![v] = Len(s)]
      <4>1. /\ match'[l][v] = Len(s)
            /\ \A w \in Node : w # v => match'[l][w] = match[l][w]
        BY <1>g, <1>t, <3>2 DEF LeaderTypes
      <4>2. \A i \in 1 .. Len(s) : <<t, v, i>> \in ak2
        BY <1>1, <1>g
      <4> QED
        BY <1>c, <2>1, <3>2, <4>1, <4>2 DEF LeaderCounts
    <3> QED
      BY <3>1, <3>2
  <2>3. role[l] # "leader" => match'[l] = NoMatch
    BY <1>c DEF LeaderCounts
  <2> QED
    BY <1>c, <1>v, <1>w, <2>1, <2>2, <2>3 DEF LeaderCounts, NoMatch
<1>7. SnapshotsHold(ak2, vh, l)'
  <2>1. Retains(ak, vh, l)
    BY <1>v, SameLogRetains
  <2> QED
    BY <1>2, <1>c, <1>t, <2>1, SnapshotsStay
<1>8. ReadHolds(vh, l)'
  BY <1>1, <1>c, <1>w, ReadStays
<1> QED
  BY <1>1, <1>2, <1>3, <1>4, <1>5, <1>6, <1>7, <1>8, <1>u, Assembled

\* A request that does not agree makes its receiver a follower of the request's term.
LEMMA RefusedStep ==
  ASSUME NEW el, NEW hl, NEW ak, NEW vh, Core(el, hl, ak, vh), Outer(el, hl, ak, vh),
         NEW v \in Node, NEW t, Followed(v, t), Rested(v),
         log' = log, wire' \subseteq wire, committed' = committed, LeaderTypes',
         UNCHANGED snapVars,
         \A n \in Node : n # v =>
           match'[n] = match[n] /\ commit_index'[n] = commit_index[n] /\ read'[n] = read[n]
  PROVE  IInv'
<1>t. Types(el, hl) /\ BallotTypes(el) /\ LeaderTypes
  BY DEF Core, Ballot, Outer
<1>g. /\ snapshot' = snapshot /\ log_start' = log_start /\ voters' = voters
      /\ role' = [role EXCEPT ![v] = "follower"]
  BY DEF snapVars, Followed, Follow
<1>1. Core(el, hl, ak, vh)'
  BY FollowedCore
<1>w. /\ \A n \in Node : term'[n] \in Nat /\ term[n] <= term'[n]
      /\ \A n \in Node : n # v => term'[n] = term[n]
  BY <1>t, FollowedTerms
<1>u. \A n \in Node : n # v => Untouched(n)
  BY <1>g, <1>t, <1>w DEF Untouched, Types
<1>2. Onward(ak, vh, ak, vh) /\ Longer(el, hl, el, hl)
  BY <1>g, <1>w, SamePast
<1>4. CommittedHolds(el, hl, ak, vh)'
  <2>1. \A n \in Node : role'[n] = "leader" =>
          role[n] = "leader" /\ term'[n] = term[n] /\ commit_index'[n] = commit_index[n]
    BY <1>u DEF Rested, Untouched
  <2> QED
    BY <1>2, <1>g, <1>t, <2>1, CommittedStays DEF Outer, Onward
<1>5. LeaderCounts(ak, v)' /\ ReadHolds(vh, v)'
  BY RestedHolds
<1>6. SnapshotsHold(ak, vh, v)'
  <2>1. Retains(ak, vh, v)
    BY SameLogRetains
  <2>2. snapshot'[v] = snapshot[v] /\ log_start'[v] = log_start[v] /\ commit_index'[v] = 0
    BY <1>g DEF Rested
  <2> QED
    BY <1>2, <1>t, <2>1, <2>2, SnapshotsStay DEF Outer
<1> QED
  BY <1>1, <1>2, <1>4, <1>5, <1>6, <1>u, Assembled

\* FollowerLog.append behind the fence of ControllerFencer: a stale request is fenced, one
\* that does not agree is refused, one that agrees is taken over.
LEMMA DeliverStep ==
  ASSUME NEW el, NEW hl, NEW ak, NEW vh, Core(el, hl, ak, vh), Outer(el, hl, ak, vh),
         NEW m \in wire, DeliverAppend(m), lapses' = {}
  PROVE  IInv'
<1>t. Types(el, hl) /\ LeaderTypes /\ Requests(el, hl)
  BY DEF Core, Ballot, Outer
<1>z. PICK v, t, l : v = m.to /\ t = m.term /\ l = m.from
  OBVIOUS
<1>m. /\ v \in Node /\ l \in Node /\ l # v /\ t \in DOMAIN el /\ t \in Nat
      /\ m.prev + Len(m.new) \in Nat
  <2>1. v \in Node /\ l \in Node /\ l # v /\ t \in DOMAIN el /\ m.prev \in Nat /\ m.new \in Seq(Nat)
    BY <1>t, <1>z DEF Requests
  <2> QED
    BY <1>t, <2>1, Typed
<1>s. wire' = wire \ {m} /\ committed' = committed /\ UNCHANGED snapVars
  BY DEF DeliverAppend
<1>1. CASE m.term < term[m.to] /\ UNCHANGED <<electionVars, leaderVars, log>>
  <2>1. UNCHANGED <<electionVars, log>> /\ wire' \subseteq wire
    BY <1>1, <1>s
  <2>2. Core(el, hl, ak, vh)'
    BY <2>1, SameCore
  <2> QED
    BY <1>1, <1>s, <2>2, IdleStep
<1>2. CASE /\ t >= term[v]
           /\ Follow(v, t)
           /\ granted' = [granted EXCEPT ![v] = {}]
           /\ commit_index' = [commit_index EXCEPT ![v] = 0]
           /\ read' = [read EXCEPT ![v] = None]
           /\ log' = IF Agrees(v, m) THEN [log EXCEPT ![v] = Appended(v, m)] ELSE log
           /\ match' = [match EXCEPT ![v] = NoMatch,
                ![l] = IF Agrees(v, m) /\ role[l] = "leader" /\ term[l] = t
                       THEN [@ EXCEPT ![v] = m.prev + Len(m.new)] ELSE @]
           /\ lapses' = IF Cuts(v, m) THEN lapses \cup {"cut"} ELSE lapses
           /\ UNCHANGED voters
  <2>f. Followed(v, t)
    BY <1>2, <1>m, <1>t, Typed DEF Followed
  <2>g. /\ commit_index'[v] = 0 /\ read'[v] = None /\ role'[v] = "follower"
        /\ \A n \in Node : n # v => commit_index'[n] = commit_index[n] /\ read'[n] = read[n]
    BY <1>2, <1>m, <1>t DEF Follow, Types, LeaderTypes
  <2>x. /\ match'[v] = NoMatch
        /\ \A n \in Node : n # v /\ n # l => match'[n] = match[n]
        /\ Agrees(v, m) /\ role[l] = "leader" /\ term[l] = t =>
             match'[l] = [match[l] EXCEPT ![v] = m.prev + Len(m.new)]
        /\ ~ (Agrees(v, m) /\ role[l] = "leader" /\ term[l] = t) => match'[l] = match[l]
        /\ DOMAIN match' = Node /\ match' = [n \in Node |-> match'[n]]
    BY <1>2, <1>m, <1>t DEF LeaderTypes
  <2>r. Rested(v)
    BY <2>g, <2>x DEF Rested
  <2>3. LeaderTypes'
    <3>1. match[l] \in [Node -> Nat]
      BY <1>m, <1>t DEF LeaderTypes
    <3>2. match'[l] \in [Node -> Nat]
      BY <1>m, <2>x, <3>1
    <3>3. \A n \in Node : match'[n] \in [Node -> Nat]
      <4>1. match'[v] \in [Node -> Nat]
        BY <2>x DEF NoMatch
      <4>2. \A n \in Node : match[n] \in [Node -> Nat]
        BY <1>t DEF LeaderTypes
      <4>3. \A n \in Node : n # v /\ n # l => match'[n] = match[n]
        BY <2>x
      <4> QED
        BY <3>2, <4>1, <4>2, <4>3
    <3>4. match' \in [Node -> [Node -> Nat]]
      BY <2>x, <3>3
    <3> QED
      BY <1>2, <1>s, <1>t, <3>4 DEF LeaderTypes, snapVars
  <2>4. CASE ~ Agrees(v, m)
    <3>1. log' = log /\ wire' \subseteq wire
      BY <1>2, <1>s, <2>4
    <3>2. \A n \in Node : n # v =>
            match'[n] = match[n] /\ commit_index'[n] = commit_index[n] /\ read'[n] = read[n]
      BY <2>4, <2>g, <2>x
    <3> QED
      BY <1>m, <1>s, <2>3, <2>f, <2>r, <3>1, <3>2, RefusedStep
  <2>5. CASE Agrees(v, m)
    <3>1. PICK s : /\ Received(el, hl, ak, vh, v, t, s)
                   /\ Len(s) = m.prev + Len(m.new)
                   /\ s = Appended(v, m)
                   /\ el[t].base <= Len(s)
      <4>1. log' = [log EXCEPT ![v] = Appended(v, m)]
        BY <1>2, <2>5
      <4>2. ~ Cuts(v, m)
        BY <1>2
      <4> QED
        BY <1>2, <1>s, <1>z, <2>5, <2>f, <4>1, <4>2, DeliverReceived
    <3>2. \/ match'[l] = match[l]
          \/ /\ role[l] = "leader" /\ term[l] = t
             /\ match'[l] = [match[l] EXCEPT ![v] = Len(s)]
      BY <2>x, <3>1
    <3>3. /\ snapshot'[v] = snapshot[v] /\ log_start'[v] = log_start[v]
          /\ \A n \in Node : n # v =>
               /\ commit_index'[n] = commit_index[n] /\ read'[n] = read[n]
               /\ snapshot'[n] = snapshot[n] /\ log_start'[n] = log_start[n]
               /\ n # l => match'[n] = match[n]
      BY <1>s, <2>g, <2>x DEF snapVars
    <3> QED
      BY <1>m, <1>s, <2>3, <2>r, <3>1, <3>2, <3>3, TakenOver
  <2> QED
    BY <2>4, <2>5
<1> QED
  BY <1>1, <1>2, <1>z DEF DeliverAppend

\* SnapshotInstaller: a follower whose log ends before the leader's snapshot does.
LEMMA InstallStep ==
  ASSUME NEW el, NEW hl, NEW ak, NEW vh, Core(el, hl, ak, vh), Outer(el, hl, ak, vh),
         NEW l \in Node, NEW v \in Node, InstallSnapshot(l, v)
  PROVE  IInv'
<1>t. Types(el, hl) /\ LeaderTypes
  BY DEF Core, Ballot, Outer
<1>c. /\ Elections(el, vh) /\ Logs(el, hl) /\ Requests(el, hl) /\ Kept(el, hl, ak, vh)
      /\ SnapshotsHold(ak, vh, l)
  BY DEF Core, Ballot, Outer
<1>z. PICK t, k, h, s : /\ t = term[l] /\ k = snapshot[l].offset /\ h = log[l]
                        /\ s = SubSeq(log[l], 1, snapshot[l].offset)
  OBVIOUS
<1>g. /\ role[l] = "leader" /\ v # l /\ term[v] <= t
      /\ k \in Len(log[v]) + 1 .. Len(log[l])
      /\ Follow(v, t)
      /\ granted' = [granted EXCEPT ![v] = {}]
      /\ log' = [log EXCEPT ![v] = s]
      /\ match' = [match EXCEPT ![v] = NoMatch, ![l] = [@ EXCEPT ![v] = k]]
      /\ commit_index' = [commit_index EXCEPT ![v] = 0]
      /\ read' = [read EXCEPT ![v] = None]
      /\ snapshot' = [snapshot EXCEPT ![v] = [offset |-> k, durable |-> k]]
      /\ log_start' = [log_start EXCEPT ![v] = k + 1]
      /\ voters' = voters /\ wire' = wire /\ committed' = committed
  BY <1>z DEF InstallSnapshot, NeedsSnapshot
<1>n. /\ t \in Nat /\ k \in Nat /\ h \in Seq(Nat) /\ Len(h) \in Nat /\ Len(log[v]) \in Nat
      /\ match[l] \in [Node -> Nat] /\ term[v] \in Nat
  BY <1>t, <1>z, Typed DEF LeaderTypes
<1>k. k > 0 /\ Fixed(ak, vh, l, k) /\ k \in 1 .. Len(h)
  <2>1. k > 0
    BY <1>g, <1>n
  <2> QED
    BY <1>c, <1>z, <2>1 DEF SnapshotsHold, Fixed
<1>s. s \in Seq(Nat) /\ Len(s) = k /\ \A j \in 1 .. k : s[j] = h[j]
  BY <1>k, <1>n, <1>z, SubSeqProperties, SMTT(30)
<1>e. t \in DOMAIN el /\ el[t].leader = l /\ h = hl[t]
  BY <1>c, <1>g, <1>z DEF Elections, Logs
<1>1. Received(el, hl, ak, vh, v, t, s)
  <2>1. Followed(v, t)
    BY <1>g, <1>n DEF Followed
  <2>3. ASSUME NEW x \in DOMAIN el, NEW i \in Nat, <<x, v, i>> \in ak, Own(hl, x, i),
               Choosable(vh, ak, voters, term, x, i)
        PROVE  i <= Len(s)
    <3>1. Has(log[v], i, x)
      BY <1>c, <2>3 DEF Kept
    <3>2. i <= Len(log[v])
      BY <1>n, <3>1 DEF Has
    <3> QED
      BY <1>g, <1>n, <1>s, <3>2
  <2>4. Len(s) <= Len(hl[t]) /\ \A j \in 1 .. Len(s) : s[j] = hl[t][j]
    BY <1>e, <1>k, <1>s
  <2> QED
    BY <1>e, <1>g, <1>s, <2>1, <2>3, <2>4 DEF Received
<1>2. Len(log[v]) <= Len(s)
  BY <1>g, <1>n, <1>s
<1>3. /\ Rested(v)
      /\ \A n \in Node : n # v =>
           /\ commit_index'[n] = commit_index[n] /\ read'[n] = read[n]
           /\ snapshot'[n] = snapshot[n] /\ log_start'[n] = log_start[n]
           /\ n # l => match'[n] = match[n]
      /\ match'[l] = [match[l] EXCEPT ![v] = k]
  BY <1>g, <1>t DEF Rested, Follow, Types, LeaderTypes
<1>4. Installed(ak, vh, v, l, t, s)
  <2>1. snapshot'[v] = [offset |-> k, durable |-> k] /\ log_start'[v] = k + 1
    BY <1>g, <1>t DEF LeaderTypes
  <2> QED
    BY <1>g, <1>k, <1>s, <1>z, <2>1 DEF Installed
<1>5. LeaderTypes'
  <2>1. [match[l] EXCEPT ![v] = k] \in [Node -> Nat] /\ NoMatch \in [Node -> Nat]
    BY <1>n DEF NoMatch
  <2>2. match' \in [Node -> [Node -> Nat]]
    <3>1. match' = [n \in Node |-> match'[n]] /\ match'[v] = NoMatch
      BY <1>g, <1>t DEF LeaderTypes
    <3>2. \A n \in Node : match[n] \in [Node -> Nat]
      BY <1>t DEF LeaderTypes
    <3>3. match'[v] \in [Node -> Nat] /\ match'[l] \in [Node -> Nat]
      BY <1>3, <2>1, <3>1
    <3>4. \A n \in Node : n # v /\ n # l => match'[n] = match[n]
      BY <1>3
    <3>5. \A n \in Node : match'[n] \in [Node -> Nat]
      BY <3>2, <3>3, <3>4
    <3> QED
      BY <3>1, <3>5
  <2>3. k + 1 \in Nat \ {0} /\ [offset |-> k, durable |-> k] \in [offset : Nat, durable : Nat]
    BY <1>n
  <2> QED
    BY <1>g, <1>t, <2>2, <2>3 DEF LeaderTypes
<1>6. /\ role[l] = "leader" /\ term[l] = t /\ committed' = committed /\ l # v
      /\ match'[l] = [match[l] EXCEPT ![v] = Len(s)]
  BY <1>3, <1>g, <1>s, <1>z
<1> QED
  BY <1>1, <1>2, <1>3, <1>4, <1>5, <1>6, TakenOver
----------------------------------------------------------------------------
\* The start: no past but the initial voters.
LEMMA InitBallot ==
  ASSUME Init, NEW el, DOMAIN el = {}, NEW vh, vh = {voters}
  PROVE  Ballot(el, vh)
<1>g. /\ voters \in InitialVoters /\ voters \in SUBSET Node
      /\ term = [n \in Node |-> 0] /\ role = [n \in Node |-> "follower"]
      /\ electorate = [n \in Node |-> {}] /\ granted = [n \in Node |-> {}]
  BY QuorumAssumption DEF Init
<1>n. \A n \in Node : role[n] = "follower"
  BY <1>g
<1>1. BallotTypes(el)
  BY <1>g DEF BallotTypes, Role
<1>2. Growth(vh)
  BY <1>g DEF Growth
<1>3. VotesAreSpent /\ Electorates(vh) /\ Elections(el, vh)
  BY <1>n DEF VotesAreSpent, Electorates, Elections
<1> QED
  BY <1>1, <1>2, <1>3 DEF Ballot

LEMMA InitIInv ==
  Init => IInv
<1> SUFFICES ASSUME Init PROVE IInv
  OBVIOUS
<1>g. /\ voters \in InitialVoters
      /\ term = [n \in Node |-> 0] /\ role = [n \in Node |-> "follower"]
      /\ granted = [n \in Node |-> {}] /\ log = [n \in Node |-> <<>>]
      /\ match = [n \in Node |-> NoMatch] /\ commit_index = [n \in Node |-> 0]
      /\ wire = {} /\ read = [n \in Node |-> None]
      /\ snapshot = [n \in Node |-> [offset |-> 0, durable |-> 0]]
      /\ log_start = [n \in Node |-> 1] /\ committed = <<>>
  BY DEF Init
<1>z. PICK el, hl, ak, vh :
        DOMAIN el = {} /\ hl = [n \in Nat |-> <<>>] /\ ak = {} /\ vh = {voters}
  <2> DEFINE none == [x \in {} |-> x]
  <2>1. DOMAIN none = {}
    OBVIOUS
  <2> HIDE DEF none
  <2> QED
    BY <2>1
<1>n. \A n \in Node :
        /\ term[n] = 0 /\ role[n] = "follower" /\ granted[n] = {} /\ log[n] = <<>>
        /\ Len(log[n]) = 0
        /\ match[n] = NoMatch /\ commit_index[n] = 0 /\ read[n] = None /\ log_start[n] = 1
        /\ snapshot[n] = [offset |-> 0, durable |-> 0]
  BY <1>g
<1>1. Types(el, hl)
  BY <1>g, <1>z DEF Types, Role
<1>2. Ballot(el, vh)
  BY <1>z, InitBallot
<1>3. Chronicle(el, hl)
  BY <1>z DEF Chronicle
<1>4. Logs(el, hl)
  BY <1>n DEF Logs, Traced
<1>5. Requests(el, hl) /\ Acks(el, hl, ak) /\ Kept(el, hl, ak, vh)
  BY <1>g, <1>z DEF Requests, Acks, Kept
<1>6. Candidates(el, hl, ak, vh) /\ Complete(el, hl, ak, vh)
  BY <1>n, <1>z DEF Candidates, Complete
<1>7. Core(el, hl, ak, vh)
  BY <1>1, <1>2, <1>3, <1>4, <1>5, <1>6 DEF Core
<1>8. LeaderTypes
  BY <1>g DEF LeaderTypes, NoMatch
<1>9. ASSUME NEW n \in Node
      PROVE  LeaderCounts(ak, n) /\ SnapshotsHold(ak, vh, n) /\ ReadHolds(vh, n)
  <2>1. Fixed(ak, vh, n, 0) /\ log_start[n] - 1 = 0
    BY <1>n DEF Fixed
  <2>2. snapshot[n].offset = 0 /\ snapshot[n].durable = 0
    BY <1>n
  <2>3. SnapshotsHold(ak, vh, n)
    BY <1>n, <2>1, <2>2 DEF SnapshotsHold
  <2> QED
    BY <1>n, <2>3 DEF LeaderCounts, ReadHolds
<1>10. CommittedHolds(el, hl, ak, vh)
  BY <1>g DEF CommittedHolds
<1> QED
  BY <1>10, <1>7, <1>8, <1>9 DEF IInv, Outer

(***************************************************************************)
(* Every step of every node, every delivery and every loss preserves the   *)
(* invariant.                                                              *)
(***************************************************************************)
LEMMA StepIInv ==
  ASSUME MajoritiesMeet, IInv, [Next]_vars, lapses' = {}
  PROVE  IInv'
<1>p. PICK el, hl, ak, vh : Core(el, hl, ak, vh) /\ Outer(el, hl, ak, vh)
  BY DEF IInv
<1>1. ASSUME UNCHANGED vars PROVE IInv'
  <2>1. /\ UNCHANGED <<electionVars, leaderVars, log, committed, snapVars>>
        /\ UNCHANGED <<electionVars, log>> /\ wire' \subseteq wire
    BY <1>1 DEF vars, logVars
  <2> QED
    BY <1>p, <2>1, SameCore, IdleStep
<1>2. ASSUME NEW n \in Node,
             \/ Campaign(n) \/ BecomeLeader(n) \/ Propose(n)
             \/ BeginRead(n) \/ ServeRead(n)
             \/ TakeSnapshot(n) \/ MarkDurable(n) \/ DiscardBelow(n) \/ Crash(n)
      PROVE  IInv'
  <2>1. CASE Campaign(n) BY <1>p, <2>1, CampaignStep
  <2>2. CASE BecomeLeader(n) BY <1>p, <2>2, LeadStep
  <2>3. CASE Propose(n) BY <1>p, <2>3, ProposeStep
  <2>4. CASE BeginRead(n) BY <1>p, <2>4, BeginStep
  <2>5. CASE ServeRead(n) BY <1>p, <2>5, ServeStep
  <2>6. CASE TakeSnapshot(n) BY <1>p, <2>6, TakeStep
  <2>7. CASE MarkDurable(n) BY <1>p, <2>7, DurableStep
  <2>8. CASE DiscardBelow(n) BY <1>p, <2>8, DiscardStep
  <2>9. CASE Crash(n) BY <1>p, <2>9, CrashStep
  <2> QED
    BY <1>2, <2>1, <2>2, <2>3, <2>4, <2>5, <2>6, <2>7, <2>8, <2>9
<1>3. ASSUME NEW n \in Node, NEW f \in Node,
             \/ RequestVote(f, n) \/ Confirm(n, f) \/ Promote(n, f) \/ InstallSnapshot(n, f)
             \/ \E prev \in 0 .. MaxLog : SendAppend(n, f, prev)
      PROVE  IInv'
  <2>1. CASE RequestVote(f, n) BY <1>p, <2>1, VoteStep
  <2>2. CASE Confirm(n, f) BY <1>p, <2>2, ConfirmStep
  <2>3. CASE Promote(n, f) BY <1>p, <2>3, PromoteStep
  <2>4. CASE InstallSnapshot(n, f) BY <1>p, <2>4, InstallStep
  <2>5. ASSUME NEW prev \in 0 .. MaxLog, SendAppend(n, f, prev) PROVE IInv'
    <3>1. prev \in Nat
      BY QuorumAssumption
    <3> QED
      BY <1>p, <2>5, <3>1, SendStep
  <2> QED
    BY <1>3, <2>1, <2>2, <2>3, <2>4, <2>5
<1>4. ASSUME NEW n \in Node, NEW i \in 1 .. MaxLog,
             TryAdvance(n, i) \/ CommitPriorViaCurrent(n, i)
      PROVE  IInv'
  <2>1. i \in Nat
    BY QuorumAssumption
  <2>2. Commits(n, i)
    BY <1>4 DEF TryAdvance, CommitPriorViaCurrent, Committable, Commits, CommitTo
  <2> QED
    BY <1>p, <2>1, <2>2, CommitStep
<1>5. ASSUME NEW m \in wire, DeliverAppend(m) \/ DropAppend(m)
      PROVE  IInv'
  BY <1>5, <1>p, DeliverStep, DropStep
<1> QED
  BY <1>1, <1>2, <1>3, <1>4, <1>5 DEF Next
----------------------------------------------------------------------------
\* An index within a log is one of an entry.
LEMMA EntryOf ==
  ASSUME NEW s \in Seq(Nat), NEW k \in Nat, k <= Len(s), NEW j \in 1 .. k
  PROVE  s[j] \in Nat
<1>1. Len(s) \in Nat
  OBVIOUS
<1>2. j \in 1 .. Len(s)
  BY <1>1
<1> QED
  BY <1>2

\* Two sequences that agree up to an index have the same prefix.
LEMMA EqualPrefixes ==
  ASSUME NEW s \in Seq(Nat), NEW r \in Seq(Nat), NEW k \in Nat, k <= Len(s), k <= Len(r),
         \A j \in 1 .. k : s[j] = r[j]
  PROVE  SubSeq(s, 1, k) = SubSeq(r, 1, k)
<1>1. (\A j \in 1 .. k : s[j] \in Nat) /\ (\A j \in 1 .. k : r[j] \in Nat)
  BY EntryOf
<1>2. /\ SubSeq(s, 1, k) \in Seq(Nat) /\ Len(SubSeq(s, 1, k)) = k
      /\ \A j \in 1 .. k : SubSeq(s, 1, k)[j] = s[j]
  BY <1>1, SubSeqProperties
<1>3. /\ SubSeq(r, 1, k) \in Seq(Nat) /\ Len(SubSeq(r, 1, k)) = k
      /\ \A j \in 1 .. k : SubSeq(r, 1, k)[j] = r[j]
  BY <1>1, SubSeqProperties
<1> QED
  BY <1>2, <1>3, SeqEqual

\* The invariant makes logs agree below a shared entry: both are their leader's there.
LEMMA Matching ==
  IInv => LogMatching
<1> SUFFICES ASSUME IInv, NEW a \in Node, NEW b \in Node,
                    NEW i \in DOMAIN log[a] \cap DOMAIN log[b], log[a][i] = log[b][i]
             PROVE  SubSeq(log[a], 1, i) = SubSeq(log[b], 1, i)
  BY DEF LogMatching
<1>1. PICK el, hl, ak, vh : Core(el, hl, ak, vh) /\ Outer(el, hl, ak, vh)
  BY DEF IInv
<1>2. Types(el, hl) /\ Traced(el, hl, log[a]) /\ Traced(el, hl, log[b])
  BY <1>1 DEF Core, Logs
<1>3. log[a] \in Seq(Nat) /\ log[b] \in Seq(Nat)
  BY <1>2, Typed
<1>4. i \in 1 .. Len(log[a]) /\ i \in 1 .. Len(log[b])
  <2>1. \A s \in Seq(Nat) : DOMAIN s = 1 .. Len(s)
    OBVIOUS
  <2> QED
    BY <1>3, <2>1
<1>5. \A j \in 1 .. i : log[a][j] = log[b][j]
  BY <1>2, <1>4 DEF Traced
<1> QED
  BY <1>3, <1>4, <1>5, EqualPrefixes

(***************************************************************************)
(* The committed prefix is in the log of the newest leader: that log is of *)
(* the term it was committed in, or of a later one whose leader was        *)
(* elected with it.                                                        *)
(***************************************************************************)
LEMMA Completeness ==
  IInv => LeaderCompleteness
<1> SUFFICES ASSUME IInv, NEW l \in Node, role[l] = "leader",
                    \A n \in Node : term[n] <= term[l]
             PROVE  IsPrefix(committed, log[l])
  BY DEF LeaderCompleteness
<1>1. PICK el, hl, ak, vh : Core(el, hl, ak, vh) /\ Outer(el, hl, ak, vh)
  BY DEF IInv
<1>c. /\ Types(el, hl) /\ Growth(vh) /\ Elections(el, vh) /\ Chronicle(el, hl) /\ Logs(el, hl)
      /\ Acks(el, hl, ak) /\ Complete(el, hl, ak, vh) /\ CommittedHolds(el, hl, ak, vh)
  BY <1>1 DEF Core, Ballot, Outer
<1>z. PICK u, k : u = term[l] /\ k = Len(committed)
  OBVIOUS
<1>n. /\ u \in Nat /\ k \in Nat /\ committed \in Seq(Nat) /\ log[l] \in Seq(Nat)
      /\ Len(log[l]) \in Nat
  BY <1>c, <1>z, Typed DEF CommittedHolds
<1>e. u \in DOMAIN el /\ log[l] = hl[u]
  BY <1>c, <1>z DEF Elections, Logs
<1>2. k <= Len(log[l]) /\ \A j \in 1 .. k : committed[j] = log[l][j]
  <2>1. CASE k = 0
    BY <1>n, <2>1
  <2>2. CASE k > 0
    <3>1. PICK t : t = committed[k]
      OBVIOUS
    <3>2. /\ t \in DOMAIN el /\ Own(hl, t, k) /\ Chosen(vh, ak, t, k)
          /\ \A j \in 1 .. k : committed[j] = hl[t][j]
      BY <1>c, <1>n, <1>z, <2>2, <3>1 DEF CommittedHolds
    <3>3. t \in Nat /\ k \in 1 .. Len(hl[t])
      BY <1>c, <3>2, Typed DEF Own
    <3>4. t <= u
      <4>1. PICK V \in vh : \E Q \in SUBSET V :
              Cardinality(Q) >= Majority(V) /\ \A v \in Q : <<t, v, k>> \in ak
        BY <3>2 DEF Chosen
      <4>2. PICK Q \in SUBSET V :
              Cardinality(Q) >= Majority(V) /\ \A v \in Q : <<t, v, k>> \in ak
        BY <4>1
      <4>3. V \in SUBSET Node /\ IsFiniteSet(V) /\ Cardinality(V) \in Nat
        BY <1>c, FS_Subset, FS_CardinalityType, QuorumAssumption DEF Growth
      <4>4. Q # {}
        <5>1. Majority(V) \in Nat /\ Majority(V) > 0
          BY <4>3 DEF Majority
        <5>2. Cardinality({}) = 0
          BY FS_EmptySet
        <5>3. Q = {} => Cardinality(Q) = 0
          BY <5>2
        <5> QED
          BY <4>2, <5>1, <5>3
      <4>5. PICK v : v \in Q
        BY <4>4
      <4>6. v \in Node /\ term[v] \in Nat /\ term[v] >= t
        BY <1>c, <1>n, <3>3, <4>2, <4>3, <4>5, Typed DEF Acks
      <4> QED
        BY <1>n, <1>z, <3>3, <4>6
    <3>5. CASE t = u
      BY <1>e, <3>2, <3>3, <3>5
    <3>6. CASE t < u
      <4>1. Choosable(vh, ak, voters, term, t, k)
        BY <1>c, <3>2, ChosenIsChoosable
      <4>2. Has(hl[u], k, t)
        BY <1>c, <1>e, <1>n, <3>2, <3>6, <4>1 DEF Complete
      <4>3. Traced(el, hl, hl[u])
        BY <1>c, <1>e DEF Chronicle
      <4>4. k \in 1 .. Len(hl[u]) /\ hl[u][k] = t
        BY <4>2 DEF Has
      <4>5. \A j \in 1 .. k : hl[u][j] = hl[t][j]
        BY <4>3, <4>4 DEF Traced
      <4> QED
        BY <1>e, <1>n, <3>2, <4>4, <4>5
    <3> QED
      BY <1>n, <3>3, <3>4, <3>5, <3>6
  <2> QED
    BY <1>n, <2>1, <2>2
<1>3. SubSeq(committed, 1, k) = SubSeq(log[l], 1, k)
  BY <1>2, <1>n, <1>z, EqualPrefixes
<1> QED
  BY <1>2, <1>3, <1>z DEF IsPrefix

(***************************************************************************)
(* A read may be served once a majority confirmed the term; a majority     *)
(* that had moved on before would meet it.                                 *)
(***************************************************************************)
LEMMA FreshReads ==
  ASSUME MajoritiesMeet PROVE IInv => ReadsAreFresh
<1> SUFFICES ASSUME IInv, NEW l \in Node, Servable(l)
             PROVE  read[l].index = 0 \/ read[l].index >= read[l].floor
  BY DEF ReadsAreFresh
<1>1. PICK el, hl, ak, vh : Core(el, hl, ak, vh) /\ Outer(el, hl, ak, vh)
  BY DEF IInv
<1>2. /\ Growth(vh) /\ ReadHolds(vh, l)
      /\ read[l] # None /\ IsMajority(read[l].confirmed)
  BY <1>1 DEF Core, Ballot, Outer, Servable
<1> SUFFICES ASSUME Overtaken(vh, l) PROVE FALSE
  BY <1>2 DEF ReadHolds
<1>3. PICK V \in vh : \E Q \in SUBSET V :
        /\ Cardinality(Q) >= Majority(V)
        /\ \A v \in Q : term[v] > term[l] /\ v \notin read[l].confirmed
  BY DEF Overtaken
<1>4. PICK Q \in SUBSET V :
        /\ Cardinality(Q) >= Majority(V)
        /\ \A v \in Q : term[v] > term[l] /\ v \notin read[l].confirmed
  BY <1>3
<1>5. PICK P : P = read[l].confirmed \cap voters
  OBVIOUS
<1>6. P \in SUBSET voters /\ Cardinality(P) >= Majority(voters)
  BY <1>2, <1>5 DEF IsMajority
<1>7. /\ V \in SUBSET Node /\ voters \in SUBSET Node /\ V \subseteq voters
      /\ \E I \in InitialVoters : I \subseteq V
      /\ \E I \in InitialVoters : I \subseteq voters
  BY <1>2 DEF Growth
<1>8. \E v \in Q : v \in P
  BY <1>4, <1>6, <1>7, Meeting
<1> QED
  BY <1>4, <1>5, <1>8

(***************************************************************************)
(* What is discarded is committed: the entry it ends with was chosen, and  *)
(* so was the one the committed prefix ends with.                          *)
(***************************************************************************)
LEMMA Covering ==
  IInv => SnapshotsCover
<1> SUFFICES ASSUME IInv, NEW n \in Node
             PROVE  /\ IsPrefix(SubSeq(log[n], 1, log_start[n] - 1), committed)
                    /\ log_start[n] <= snapshot[n].durable + 1
  BY DEF SnapshotsCover
<1>1. PICK el, hl, ak, vh : Core(el, hl, ak, vh) /\ Outer(el, hl, ak, vh)
  BY DEF IInv
<1>c. /\ Types(el, hl) /\ Growth(vh) /\ Chronicle(el, hl) /\ Logs(el, hl)
      /\ Complete(el, hl, ak, vh) /\ CommittedHolds(el, hl, ak, vh)
      /\ LeaderTypes /\ SnapshotsHold(ak, vh, n)
  BY <1>1 DEF Core, Ballot, Outer
<1>z. PICK k, i, s : /\ k = log_start[n] - 1 /\ i = Len(committed)
                     /\ s = SubSeq(log[n], 1, k)
  OBVIOUS
<1>n. /\ k \in Nat /\ i \in Nat /\ committed \in Seq(Nat) /\ log[n] \in Seq(Nat)
      /\ Len(log[n]) \in Nat /\ log_start[n] \in Nat /\ snapshot[n].durable \in Nat
  BY <1>c, <1>z, Typed DEF CommittedHolds, LeaderTypes
<1>2. log_start[n] <= snapshot[n].durable + 1
  BY <1>c, <1>n DEF SnapshotsHold
<1>3. k <= Len(log[n]) /\ k <= i /\ \A j \in 1 .. k : log[n][j] = committed[j]
  <2>1. CASE k = 0
    BY <1>n, <2>1
  <2>2. CASE k > 0
    <3>1. PICK u, t : u = log[n][k] /\ t = committed[i]
      OBVIOUS
    <3>2. k \in 1 .. Len(log[n]) /\ k <= i /\ Chosen(vh, ak, u, k)
      BY <1>c, <1>z, <2>2, <3>1 DEF SnapshotsHold, Fixed
    <3>3. /\ t \in DOMAIN el /\ Own(hl, t, i) /\ Chosen(vh, ak, t, i)
          /\ \A j \in 1 .. i : committed[j] = hl[t][j]
      <4>1. i \in 1 .. Len(committed) /\ i = Len(committed)
        BY <1>n, <1>z, <2>2, <3>2
      <4> QED
        BY <1>c, <3>1, <4>1 DEF CommittedHolds
    <3>4. Traced(el, hl, log[n]) /\ k \in 1 .. k
      BY <1>c, <1>n, <2>2 DEF Logs
    <3>5. /\ u \in DOMAIN el /\ k <= Len(hl[u]) /\ hl[u][k] = u
          /\ \A j \in 1 .. k : log[n][j] = hl[u][j]
      BY <3>1, <3>2, <3>4 DEF Traced
    <3>6. u \in Nat /\ t \in Nat /\ Own(hl, u, k)
      BY <1>c, <3>2, <3>3, <3>5, Typed DEF Own
    <3>7. /\ Choosable(vh, ak, voters, term, u, k)
          /\ Choosable(vh, ak, voters, term, t, i)
      BY <1>c, <3>2, <3>3, ChosenIsChoosable
    <3>8. \A j \in 1 .. k : j \in 1 .. i
      BY <1>n, <3>2
    <3>9. CASE u = t
      BY <3>2, <3>3, <3>5, <3>8, <3>9
    <3>10. CASE u < t
      <4>1. Has(hl[t], k, u)
        BY <1>c, <1>n, <3>10, <3>3, <3>5, <3>6, <3>7 DEF Complete
      <4>2. Traced(el, hl, hl[t])
        BY <1>c, <3>3 DEF Chronicle
      <4>3. \A j \in 1 .. k : hl[t][j] = hl[u][j]
        BY <4>1, <4>2 DEF Has, Traced
      <4> QED
        BY <3>2, <3>3, <3>5, <3>8, <4>3
    <3>11. CASE t < u
      <4>1. i <= el[u].base /\ el[u].base \in Int
        BY <1>c, <1>n, <3>11, <3>3, <3>5, <3>6, <3>7 DEF Complete, Chronicle
      <4>2. k > el[u].base
        BY <1>c, <3>5, <3>6 DEF Chronicle, Own
      <4> QED
        BY <1>n, <3>2, <4>1, <4>2
    <3> QED
      BY <3>10, <3>11, <3>6, <3>9
  <2> QED
    BY <1>n, <2>1, <2>2
<1>4. s \in Seq(Nat) /\ Len(s) = k /\ \A j \in 1 .. k : s[j] = log[n][j]
  <2>1. \A j \in 1 .. k : log[n][j] \in Nat
    BY <1>3, <1>n, EntryOf
  <2>2. /\ SubSeq(log[n], 1, k) \in Seq(Nat)
        /\ Len(SubSeq(log[n], 1, k)) = IF 1 <= k THEN k - 1 + 1 ELSE 0
        /\ \A j \in 1 .. k - 1 + 1 : SubSeq(log[n], 1, k)[j] = log[n][1 + j - 1]
    BY <1>n, <2>1, SubSeqProperties
  <2>3. Len(SubSeq(log[n], 1, k)) = k
    BY <1>n, <2>2
  <2>4. \A j \in 1 .. k : SubSeq(log[n], 1, k)[j] = log[n][j]
    BY <1>n, <2>2
  <2> QED
    BY <1>z, <2>2, <2>3, <2>4
<1>5. SubSeq(s, 1, k) = SubSeq(committed, 1, k)
  BY <1>3, <1>4, <1>n, <1>z, EqualPrefixes
<1>6. IsPrefix(s, committed)
  BY <1>3, <1>4, <1>5, <1>z DEF IsPrefix
<1> QED
  BY <1>2, <1>6, <1>z
----------------------------------------------------------------------------
\* A request goes to a node, and carries a term.
Addressed == \A m \in wire : m.to \in Node /\ m.term \in Nat

(***************************************************************************)
(* The votes and what moves terms, whatever happens to the logs.           *)
(***************************************************************************)
VotesInv == (\E el, vh : Ballot(el, vh)) /\ Addressed

\* Requests are sent by nodes.
LEMMA StepAddressed ==
  ASSUME term \in [Node -> Nat], Addressed, [Next]_vars
  PROVE  Addressed'
<1>1. ASSUME NEW n \in Node, NEW f \in Node, NEW prev, SendAppend(n, f, prev)
      PROVE  Addressed'
  <2>1. PICK q : q.to = f /\ q.term = term[n] /\ wire' = wire \cup {q}
    <3> DEFINE r == [from |-> n, to |-> f, term |-> term[n], prev |-> prev,
                     prev_term |-> IF prev = 0 THEN 0 ELSE log[n][prev],
                     new |-> SubSeq(log[n], prev + 1, Len(log[n]))]
    <3>1. r.to = f /\ r.term = term[n] /\ wire' = wire \cup {r}
      BY <1>1 DEF SendAppend
    <3> HIDE DEF r
    <3> QED
      BY <3>1
  <2> QED
    BY <2>1 DEF Addressed
<1>2. ASSUME wire' \subseteq wire PROVE Addressed'
  BY <1>2 DEF Addressed
<1>3. ASSUME NEW m \in wire, DeliverAppend(m) \/ DropAppend(m) PROVE Addressed'
  <2>1. wire' = wire \ {m}
    BY <1>3 DEF DeliverAppend, DropAppend
  <2> QED
    BY <1>2, <2>1
<1>4. ASSUME NEW n \in Node,
             \/ Campaign(n) \/ BecomeLeader(n) \/ Propose(n)
             \/ BeginRead(n) \/ ServeRead(n)
             \/ TakeSnapshot(n) \/ MarkDurable(n) \/ DiscardBelow(n) \/ Crash(n)
      PROVE  wire' = wire
  BY <1>4 DEF Campaign, BecomeLeader, Propose, BeginRead, ServeRead, TakeSnapshot, MarkDurable,
              DiscardBelow, Crash, logVars
<1>5. ASSUME NEW n \in Node, NEW f \in Node,
             RequestVote(f, n) \/ Confirm(n, f) \/ Promote(n, f) \/ InstallSnapshot(n, f)
      PROVE  wire' = wire
  BY <1>5 DEF RequestVote, Confirm, Promote, InstallSnapshot, logVars
<1>6. ASSUME NEW n \in Node, NEW i, TryAdvance(n, i) \/ CommitPriorViaCurrent(n, i)
      PROVE  wire' = wire
  BY <1>6 DEF TryAdvance, CommitPriorViaCurrent, CommitTo
<1>7. ASSUME UNCHANGED vars PROVE wire' = wire
  BY <1>7 DEF vars, logVars
<1> QED
  BY <1>1, <1>2, <1>3, <1>4, <1>5, <1>6, <1>7 DEF Next

\* Every step keeps the votes consistent.
LEMMA StepVotes ==
  ASSUME MajoritiesMeet, VotesInv, [Next]_vars
  PROVE  VotesInv'
<1>p. PICK el, vh : Ballot(el, vh)
  BY DEF VotesInv
<1>n. /\ term \in [Node -> Nat] /\ \A n \in Node : term[n] \in Nat
      /\ \A m \in wire : m.to \in Node /\ m.term \in Nat
  BY <1>p DEF Ballot, BallotTypes, VotesInv, Addressed
<1>a. Addressed'
  BY <1>n, StepAddressed DEF VotesInv
<1>f. ASSUME NEW v, NEW t, Followed(v, t) PROVE VotesInv'
  BY <1>a, <1>f, <1>p, FollowedBallot DEF VotesInv
<1>s. ASSUME UNCHANGED electionVars PROVE VotesInv'
  BY <1>a, <1>p, <1>s, SameBallot DEF VotesInv
<1>1. ASSUME UNCHANGED vars PROVE VotesInv'
  BY <1>1, <1>s DEF vars
<1>2. ASSUME NEW n \in Node,
             \/ Campaign(n) \/ BecomeLeader(n) \/ Propose(n)
             \/ BeginRead(n) \/ ServeRead(n)
             \/ TakeSnapshot(n) \/ MarkDurable(n) \/ DiscardBelow(n) \/ Crash(n)
      PROVE  VotesInv'
  <2>1. CASE Campaign(n)
    BY <1>a, <1>p, <2>1, CampaignBallot DEF VotesInv
  <2>2. CASE BecomeLeader(n)
    <3>1. PICK el2 : el2 = Elected(el, n)
      OBVIOUS
    <3>2. Ballot(el2, vh)'
      BY <1>p, <2>2, <3>1, LeadBallot
    <3> QED
      BY <1>a, <3>2 DEF VotesInv
  <2>3. CASE Crash(n)
    <3>1. Followed(n, term[n])
      BY <1>n, <2>3 DEF Crash, Followed
    <3> QED
      BY <1>f, <3>1
  <2>4. CASE \/ Propose(n) \/ BeginRead(n) \/ ServeRead(n)
             \/ TakeSnapshot(n) \/ MarkDurable(n) \/ DiscardBelow(n)
    BY <1>s, <2>4 DEF Propose, BeginRead, ServeRead, TakeSnapshot, MarkDurable, DiscardBelow
  <2> QED
    BY <1>2, <2>1, <2>2, <2>3, <2>4
<1>3. ASSUME NEW n \in Node, NEW f \in Node,
             \/ RequestVote(f, n) \/ Confirm(n, f) \/ Promote(n, f) \/ InstallSnapshot(n, f)
             \/ \E prev \in 0 .. MaxLog : SendAppend(n, f, prev)
      PROVE  VotesInv'
  <2>1. CASE RequestVote(f, n)
    BY <1>a, <1>p, <2>1, VoteBallot DEF VotesInv
  <2>2. CASE Confirm(n, f)
    <3>1. Followed(f, term[n])
      BY <1>n, <2>2 DEF Confirm, Confirms, Followed
    <3> QED
      BY <1>f, <3>1
  <2>3. CASE Promote(n, f)
    <3>1. PICK vh2 : vh2 = vh \cup {voters'}
      OBVIOUS
    <3>2. Ballot(el, vh2)'
      BY <1>p, <2>3, <3>1, PromoteBallot
    <3> QED
      BY <1>a, <3>2 DEF VotesInv
  <2>4. CASE InstallSnapshot(n, f)
    <3>1. Followed(f, term[n])
      BY <1>n, <2>4 DEF InstallSnapshot, Followed
    <3> QED
      BY <1>f, <3>1
  <2>5. CASE \E prev \in 0 .. MaxLog : SendAppend(n, f, prev)
    BY <1>s, <2>5 DEF SendAppend
  <2> QED
    BY <1>3, <2>1, <2>2, <2>3, <2>4, <2>5
<1>4. ASSUME NEW n \in Node, NEW i \in 1 .. MaxLog,
             TryAdvance(n, i) \/ CommitPriorViaCurrent(n, i)
      PROVE  VotesInv'
  BY <1>4, <1>s DEF TryAdvance, CommitPriorViaCurrent, CommitTo
<1>5. ASSUME NEW m \in wire, DeliverAppend(m) \/ DropAppend(m)
      PROVE  VotesInv'
  <2>1. CASE m.term >= term[m.to] /\ DeliverAppend(m) /\ ~ UNCHANGED electionVars
    <3>1. Followed(m.to, m.term)
      BY <1>n, <2>1 DEF DeliverAppend, Followed
    <3> QED
      BY <1>f, <3>1
  <2>2. CASE UNCHANGED electionVars
    BY <1>s, <2>2
  <2> QED
    BY <1>5, <2>1, <2>2 DEF DeliverAppend, DropAppend
<1> QED
  BY <1>1, <1>2, <1>3, <1>4, <1>5 DEF Next

\* The votes say who leads.
LEMMA OneLeader ==
  VotesInv => OneLeaderPerTerm
  BY DEF VotesInv, Ballot, Elections, OneLeaderPerTerm

\* A lapse is not forgotten.
LEMMA LapsesStay ==
  ASSUME [Next]_vars, lapses # {}
  PROVE  lapses' # {}
<1>1. ASSUME NEW n \in Node,
             \/ Campaign(n) \/ BecomeLeader(n) \/ Propose(n)
             \/ BeginRead(n) \/ ServeRead(n)
             \/ TakeSnapshot(n) \/ MarkDurable(n) \/ DiscardBelow(n) \/ Crash(n)
      PROVE  lapses' = lapses
  BY <1>1 DEF Campaign, BecomeLeader, Propose, BeginRead, ServeRead, TakeSnapshot, MarkDurable,
              DiscardBelow, Crash, logVars
<1>2. ASSUME NEW n \in Node, NEW f \in Node,
             \/ RequestVote(f, n) \/ Confirm(n, f) \/ Promote(n, f) \/ InstallSnapshot(n, f)
             \/ \E prev \in 0 .. MaxLog : SendAppend(n, f, prev)
      PROVE  lapses' = lapses
  BY <1>2 DEF RequestVote, Confirm, Promote, InstallSnapshot, SendAppend, logVars
<1>3. ASSUME NEW n \in Node, NEW i, TryAdvance(n, i) \/ CommitPriorViaCurrent(n, i)
      PROVE  lapses \subseteq lapses'
  <2>1. lapses' = IF Replicated(n, i) THEN lapses ELSE lapses \cup {"forced"}
    BY <1>3 DEF TryAdvance, CommitPriorViaCurrent, CommitTo
  <2> QED
    BY <2>1
<1>4. ASSUME NEW m \in wire, DeliverAppend(m) \/ DropAppend(m)
      PROVE  lapses \subseteq lapses'
  <2>1. \/ lapses' = lapses
        \/ lapses' = IF Cuts(m.to, m) THEN lapses \cup {"cut"} ELSE lapses
    BY <1>4 DEF DeliverAppend, DropAppend
  <2> QED
    BY <2>1
<1>5. ASSUME UNCHANGED vars PROVE lapses' = lapses
  BY <1>5 DEF vars, logVars
<1> QED
  BY <1>1, <1>2, <1>3, <1>4, <1>5 DEF Next
----------------------------------------------------------------------------
(***************************************************************************)
(* Some past explains every reachable state, as long as nothing was cut    *)
(* or forced: the invariant that three of the theorems below rest on.      *)
(***************************************************************************)
THEOREM QuorumInvariant ==
  ASSUME MajoritiesMeet
  PROVE  Spec => [](lapses = {} => IInv)
<1>1. Init => (lapses = {} => IInv)
  BY InitIInv
<1>2. (lapses = {} => IInv) /\ [Next]_vars => (lapses = {} => IInv)'
  BY StepIInv, LapsesStay
<1> QED
  BY <1>1, <1>2, PTL DEF Spec

(***************************************************************************)
(* A term has at most one leader, whoever is promoted, restarts or asks    *)
(* for votes at the same time (Election.request_vote, Election.won), and   *)
(* whatever becomes of the logs.                                           *)
(***************************************************************************)
THEOREM TermsHaveOneLeader ==
  ASSUME MajoritiesMeet
  PROVE  Spec => []OneLeaderPerTerm
<1>1. Init => VotesInv
  <2> SUFFICES ASSUME Init PROVE VotesInv
    OBVIOUS
  <2>1. PICK el : DOMAIN el = {}
    <3> DEFINE none == [x \in {} |-> x]
    <3>1. DOMAIN none = {}
      OBVIOUS
    <3> HIDE DEF none
    <3> QED
      BY <3>1
  <2>2. PICK vh : vh = {voters}
    OBVIOUS
  <2>3. Ballot(el, vh)
    BY <2>1, <2>2, InitBallot
  <2> QED
    BY <2>3 DEF VotesInv, Addressed, Init
<1>2. VotesInv /\ [Next]_vars => VotesInv'
  BY StepVotes
<1> QED
  BY <1>1, <1>2, OneLeader, PTL DEF Spec

(***************************************************************************)
(* What a leader committed with a majority behind it is in the log of the  *)
(* newest leader, and logs never disagree below a shared entry, until an   *)
(* append takes entries of its own leader with it or a carrier is          *)
(* committed that no majority holds (FollowerLog.append,                   *)
(* CommitIndex.try_advance, commit_prior_via_current).                     *)
(***************************************************************************)
THEOREM QuorumLogsAreSafe ==
  ASSUME MajoritiesMeet
  PROVE  Spec => []LogsAreSafe
<1>1. (lapses = {} => IInv) => LogsAreSafe
  BY Completeness, Matching DEF LogsAreSafe
<1> QED
  BY <1>1, QuorumInvariant, PTL

(***************************************************************************)
(* A read that may be served reflects everything committed before it       *)
(* began, by this leader or by one that deposed it, if this leader had     *)
(* committed an entry of its term (ReadIndex.begin_read, ReadIndex.serve). *)
(***************************************************************************)
THEOREM QuorumReadsAreFresh ==
  ASSUME MajoritiesMeet
  PROVE  Spec => []ReadsAreFresh
<1>1. (lapses = {} => IInv) => ReadsAreFresh
  BY FreshReads DEF ReadsAreFresh
<1> QED
  BY <1>1, QuorumInvariant, PTL

(***************************************************************************)
(* Snapshots hold committed entries only, and what was discarded from a    *)
(* log is in one that survives a crash (SnapshotManager.discard_below,     *)
(* SnapshotInstaller.install), as long as nothing was cut or forced.       *)
(***************************************************************************)
THEOREM QuorumSnapshotsCover ==
  ASSUME MajoritiesMeet
  PROVE  Spec => []SnapshotsCover
<1>1. (lapses = {} => IInv) => SnapshotsCover
  BY Covering DEF SnapshotsCover
<1> QED
  BY <1>1, QuorumInvariant, PTL
=============================================================================
