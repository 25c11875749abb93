--------------------------- MODULE MetadataQuorum ---------------------------
(***************************************************************************)
(* The metadata quorum, put together as examples/consensusday.py does:     *)
(* pre-vote and vote (prevote.py, quorumvote.py), log replication          *)
(* (logmatching.py), the commit rule (commitindex.py), linearizable reads  *)
(* (readindex.py), observers and their promotion (quorumobserver.py),      *)
(* snapshots and their installation (metadatasnapshot.py,                  *)
(* snapshotinstall.py), and the fence each node keeps against stale terms  *)
(* (controllerepoch.py).                                                   *)
(*                                                                         *)
(* An entry is its term: one term has one leader, so index and term name   *)
(* an entry.  log[n] is what node n's state holds; the entries below       *)
(* log_start[n] are there only as part of a snapshot.                      *)
(***************************************************************************)
EXTENDS Integers, Sequences, SequencesExt, FiniteSetsExt

CONSTANTS
  Node,
  InitialVoters,      \* the voter sets a quorum may start with
  None,
  MaxPromoteLag,      \* max_promote_lag
  MaxTerm,            \* bound: terms
  MaxLog,             \* bound: entries of a log
  MaxWire,            \* bound: append requests under way at once
  MaxExtras           \* bound: reads, promotions, snapshots and crashes, together

ASSUME QuorumAssumption ==
  /\ IsFiniteSet(Node)
  /\ InitialVoters \subseteq SUBSET Node /\ {} \notin InitialVoters
  /\ MaxPromoteLag \in Nat
  /\ MaxTerm \in Nat /\ MaxLog \in Nat /\ MaxWire \in Nat /\ MaxExtras \in Nat

VARIABLES
  voters,         \* QuorumMembership.voters; the others observe
  term,           \* the highest term each node voted in or heard of
  role,           \* "follower", "candidate" or "leader"
  electorate,     \* the voters an Election was started with
  granted,        \* Election.granted of a candidate
  log,            \* FollowerLog.entries, the leader's log too
  match,          \* what a leader knows each node to hold
  commit_index,   \* CommitIndex of a leader
  wire,           \* append requests under way: they may get lost or overtake each other
  read,           \* the ReadIndex of a leader, or None
  snapshot,       \* SnapshotManager: [offset, durable], the latest one and the latest on disk
  log_start,
  extras,         \* how many reads, promotions, snapshots and crashes there were
  committed,      \* history: the longest log prefix a majority held when a leader committed it
  lapses          \* history: what the methods let happen though it can undo a commit

electionVars == <<voters, term, role, electorate, granted>>
leaderVars   == <<match, commit_index, read>>
logVars      == <<log, wire, committed, lapses>>
snapVars     == <<snapshot, log_start>>
vars         == <<electionVars, leaderVars, logVars, snapVars, extras>>

NoMatch == [n \in Node |-> 0]

Init ==
  /\ voters \in InitialVoters
  /\ term = [n \in Node |-> 0]
  /\ role = [n \in Node |-> "follower"]
  /\ electorate = [n \in Node |-> {}]
  /\ granted = [n \in Node |-> {}]
  /\ log = [n \in Node |-> <<>>]
  /\ match = [n \in Node |-> NoMatch]
  /\ commit_index = [n \in Node |-> 0]
  /\ wire = {}
  /\ read = [n \in Node |-> None]
  /\ snapshot = [n \in Node |-> [offset |-> 0, durable |-> 0]]
  /\ log_start = [n \in Node |-> 1]
  /\ extras = 0
  /\ committed = <<>>
  /\ lapses = {}
----------------------------------------------------------------------------
Majority(nodes) == Cardinality(nodes) \div 2 + 1

IsMajority(nodes) == Cardinality(nodes \cap voters) >= Majority(voters)

\* What a majority is known to hold, as a leader counts it.
Replicated(l, i) == IsMajority({n \in Node : match[l][n] >= i})

\* Bound: the last term elects a leader and does no more.
InBounds(n) == term[n] < MaxTerm

\* A read, a promotion, a snapshot or a crash, within the bounds.
Extra(n) ==
  /\ extras < MaxExtras
  /\ InBounds(n)
  /\ extras' = extras + 1

LastTerm(l) == IF l = <<>> THEN 0 ELSE Last(l)

\* LogEnd.at_least_as_current_as
AtLeastAsCurrent(mine, other) ==
  \/ LastTerm(mine) > LastTerm(other)
  \/ LastTerm(mine) = LastTerm(other) /\ Len(mine) >= Len(other)

\* PreVote: nobody's term moves before a majority would vote.  That a peer has not heard
\* from a leader recently is up to its clock.
Warranted(c) == IsMajority({p \in Node : AtLeastAsCurrent(log[c], log[p])})

\* A node follows a term: what belonged to its own candidacy or leadership is gone.
Follow(n, t) ==
  /\ term' = [term EXCEPT ![n] = t]
  /\ role' = [role EXCEPT ![n] = "follower"]
  /\ electorate' = [electorate EXCEPT ![n] = {}]

Campaign(c) ==
  /\ c \in voters
  /\ role[c] # "leader"
  /\ term[c] < MaxTerm
  /\ Warranted(c)
  /\ term' = [term EXCEPT ![c] = @ + 1]
  /\ role' = [role EXCEPT ![c] = "candidate"]
  /\ electorate' = [electorate EXCEPT ![c] = voters]
  /\ granted' = [granted EXCEPT ![c] = {c}]
  /\ UNCHANGED <<voters, leaderVars, logVars, snapVars, extras>>

\* Election.request_vote: one vote per term, spent even when it is refused.  The candidate
\* asks those who were voters when it began.
Grants(v, c) == AtLeastAsCurrent(log[c], log[v])

RequestVote(v, c) ==
  /\ role[c] = "candidate"
  /\ v \in electorate[c]
  /\ term[v] < term[c]
  /\ Follow(v, term[c])
  /\ granted' = [granted EXCEPT ![v] = {}, ![c] = IF Grants(v, c) THEN @ \cup {v} ELSE @]
  /\ match' = [match EXCEPT ![v] = NoMatch]
  /\ commit_index' = [commit_index EXCEPT ![v] = 0]
  /\ read' = [read EXCEPT ![v] = None]
  /\ UNCHANGED <<voters, logVars, snapVars, extras>>

\* A plausible slip: half of the voters is taken for a majority.
WonByHalf(c) == 2 * Cardinality(granted[c]) >= Cardinality(electorate[c])

Won(c) == Cardinality(granted[c]) >= Majority(electorate[c])

\* A new leader starts a CommitIndex of its term, and knows only what it holds itself.
BecomeLeader(c) ==
  /\ role[c] = "candidate"
  /\ Won(c)
  /\ role' = [role EXCEPT ![c] = "leader"]
  /\ electorate' = [electorate EXCEPT ![c] = {}]
  /\ granted' = [granted EXCEPT ![c] = {}]
  /\ match' = [match EXCEPT ![c][c] = Len(log[c])]
  /\ UNCHANGED <<voters, term, commit_index, read, logVars, snapVars, extras>>

\* ControllerFencer.apply_change at the leader itself: a change becomes an entry.
Propose(l) ==
  /\ role[l] = "leader"
  /\ Len(log[l]) < MaxLog /\ InBounds(l)
  /\ log' = [log EXCEPT ![l] = Append(@, term[l])]
  /\ match' = [match EXCEPT ![l][l] = Len(log[l]) + 1]
  /\ UNCHANGED <<electionVars, commit_index, read, wire, committed, lapses, snapVars, extras>>
----------------------------------------------------------------------------
\* The leader sends what follows an index it still holds (or its snapshot ends with), not
\* below what the follower is known to hold.
SendAppend(l, f, prev) ==
  /\ role[l] = "leader"
  /\ f # l
  /\ Cardinality(wire) < MaxWire /\ InBounds(l)
  /\ prev \in Max({log_start[l] - 1, match[l][f]}) .. Len(log[l]) - 1
  /\ wire' = wire \cup {[from |-> l, to |-> f, term |-> term[l], prev |-> prev,
                         prev_term |-> IF prev = 0 THEN 0 ELSE log[l][prev],
                         new |-> SubSeq(log[l], prev + 1, Len(log[l]))]}
  /\ UNCHANGED <<electionVars, leaderVars, log, committed, lapses, snapVars, extras>>

\* FollowerLog.append: the entry before the batch must agree.
Agrees(f, m) ==
  \/ m.prev = 0
  \/ m.prev <= Len(log[f]) /\ log[f][m.prev] = m.prev_term

Appended(f, m) == SubSeq(log[f], 1, m.prev) \o m.new

\* The tail goes whether it diverged or not: an older request of the same leader takes
\* entries with it that came by a newer one and were counted.
Cuts(f, m) ==
  Agrees(f, m) /\ \E i \in m.prev + Len(m.new) + 1 .. Len(log[f]) : log[f][i] = m.term

(***************************************************************************)
(* ControllerFencer: a request of an older term is fenced, one of a newer  *)
(* term is a takeover.  On agreement the tail is replaced and the leader   *)
(* hears of it; on a mismatch it hears nothing and steps back.             *)
(***************************************************************************)
DeliverAppend(m) ==
  LET f == m.to
  IN  /\ wire' = wire \ {m}
      /\ \/ /\ m.term < term[f]
            /\ UNCHANGED <<electionVars, leaderVars, log, lapses>>
         \/ /\ m.term >= term[f]
            /\ Follow(f, m.term)
            /\ granted' = [granted EXCEPT ![f] = {}]
            /\ commit_index' = [commit_index EXCEPT ![f] = 0]
            /\ read' = [read EXCEPT ![f] = None]
            /\ log' = IF Agrees(f, m) THEN [log EXCEPT ![f] = Appended(f, m)] ELSE log
            /\ match' = [match EXCEPT ![f] = NoMatch,
                 ![m.from] = IF Agrees(f, m) /\ role[m.from] = "leader" /\ term[m.from] = m.term
                             THEN [@ EXCEPT ![f] = m.prev + Len(m.new)] ELSE @]
            /\ lapses' = IF Cuts(f, m) THEN lapses \cup {"cut"} ELSE lapses
            /\ UNCHANGED voters
      /\ UNCHANGED <<committed, snapVars, extras>>

DropAppend(m) ==
  /\ wire' = wire \ {m}
  /\ UNCHANGED <<electionVars, leaderVars, log, committed, lapses, snapVars, extras>>

CommitTo(l, i) ==
  /\ commit_index' = [commit_index EXCEPT ![l] = Max({@, i})]
  /\ committed' = IF Replicated(l, i) /\ i > Len(committed) THEN SubSeq(log[l], 1, i) ELSE committed
  /\ lapses' = IF Replicated(l, i) THEN lapses ELSE lapses \cup {"forced"}
  /\ UNCHANGED <<electionVars, match, read, log, wire, snapVars, extras>>

\* A plausible slip: an entry of an earlier term counts as soon as a majority holds it.
CommittableOfAnyTerm(l, i) == Replicated(l, i)

\* CommitIndex.try_advance: a majority holds it and it is of the leader's own term.
Committable(l, i) == Replicated(l, i) /\ log[l][i] = term[l]

TryAdvance(l, i) ==
  /\ role[l] = "leader"
  /\ i \in commit_index[l] + 1 .. Len(log[l])
  /\ Committable(l, i)
  /\ CommitTo(l, i)

\* CommitIndex.commit_prior_via_current checks the term of the carrier, and not that a
\* majority holds it.
CommitPriorViaCurrent(l, i) ==
  /\ role[l] = "leader"
  /\ i \in commit_index[l] + 1 .. Len(log[l])
  /\ log[l][i] = term[l]
  /\ CommitTo(l, i)
----------------------------------------------------------------------------
\* ReadIndex.begin_read: the index is what this leader committed, 0 before its first commit.
BeginRead(l) ==
  /\ role[l] = "leader"
  /\ read[l] = None
  /\ Extra(l)
  /\ read' = [read EXCEPT ![l] =
       [index |-> commit_index[l], confirmed |-> {l}, floor |-> Len(committed)]]
  /\ UNCHANGED <<electionVars, match, commit_index, logVars, snapVars>>

\* A plausible slip: any answer to the heartbeat counts, of whatever term.
ConfirmsAlways(v, l) == TRUE

\* ReadIndex.confirm: a voter that has not moved to a newer term answers the heartbeat.
Confirms(v, l) == term[v] <= term[l]

Confirm(l, v) ==
  /\ read[l] # None
  /\ v \in voters \ read[l].confirmed
  /\ Confirms(v, l)
  /\ Follow(v, term[l])
  /\ granted' = [granted EXCEPT ![v] = {}]
  /\ match' = [match EXCEPT ![v] = NoMatch]
  /\ commit_index' = [commit_index EXCEPT ![v] = 0]
  /\ read' = [read EXCEPT ![v] = None, ![l].confirmed = @ \cup {v}]
  /\ UNCHANGED <<voters, logVars, snapVars, extras>>

\* ReadIndex.serve; what the leader applied is what it committed.
Servable(l) ==
  IF read[l] = None THEN FALSE
  ELSE IsMajority(read[l].confirmed) /\ commit_index[l] >= read[l].index

ServeRead(l) ==
  /\ Servable(l)
  /\ read' = [read EXCEPT ![l] = None]
  /\ UNCHANGED <<electionVars, match, commit_index, logVars, snapVars, extras>>
----------------------------------------------------------------------------
\* QuorumMembership.promote, by the leader: its observer is close enough.
Promote(l, b) ==
  /\ role[l] = "leader"
  /\ b \notin voters
  /\ Len(log[l]) - match[l][b] <= MaxPromoteLag
  /\ voters' = voters \cup {b}
  /\ Extra(l)
  /\ UNCHANGED <<term, role, electorate, granted, leaderVars, logVars, snapVars>>

\* SnapshotManager.take, of the committed state.
TakeSnapshot(n) ==
  /\ commit_index[n] > snapshot[n].offset
  /\ snapshot' = [snapshot EXCEPT ![n].offset = commit_index[n]]
  /\ Extra(n)
  /\ UNCHANGED <<electionVars, leaderVars, logVars, log_start>>

MarkDurable(n) ==
  /\ snapshot[n].durable # snapshot[n].offset
  /\ snapshot' = [snapshot EXCEPT ![n].durable = snapshot[n].offset]
  /\ UNCHANGED <<electionVars, leaderVars, logVars, log_start, extras>>

\* A plausible slip: the log is cut as soon as the snapshot is taken.
MayDiscardAtOnce(n) == TRUE

MayDiscard(n) == snapshot[n].durable = snapshot[n].offset

DiscardBelow(n) ==
  /\ MayDiscard(n)
  /\ log_start[n] < snapshot[n].offset + 1
  /\ log_start' = [log_start EXCEPT ![n] = snapshot[n].offset + 1]
  /\ UNCHANGED <<electionVars, leaderVars, logVars, snapshot, extras>>

\* SnapshotInstaller: a follower whose position is before what the leader retains gets its
\* snapshot, unless that is behind it or past the leader's log.
NeedsSnapshot(l, f) ==
  /\ Len(log[f]) < log_start[l]
  /\ snapshot[l].offset \in Len(log[f]) + 1 .. Len(log[l])

InstallSnapshot(l, f) ==
  /\ role[l] = "leader"
  /\ f # l
  /\ term[f] <= term[l]
  /\ NeedsSnapshot(l, f)
  /\ Follow(f, term[l])
  /\ granted' = [granted EXCEPT ![f] = {}]
  /\ log' = [log EXCEPT ![f] = SubSeq(log[l], 1, snapshot[l].offset)]
  /\ match' = [match EXCEPT ![f] = NoMatch, ![l][f] = snapshot[l].offset]
  /\ commit_index' = [commit_index EXCEPT ![f] = 0]
  /\ read' = [read EXCEPT ![f] = None]
  /\ snapshot' = [snapshot EXCEPT ![f] =
       [offset |-> snapshot[l].offset, durable |-> snapshot[l].offset]]
  /\ log_start' = [log_start EXCEPT ![f] = snapshot[l].offset + 1]
  /\ UNCHANGED <<voters, wire, committed, lapses, extras>>

\* A node restarts with its term, its log from log_start on, and a durable snapshot.  The
\* crash of a follower with nothing else to lose changes nothing.
Crash(n) ==
  /\ role[n] # "follower" \/ snapshot[n].durable # snapshot[n].offset
  /\ Extra(n)
  /\ Follow(n, term[n])
  /\ granted' = [granted EXCEPT ![n] = {}]
  /\ match' = [match EXCEPT ![n] = NoMatch]
  /\ commit_index' = [commit_index EXCEPT ![n] = 0]
  /\ read' = [read EXCEPT ![n] = None]
  /\ snapshot' = [snapshot EXCEPT ![n].offset = snapshot[n].durable]
  /\ UNCHANGED <<voters, logVars, log_start>>

Next ==
  \/ \E n \in Node :
       \/ Campaign(n) \/ BecomeLeader(n) \/ Propose(n)
       \/ BeginRead(n) \/ ServeRead(n)
       \/ TakeSnapshot(n) \/ MarkDurable(n) \/ DiscardBelow(n) \/ Crash(n)
  \/ \E n \in Node, f \in Node :
       \/ RequestVote(f, n) \/ Confirm(n, f) \/ Promote(n, f) \/ InstallSnapshot(n, f)
       \/ \E prev \in 0 .. MaxLog : SendAppend(n, f, prev)
  \/ \E n \in Node, i \in 1 .. MaxLog : TryAdvance(n, i) \/ CommitPriorViaCurrent(n, i)
  \/ \E m \in wire : DeliverAppend(m) \/ DropAppend(m)

Spec == Init /\ [][Next]_vars
----------------------------------------------------------------------------
(***************************************************************************)
(* A term has at most one leader, whoever is promoted, restarts or asks    *)
(* for votes at the same time.                                             *)
(***************************************************************************)
OneLeaderPerTerm ==
  \A a, b \in Node :
    role[a] = "leader" /\ role[b] = "leader" /\ term[a] = term[b] => a = b

(***************************************************************************)
(* The leader of the newest term holds every entry a leader committed with *)
(* a majority behind it: "the winner's log contains every record that any  *)
(* majority committed".                                                    *)
(***************************************************************************)
LeaderCompleteness ==
  \A l \in Node :
    role[l] = "leader" /\ (\A n \in Node : term[n] <= term[l]) => IsPrefix(committed, log[l])

(***************************************************************************)
(* Two logs with the same term at an index are equal up to it, through     *)
(* truncations, stale leaders and installed snapshots.                     *)
(***************************************************************************)
LogMatching ==
  \A a, b \in Node : \A i \in DOMAIN log[a] \cap DOMAIN log[b] :
    log[a][i] = log[b][i] => SubSeq(log[a], 1, i) = SubSeq(log[b], 1, i)

(***************************************************************************)
(* What was committed stays, and logs never disagree below a shared entry  *)
(* (FollowerLog.append, CommitIndex.try_advance): for all appends that are *)
(* late, lost or overtaken by others, until one takes entries of its own   *)
(* leader with it, and until a carrier is committed that no majority       *)
(* holds.  The code admits both.                                           *)
(***************************************************************************)
LogsAreSafe == lapses = {} => LeaderCompleteness /\ LogMatching

(***************************************************************************)
(* A read that may be served reflects everything committed before it began,*)
(* by this leader or by one that has deposed it in the meantime, if this   *)
(* leader had committed an entry of its term when it began; before that    *)
(* its commit index says nothing of its predecessors' commits.             *)
(***************************************************************************)
ReadsAreFresh ==
  lapses = {} =>
    \A l \in Node : Servable(l) => read[l].index = 0 \/ read[l].index >= read[l].floor

(***************************************************************************)
(* A snapshot holds committed state only, and an entry that was discarded  *)
(* from a log is in a snapshot that survives a crash.                      *)
(***************************************************************************)
SnapshotsCover ==
  lapses = {} =>
    \A n \in Node :
      /\ IsPrefix(SubSeq(log[n], 1, log_start[n] - 1), committed)
      /\ log_start[n] <= snapshot[n].durable + 1
=============================================================================
