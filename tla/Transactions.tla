---------------------------- MODULE Transactions ----------------------------
(***************************************************************************)
(* Transactions over several partitions: the coordinator and its fence     *)
(* (txncoordinator.py, zombiefence.py), the start-up handshake             *)
(* (txninit.py), a transaction's life (transactions.py), its markers       *)
(* (commitmarkers.py, controlrecords.py), and what a read-committed        *)
(* consumer is shown (laststableoffset.py, isolation.py, abortedindex.py,  *)
(* aborttransaction.py).                                                   *)
(*                                                                         *)
(* An instance of a producer is the epoch it registered at: an instance    *)
(* that was replaced keeps running, as a zombie.  The high watermark of a  *)
(* partition is the end of its log.                                        *)
(***************************************************************************)
EXTENDS Naturals, Sequences, FiniteSetsExt

CONSTANTS
  Id, Partition, None,
  MaxTxns,      \* bound: transactions begun, over all ids
  MaxWrites,    \* bound: records written, over all partitions
  MaxInstances, \* bound: producer instances started, over all ids
  MaxCrashes    \* bound: coordinator crashes

ASSUME TransactionsAssumption ==
  /\ MaxTxns \in Nat /\ MaxWrites \in Nat /\ MaxInstances \in Nat /\ MaxCrashes \in Nat
  /\ None \notin Nat

VARIABLES
  epoch,       \* ProducerTxnState.epoch, also TransactionalIdFencer.epochs; None unregistered
  instances,   \* the epochs handed to producer instances, replaced ones included
  open_txn,    \* ProducerTxnState.open_txn
  ready,       \* TransactionalInit.state is READY, for the newest instance
  txn,         \* the id's latest Transaction: [n, state, touched]
  written,     \* CommitMarkers.written of that transaction
  log,         \* each partition's entries: [id, n, kind]
  open_at,     \* LastStableOffset.open_transactions: first offset, by id
  aborted,     \* AbortedIndex.entries of each partition
  abort_from,  \* AbortedTransactions.aborted of each partition
  cursor,      \* read-committed consumer: next offset to read
  delivered,   \* history: the offsets it was handed
  outcome,     \* history: the verdict on each transaction
  crashes

coordVars  == <<epoch, instances, open_txn, ready, txn, written>>
logVars    == <<log, open_at, aborted, abort_from>>
readerVars == <<cursor, delivered>>
vars       == <<coordVars, logVars, readerVars, outcome, crashes>>

Init ==
  /\ epoch = [t \in Id |-> None]
  /\ instances = [t \in Id |-> {}]
  /\ open_txn = [t \in Id |-> FALSE]
  /\ ready = [t \in Id |-> FALSE]
  /\ txn = [t \in Id |-> [n |-> 0, state |-> "aborted", touched |-> {}]]
  /\ written = [t \in Id |-> {}]
  /\ log = [p \in Partition |-> <<>>]
  /\ open_at = [p \in Partition |-> [t \in Id |-> None]]
  /\ aborted = [p \in Partition |-> {}]
  /\ abort_from = [p \in Partition |-> [t \in Id |-> None]]
  /\ cursor = [p \in Partition |-> 0]
  /\ delivered = [p \in Partition |-> {}]
  /\ outcome = [t \in Id |-> [n \in 1 .. MaxTxns |-> None]]
  /\ crashes = 0

Total(Count(_)) == MapThenSumSet(Count, Id)

\* The bounds as guards.  (What is left over all ids is left for each of them.)
InstancesLeft == Total(LAMBDA u : Cardinality(instances[u])) < MaxInstances
TxnsLeft(t)   == txn[t].n < MaxTxns /\ Total(LAMBDA u : txn[u].n) < MaxTxns

End(p) == Len(log[p])

Undecided(t) == txn[t].state = "open"

Resolving(t) == txn[t].state \in {"committing", "aborting"}

\* Transaction._transition along ALLOWED, with the verdict noted.
Decide(t, verdict) ==
  /\ txn' = [txn EXCEPT ![t].state = verdict]
  /\ written' = [written EXCEPT ![t] = {}]
  /\ outcome' = [outcome EXCEPT ![t][txn[t].n] = verdict]
----------------------------------------------------------------------------
(***************************************************************************)
(* A new instance registers: TransactionCoordinator.register and           *)
(* TransactionalIdFencer.initialize bump the epoch, claim_epoch follows.   *)
(***************************************************************************)
Register(t) ==
  /\ InstancesLeft
  /\ epoch' = [epoch EXCEPT ![t] = IF @ = None THEN 0 ELSE @ + 1]
  /\ instances' = [instances EXCEPT ![t] = @ \cup {epoch'[t]}]
  /\ open_txn' = [open_txn EXCEPT ![t] = FALSE]
  /\ ready' = [ready EXCEPT ![t] = FALSE]
  /\ UNCHANGED <<txn, written, logVars, readerVars, outcome, crashes>>

\* A plausible slip: a transaction whose markers are going out is aborted as well.
RecoverDecidedToo(t) ==
  /\ epoch[t] # None
  /\ ~ready[t]
  /\ ready' = [ready EXCEPT ![t] = TRUE]
  /\ IF Undecided(t) \/ Resolving(t)
     THEN Decide(t, "aborting") ELSE UNCHANGED <<txn, written, outcome>>
  /\ UNCHANGED <<epoch, instances, open_txn, logVars, readerVars, crashes>>

\* TransactionalInit.recover: what the last instance left open is aborted.
RecoverDangling(t) ==
  /\ epoch[t] # None
  /\ ~ready[t]
  /\ ready' = [ready EXCEPT ![t] = TRUE]
  /\ IF Undecided(t) THEN Decide(t, "aborting") ELSE UNCHANGED <<txn, written, outcome>>
  /\ UNCHANGED <<epoch, instances, open_txn, logVars, readerVars, crashes>>

\* TransactionCoordinator._live and TransactionalIdFencer._check: e is not fenced.
Live(t, e) == epoch[t] # None /\ e >= epoch[t]

\* begin_transaction, then begin; the producer has had the answer to its last commit.
Begin(t, e) ==
  /\ Live(t, e)
  /\ ready[t]
  /\ ~open_txn[t]
  /\ ~Undecided(t) /\ ~Resolving(t)
  /\ TxnsLeft(t)
  /\ open_txn' = [open_txn EXCEPT ![t] = TRUE]
  /\ txn' = [txn EXCEPT ![t] = [n |-> @.n + 1, state |-> "open", touched |-> {}]]
  /\ written' = [written EXCEPT ![t] = {}]
  /\ UNCHANGED <<epoch, instances, ready, logVars, readerVars, outcome, crashes>>

DataAt(p) == {i \in DOMAIN log[p] : log[p][i].kind = "data"}

WritesLeft == MapThenSumSet(LAMBDA q : Cardinality(DataAt(q)), Partition) < MaxWrites

\* guard_write, Transaction.append, and LastStableOffset.begin for a first write.
Produce(t, e, p) ==
  /\ Live(t, e)
  /\ open_txn[t] /\ Undecided(t)
  /\ WritesLeft
  /\ log' = [log EXCEPT ![p] = Append(@, [id |-> t, n |-> txn[t].n, kind |-> "data"])]
  /\ open_at' = IF p \in txn[t].touched THEN open_at
                ELSE [open_at EXCEPT ![p][t] = End(p)]
  /\ txn' = [txn EXCEPT ![t].touched = @ \cup {p}]
  /\ UNCHANGED <<epoch, instances, open_txn, ready, written, aborted, abort_from,
                 readerVars, outcome, crashes>>

\* A plausible slip: an expired transaction's verdict is overwritten.
CompleteRegardless(t, e, verdict) ==
  /\ Live(t, e)
  /\ open_txn[t]
  /\ open_txn' = [open_txn EXCEPT ![t] = FALSE]
  /\ Decide(t, verdict)
  /\ UNCHANGED <<epoch, instances, ready, logVars, readerVars, crashes>>

\* guard_commit and TransactionCoordinator.complete.  The coordinator closes its side
\* first; a Transaction that expired meanwhile refuses the transition.
Complete(t, e, verdict) ==
  /\ Live(t, e)
  /\ open_txn[t]
  /\ open_txn' = [open_txn EXCEPT ![t] = FALSE]
  /\ IF Undecided(t) THEN Decide(t, verdict) ELSE UNCHANGED <<txn, written, outcome>>
  /\ UNCHANGED <<epoch, instances, ready, logVars, readerVars, crashes>>

\* TransactionCoordinator.timeout_abort: the epoch moves past the slow producer.
TimeoutAbort(t) ==
  /\ open_txn[t]
  /\ open_txn' = [open_txn EXCEPT ![t] = FALSE]
  /\ epoch' = [epoch EXCEPT ![t] = @ + 1]
  /\ IF Undecided(t) THEN Decide(t, "aborting") ELSE UNCHANGED <<txn, written, outcome>>
  /\ UNCHANGED <<instances, ready, logVars, readerVars, crashes>>

\* A plausible slip: only transactions their producer still holds open expire.
ForceAbortIfHeld(t) ==
  /\ open_txn[t]
  /\ Undecided(t)
  /\ Decide(t, "aborting")
  /\ UNCHANGED <<epoch, instances, open_txn, ready, logVars, readerVars, crashes>>

\* Transaction.force_abort_if_expired looks at the transaction only.
ForceAbort(t) ==
  /\ Undecided(t)
  /\ Decide(t, "aborting")
  /\ UNCHANGED <<epoch, instances, open_txn, ready, logVars, readerVars, crashes>>

FirstWrite(t, p) == Min({i \in DOMAIN log[p] : log[p][i].id = t /\ log[p][i].n = txn[t].n}) - 1

LastWrite(t, p) == Max({i \in DOMAIN log[p] : log[p][i].id = t /\ log[p][i].n = txn[t].n
                                              /\ log[p][i].kind = "data"}) - 1

(***************************************************************************)
(* CommitMarkers.write_marker: the control record goes on the log, and the *)
(* partition resolves the transaction (LastStableOffset.resolve, and for   *)
(* an abort AbortedIndex.record and AbortedTransactions.record_abort).     *)
(***************************************************************************)
WriteMarker(t, p) ==
  /\ Resolving(t)
  /\ p \in txn[t].touched \ written[t]
  /\ written' = [written EXCEPT ![t] = @ \cup {p}]
  /\ log' = [log EXCEPT ![p] = Append(@, [id |-> t, n |-> txn[t].n,
              kind |-> IF txn[t].state = "committing" THEN "commit" ELSE "abort"])]
  /\ open_at' = [open_at EXCEPT ![p][t] = None]
  /\ IF txn[t].state = "aborting"
     THEN /\ aborted' = [aborted EXCEPT ![p] = @ \cup
               {[id |-> t, first |-> FirstWrite(t, p), last |-> LastWrite(t, p)]}]
          /\ abort_from' = [abort_from EXCEPT ![p][t] = FirstWrite(t, p)]
     ELSE UNCHANGED <<aborted, abort_from>>
  /\ UNCHANGED <<epoch, instances, open_txn, ready, txn, readerVars, outcome, crashes>>

\* CommitMarkers.declare_committed, once no marker is outstanding.
Declare(t) ==
  /\ Resolving(t)
  /\ txn[t].touched \subseteq written[t]
  /\ txn' = [txn EXCEPT ![t].state = IF @ = "committing" THEN "committed" ELSE "aborted"]
  /\ UNCHANGED <<epoch, instances, open_txn, ready, written, logVars, readerVars, outcome, crashes>>

\* The markers' progress is lost; CommitMarkers.recover drives all of them again.
\* (A crash that loses no progress changes nothing.)
CoordinatorCrash ==
  /\ crashes < MaxCrashes
  /\ \E t \in Id : Resolving(t) /\ written[t] # {}
  /\ crashes' = crashes + 1
  /\ written' = [t \in Id |-> {}]
  /\ UNCHANGED <<epoch, instances, open_txn, ready, txn, logVars, readerVars, outcome>>
----------------------------------------------------------------------------
LastStable(p) ==
  Min({End(p)} \cup {open_at[p][t] : t \in {u \in Id : open_at[p][u] # None}})

\* A plausible slip: later records of the producer are swallowed too.
IsAbortedOnward(p, t, offset) ==
  \E entry \in aborted[p] : entry.id = t /\ entry.first <= offset

\* AbortedIndex.is_aborted
IsAborted(p, t, offset) ==
  \E entry \in aborted[p] : entry.id = t /\ entry.first <= offset /\ offset <= entry.last

\* One poll: readable_ceiling bounds it, consumer_visible and the aborted index filter it.
ReadCommitted(p) ==
  LET shown == {o \in cursor[p] .. LastStable(p) - 1 :
                  /\ log[p][o + 1].kind = "data"
                  /\ ~IsAborted(p, log[p][o + 1].id, o)}
  IN  /\ cursor[p] < LastStable(p)
      /\ cursor' = [cursor EXCEPT ![p] = LastStable(p)]
      /\ delivered' = [delivered EXCEPT ![p] = @ \cup shown]
      /\ UNCHANGED <<coordVars, logVars, outcome, crashes>>

CoordinatorStep(t) ==
  \/ ForceAbort(t)
  \/ \E p \in Partition : WriteMarker(t, p)
  \/ Declare(t)

Next ==
  \/ \E t \in Id :
       \/ Register(t)
       \/ RecoverDangling(t)
       \/ TimeoutAbort(t)
       \/ CoordinatorStep(t)
       \/ \E e \in instances[t] :
            \/ Begin(t, e)
            \/ \E p \in Partition : Produce(t, e, p)
            \/ \E verdict \in {"committing", "aborting"} : Complete(t, e, verdict)
  \/ \E p \in Partition : ReadCommitted(p)
  \/ CoordinatorCrash

Spec == Init /\ [][Next]_vars

(***************************************************************************)
(* The coordinator keeps serving its ids (open transactions expire, and    *)
(* the markers of a decided one are driven on) and readers keep reading;   *)
(* producers, and the handshake a new instance starts, owe nothing.        *)
(***************************************************************************)
FairSpec ==
  /\ Spec
  /\ \A t \in Id : WF_vars(CoordinatorStep(t))
  /\ \A p \in Partition : WF_vars(ReadCommitted(p))
----------------------------------------------------------------------------
\* Epochs, transactions, markers and cursors keep their types and ranges.
TypeOK ==
  /\ epoch \in [Id -> (0 .. MaxInstances + MaxTxns) \cup {None}]
  /\ \A t \in Id : instances[t] \subseteq 0 .. MaxInstances + MaxTxns
  /\ open_txn \in [Id -> BOOLEAN] /\ ready \in [Id -> BOOLEAN]
  /\ \A t \in Id : /\ txn[t].n \in 0 .. MaxTxns
                   /\ txn[t].state \in {"open", "committing", "committed", "aborting", "aborted"}
                   /\ txn[t].touched \subseteq Partition
                   /\ written[t] \subseteq txn[t].touched
  /\ \A p \in Partition : cursor[p] \in 0 .. End(p) /\ delivered[p] \subseteq 0 .. End(p) - 1

Verdict(p, offset) == LET entry == log[p][offset + 1] IN outcome[entry.id][entry.n]

(***************************************************************************)
(* A read-committed consumer is never handed a record whose transaction is *)
(* open or aborted: a record once handed out cannot be taken back.         *)
(***************************************************************************)
NoDirtyRead ==
  \A p \in Partition : \A offset \in delivered[p] : Verdict(p, offset) = "committing"

(***************************************************************************)
(* Nor does it lose one: every committed record it has read past was       *)
(* handed to it, whatever was aborted around it by the same producer.      *)
(***************************************************************************)
NoCommittedSkipped ==
  \A p \in Partition : \A offset \in 0 .. cursor[p] - 1 :
    log[p][offset + 1].kind = "data" /\ Verdict(p, offset) = "committing" =>
      offset \in delivered[p]

(***************************************************************************)
(* The last stable offset withholds every partition's undecided records:   *)
(* below it each data record's transaction has its marker on the partition.*)
(***************************************************************************)
StableIsMarked ==
  \A p \in Partition : \A i \in 1 .. LastStable(p) :
    log[p][i].kind = "data" =>
      \E j \in i + 1 .. End(p) : log[p][j].kind # "data" /\ log[p][j].id = log[p][i].id
                                 /\ log[p][j].n = log[p][i].n

(***************************************************************************)
(* A read-committed consumer sees exactly the committed records below the  *)
(* last stable offset, each of them decided on this partition.             *)
(***************************************************************************)
ReadCommittedIsExact == NoDirtyRead /\ NoCommittedSkipped /\ StableIsMarked

(***************************************************************************)
(* A verdict is final: no crash, timeout, replacement or zombie turns a    *)
(* decided transaction's outcome, and no two markers of it disagree.       *)
(***************************************************************************)
VerdictsAreFinal ==
  [][ \A t \in Id : \A n \in 1 .. MaxTxns :
        outcome[t][n] # None => outcome'[t][n] = outcome[t][n] ]_vars

MarkersAgree ==
  \A p, q \in Partition : \A i \in DOMAIN log[p] : \A j \in DOMAIN log[q] :
    /\ log[p][i].kind # "data" /\ log[q][j].kind # "data"
    /\ log[p][i].id = log[q][j].id /\ log[p][i].n = log[q][j].n
    => log[p][i].kind = log[q][j].kind

(***************************************************************************)
(* An abandoned transaction does not hold readers back for ever: again and *)
(* again the last stable offset reaches the log's end and the reader it.   *)
(***************************************************************************)
ReadersNotStuck ==
  \A p \in Partition : []<>(LastStable(p) = End(p) /\ cursor[p] = End(p))

(***************************************************************************)
(* AbortedTransactions.filter_for_read_committed: "the consumer drops      *)
(* every record whose producer id matches an aborted transaction from that *)
(* transaction's first offset onward".                                     *)
(***************************************************************************)
FilteredOut(p, offset) ==
  LET start == abort_from[p][log[p][offset + 1].id]
  IN  start # None /\ offset >= start

AbortedAreFilteredOut ==
  \A p \in Partition : \A offset \in 0 .. LastStable(p) - 1 :
    log[p][offset + 1].kind = "data" /\ Verdict(p, offset) = "aborting" =>
      FilteredOut(p, offset)
=============================================================================
