---------------------------- MODULE StorageCare ----------------------------
(***************************************************************************)
(* What the broker does to data at rest: compaction of keyed logs          *)
(* (compaction, compactionlag, logcleaner, deleteretention,                *)
(* tombstoneretention), moving old segments to an object store             *)
(* (tieredstorage), and placing partitions on disks that may fail          *)
(* (logdirs, logdirfailover, logdirfailure, describelogdirs).              *)
(*                                                                         *)
(* One object at a time; obj.class says which.                             *)
(***************************************************************************)
EXTENDS Naturals, Integers, Sequences, SequencesExt, FiniteSets, FiniteSetsExt

CONSTANTS
  Key,          \* record keys
  Consumer,     \* readers of the compacted log
  Retention,    \* ticks a tombstone is kept
  MinLag,       \* CompactionLag.min_lag
  MaxLag,       \* CompactionLag.max_lag
  MinDirty,     \* min_dirty_ratio, in per cent
  MaxWrites,    \* bound: records written
  MaxClock,     \* bound: clock
  LocalWindow,  \* TieredLog.local_window
  MaxSegment,   \* bound: tiered segments
  Disk,         \* log directories, in their tie-breaking order
  MaxPlaced     \* bound: partitions placed

VARIABLE obj

(***************************************************************************)
(* The compacted log.  An entry is [offset, key, dead, at]: dead marks a   *)
(* tombstone, at its append time.  The value of a record is the record     *)
(* itself, so a table maps a key to the offset of its last put, or to -1.  *)
(* `truth` is the table of everything ever written; `pos` and `table` what *)
(* each consumer has read and built; `missed` the consumers a tombstone    *)
(* was taken from before they read it.                                     *)
(***************************************************************************)
NoTable == [k \in Key |-> -1]

CompactedInit ==
  \E rule \in {"compactor", "delete", "grace"} :
    obj = [class |-> "compacted", rule |-> rule, entries |-> <<>>, next |-> 0, now |-> 0,
           truth |-> NoTable, pos |-> [c \in Consumer |-> 0],
           table |-> [c \in Consumer |-> NoTable], missed |-> {}]

Put(table, e) == [table EXCEPT ![e.key] = IF e.dead THEN -1 ELSE e.offset]

Write(key, dead) ==
  /\ obj.class = "compacted" /\ obj.next < MaxWrites
  /\ LET e == [offset |-> obj.next, key |-> key, dead |-> dead, at |-> obj.now]
     IN  obj' = [obj EXCEPT !.entries = Append(@, e), !.next = @ + 1,
                            !.truth = Put(@, e)]

CompactedTick ==
  /\ obj.class = "compacted" /\ obj.now < MaxClock
  /\ obj' = [obj EXCEPT !.now = @ + 1]

\* The consumer's next record, over any gap compaction left.
Read(c) ==
  /\ obj.class = "compacted"
  /\ LET ahead == SelectSeq(obj.entries, LAMBDA e : e.offset >= obj.pos[c])
     IN  /\ ahead # <<>>
         /\ obj' = [obj EXCEPT !.pos[c] = ahead[1].offset + 1,
                               !.table[c] = Put(@, ahead[1])]

\* A consumer that rebuilds its table from the start of the log.
Rewind(c) ==
  /\ obj.class = "compacted" /\ obj.pos[c] > 0
  /\ obj' = [obj EXCEPT !.pos[c] = 0, !.table[c] = NoTable, !.missed = @ \ {c}]

MinConsumerOffset(o) == Min({o.pos[c] : c \in Consumer})

\* CompactionLag.classify
Classify(age) ==
  IF age < MinLag THEN "not-yet-eligible" ELSE IF age > MaxLag THEN "overdue" ELSE "eligible"

\* The head of the log that is old enough to be compacted.
EligibleHead(o) ==
  SelectSeq(o.entries, LAMBDA e : \A f \in Range(o.entries) :
    f.offset <= e.offset => Classify(o.now - f.at) # "not-yet-eligible")

IsLatest(entries, e) == \A f \in Range(entries) : f.key = e.key => f.offset <= e.offset

\* DirtyLog.dirty_ratio against LogCleaner.min_dirty_ratio, or a record that
\* CompactionLag.classify calls overdue, which compaction may not leave any longer
WorthCleaning(o, head) ==
  LET superseded == Len(SelectSeq(head, LAMBDA e : ~ IsLatest(head, e)))
  IN  \/ superseded * 100 >= MinDirty * Len(o.entries)
      \/ \E e \in Range(head) : Classify(o.now - e.at) = "overdue"

\* Compactor.compact's own test of a tombstone
CompactorReaps(o, e) == e.offset < MinConsumerOffset(o) /\ o.now - e.at > Retention

\* DeleteRetention.removable
Removable(o, e) == o.now - e.at >= Retention /\ MinConsumerOffset(o) > e.offset

\* TombstoneRetention.may_remove: the grace period alone
MayRemove(o, e) == o.now >= e.at + Retention

\* A plausible slip: age alone decides, whoever still has to read.
ReapsAged(o, e) == e.dead /\ o.now - e.at >= Retention

Reaps(o, e) ==
  /\ e.dead
  /\ CASE o.rule = "compactor" -> CompactorReaps(o, e)
       [] o.rule = "delete"    -> Removable(o, e)
       [] OTHER                -> MayRemove(o, e)

\* Compactor.compact, on what LogCleaner.clean finds worth it
Compact ==
  /\ obj.class = "compacted"
  /\ LET head == EligibleHead(obj)
         kept == SelectSeq(head, LAMBDA e : IsLatest(head, e) /\ ~ Reaps(obj, e))
         gone == {e \in Range(head) : IsLatest(head, e) /\ Reaps(obj, e)}
     IN  /\ head # <<>> /\ WorthCleaning(obj, head)
         /\ obj' = [obj EXCEPT
              !.entries = kept \o SubSeq(@, Len(head) + 1, Len(@)),
              !.missed = @ \cup {c \in Consumer : \E e \in gone : obj.pos[c] <= e.offset
                                                                  /\ obj.pos[c] > 0}]

CompactedNext ==
  \/ CompactedTick \/ Compact
  \/ \E c \in Consumer : Read(c) \/ Rewind(c)
  \/ \E k \in Key, dead \in BOOLEAN : Write(k, dead)

(***************************************************************************)
(* Compaction never changes what the log says.  Wherever a consumer is, in *)
(* the middle of the log or at its start, reading on gives it the table of *)
(* the full history: no key is lost, none comes back from the dead.  Only  *)
(* the grace rule may take a tombstone from a consumer that is too slow;   *)
(* the rules that watch the consumers never do.                            *)
(***************************************************************************)
CompactionKeepsMeaning ==
  obj.class = "compacted" =>
    /\ \A c \in Consumer \ obj.missed :
         FoldLeft(Put, obj.table[c], SelectSeq(obj.entries, LAMBDA e : e.offset >= obj.pos[c]))
           = obj.truth
    /\ obj.rule # "grace" => obj.missed = {}

-----------------------------------------------------------------------------
(***************************************************************************)
(* The tiered log: segment i covers the offsets [i - 1, i) and its digest  *)
(* is i.  The store may hold something else than was sent (0) when         *)
(* tier_out reads the upload back.                                         *)
(***************************************************************************)
TieredInit == obj = [class |-> "tiered", tier |-> <<>>, store |-> <<>>, prevented |-> 0]

AddLocal ==
  /\ obj.class = "tiered" /\ Len(obj.tier) < MaxSegment
  /\ obj' = [obj EXCEPT !.tier = Append(@, "local"), !.store = Append(@, 0)]

\* TieredLog.tier_out: all segments beyond the local window, each verified
TierOut ==
  /\ obj.class = "tiered" /\ obj.prevented < 2
  /\ LET old == {i \in DOMAIN obj.tier : obj.tier[i] = "local" /\ Len(obj.tier) - i > LocalWindow}
     IN  /\ old # {}
         /\ \E torn \in SUBSET old :
              obj' = [obj EXCEPT
                !.store = [i \in DOMAIN @ |-> IF i \in old \ torn THEN i
                                               ELSE IF i \in torn THEN 0 ELSE @[i]],
                !.tier = [i \in DOMAIN @ |-> IF i \in old \ torn THEN "cold" ELSE @[i]],
                !.prevented = @ + Cardinality(torn)]

TieredNext == AddLocal \/ TierOut

(***************************************************************************)
(* A segment leaves the local disk only for a copy that reads back right,  *)
(* over any number of failed uploads, and the recent window stays local.   *)
(***************************************************************************)
ColdIsStored ==
  obj.class = "tiered" =>
    /\ \A i \in DOMAIN obj.tier : obj.tier[i] = "cold" => obj.store[i] = i
    /\ \A i \in DOMAIN obj.tier : Len(obj.tier) - i <= LocalWindow => obj.tier[i] = "local"

-----------------------------------------------------------------------------
(***************************************************************************)
(* A broker's disks.  LogDirBalancer places; LogDirFailure and             *)
(* LogDirManager keep the failed set.  `strayed` says whether a partition  *)
(* was ever moved off a healthy disk.                                      *)
(***************************************************************************)
SIZES == {1, 3}

DiskInit ==
  obj = [class |-> "disks", disk |-> <<>>, size |-> <<>>, failed |-> {},
         stranded |-> {}, strayed |-> FALSE]

BytesOn(o, d) ==
  FoldLeft(LAMBDA a, b : a + b, 0,
           [p \in DOMAIN o.disk |-> IF o.disk[p] = d THEN o.size[p] ELSE 0])

LeastLoaded(o, d) ==
  /\ d \notin o.failed
  /\ \A e \in Disk \ o.failed :
       BytesOn(o, d) < BytesOn(o, e) \/ (BytesOn(o, d) = BytesOn(o, e) /\ d <= e)

Place(size) ==
  /\ obj.class = "disks" /\ Len(obj.disk) < MaxPlaced
  /\ \E d \in Disk : /\ LeastLoaded(obj, d)
                     /\ obj' = [obj EXCEPT !.disk = Append(@, d), !.size = Append(@, size)]

\* fail_disk, LogDirFailure.fail and LogDirManager.fail_dir, which refuses a second report
FailDisk(d) ==
  /\ obj.class = "disks" /\ d \notin obj.failed
  /\ obj' = [obj EXCEPT !.failed = @ \cup {d},
                        !.stranded = @ \cup {p \in DOMAIN obj.disk : obj.disk[p] = d}]

\* LogDirBalancer.relocate: refused for a sole replica (then nothing happens)
Relocate(p) ==
  /\ obj.class = "disks" /\ p \in DOMAIN obj.disk
  /\ \E d \in Disk :
       /\ LeastLoaded(obj, d)
       /\ obj' = [obj EXCEPT !.disk[p] = d, !.stranded = @ \ {p},
                             !.strayed = @ \/ (obj.disk[p] \notin obj.failed /\ obj.disk[p] # d)]

OfflinePartitions(o) == {p \in DOMAIN o.disk : o.disk[p] \in o.failed}

\* LogDirsReport.imbalance: the fullest against the emptiest live directory
Imbalance(o) ==
  LET totals == {BytesOn(o, d) : d \in Disk \ o.failed}
  IN  IF Disk \subseteq o.failed THEN 0 ELSE Max(totals) - Min(totals)

DiskNext ==
  \/ \E size \in SIZES : Place(size)
  \/ \E d \in Disk : FailDisk(d)
  \/ \E p \in 1..MaxPlaced : Relocate(p)

(***************************************************************************)
(* Failures only strand what was on the disk when it failed: nothing is    *)
(* placed or moved onto a failed disk afterwards.  And placing by bytes    *)
(* keeps live disks within one partition's size of each other, through     *)
(* failures and relocations of stranded partitions.                        *)
(***************************************************************************)
DisksStayUsable ==
  obj.class = "disks" =>
    /\ OfflinePartitions(obj) = obj.stranded
    /\ ~ obj.strayed => Imbalance(obj) <= Max({0} \cup Range(obj.size))

-----------------------------------------------------------------------------
Init == CompactedInit \/ TieredInit \/ DiskInit

Next == CompactedNext \/ TieredNext \/ DiskNext

(***************************************************************************)
(* Data at rest keeps its meaning and stays reachable while it is          *)
(* compacted, tiered and moved between disks.                              *)
(***************************************************************************)
DataAtRestIsSafe == CompactionKeepsMeaning /\ ColdIsStored /\ DisksStayUsable
=============================================================================
