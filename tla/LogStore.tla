----------------------------- MODULE LogStore -----------------------------
(***************************************************************************)
(* What surrounds the records of a partition on disk: rolling and          *)
(* preallocated segments with their sparse offset index and its rebuilding *)
(* after a crash (segmentroll, timeroll, preallocation, segmentlookup,     *)
(* offsetindex, indexrebuild, recoverypoint), the time index (timeindex,   *)
(* listoffsets), the head of the log with its leader epochs                *)
(* (logstartoffset, deleterecords, outofrange, leaderepochcache), the      *)
(* delayed removal of a segment file (segmentdelete) and the loading of a  *)
(* directory when the broker starts (startup).                             *)
(*                                                                         *)
(* The classes that work on the same data live in one object; obj.class    *)
(* says which object a behaviour is about.  A record is its size in bytes, *)
(* its receive time or its epoch, whichever the object looks at.           *)
(***************************************************************************)
EXTENDS Naturals, Integers, Sequences, SequencesExt, FiniteSetsExt

CONSTANTS
  Interval,     \* index interval, in records, of the offset index
  SizeLimit,    \* RollPlan.size_limit = TimeRollPolicy.max_bytes
  AgeLimit,     \* RollPlan.time_limit = TimeRollPolicy.max_open_ticks
  IndexLimit,   \* RollPlan.index_limit
  Reserved,     \* bytes preallocated for a segment
  Delay,        \* SegmentDeletion.delay_ticks
  MaxLog,       \* bound: records per log
  MaxTick       \* bound: clock

VARIABLE obj

RECORD_SIZES == {1, 2}

(***************************************************************************)
(* The segment store.  `log` holds the sizes of all records from offset 0; *)
(* `segs` the segments with their bytes; `index` the entries <<offset,     *)
(* position>> of the active segment; `synced` is the recovery point.       *)
(***************************************************************************)
StoreInit ==
  \E policy \in {"plan", "time"} :
    obj = [class |-> "store", policy |-> policy, log |-> <<>>,
           segs |-> << [base |-> 0, used |-> 0, reserved |-> Reserved, sealed |-> FALSE] >>,
           opened |-> 0, now |-> 0, index |-> <<>>, synced |-> 0,
           clean |-> FALSE, phase |-> "up"]

LogEnd(o) == Len(o.log)
Active(o) == o.segs[Len(o.segs)]

\* The byte position of an offset in the active segment.
PositionOf(o, offset) ==
  FoldLeft(LAMBDA a, b : a + b, 0, SubSeq(o.log, Active(o).base + 1, offset))

\* TimeRollPolicy.should_roll
TimeRolls(o) ==
  /\ LogEnd(o) > Active(o).base
  /\ Active(o).used >= SizeLimit \/ o.now - o.opened >= AgeLimit

\* RollPlan.should_roll: no exception for an empty segment
PlanRolls(o) ==
  \/ Active(o).used >= SizeLimit
  \/ o.now - o.opened >= AgeLimit
  \/ Len(o.index) >= IndexLimit

\* The new recovery point: a sealed segment is taken to be on disk.
Roll ==
  /\ obj.class = "store" /\ obj.phase = "up"
  /\ IF obj.policy = "plan" THEN PlanRolls(obj) ELSE TimeRolls(obj)
  /\ Len(obj.segs) < MaxLog
  /\ obj' = [obj EXCEPT
       !.segs = Append([@ EXCEPT ![Len(@)].reserved = Active(obj).used, ![Len(@)].sealed = TRUE],
                       [base |-> LogEnd(obj), used |-> 0, reserved |-> Reserved, sealed |-> FALSE]),
       !.opened = obj.now, !.index = <<>>, !.synced = LogEnd(obj)]

\* OffsetIndex.add: entries only ever grow in offset
Indexed(index, offset, position) ==
  IF offset % Interval = 0 /\ (index = <<>> \/ offset > Last(index)[1])
  THEN Append(index, <<offset, position>>) ELSE index

\* PreallocatedSegment.append refuses what the reservation cannot take.
AppendBytes(size) ==
  /\ obj.class = "store" /\ obj.phase = "up" /\ LogEnd(obj) < MaxLog
  /\ ~ Active(obj).sealed
  /\ Active(obj).used + size <= Active(obj).reserved
  /\ obj' = [obj EXCEPT
       !.log = Append(@, size),
       !.segs[Len(obj.segs)].used = @ + size,
       !.index = Indexed(@, LogEnd(obj), Active(obj).used)]

Flush ==
  /\ obj.class = "store" /\ obj.phase = "up" /\ obj.synced < LogEnd(obj)
  /\ obj' = [obj EXCEPT !.synced = LogEnd(obj)]

StoreTick ==
  /\ obj.class = "store" /\ obj.phase = "up" /\ obj.now < MaxTick
  /\ obj' = [obj EXCEPT !.now = @ + 1]

(***************************************************************************)
(* Going down: cleanly, with everything synced, or by a crash, which keeps *)
(* a prefix of the index, perhaps with a torn (repeated) last entry.       *)
(***************************************************************************)
ShutDown ==
  /\ obj.class = "store" /\ obj.phase = "up" /\ obj.synced = LogEnd(obj)
  /\ obj' = [obj EXCEPT !.clean = TRUE, !.phase = "down"]

Crash ==
  /\ obj.class = "store" /\ obj.phase = "up"
  /\ \E k \in 0..Len(obj.index), torn \in BOOLEAN :
       LET kept == SubSeq(obj.index, 1, k)
       IN  obj' = [obj EXCEPT !.clean = FALSE, !.phase = "down",
                     !.index = IF torn /\ k > 0 THEN Append(kept, Last(kept)) ELSE kept]

TailToVerify(o) == LogEnd(o) - o.synced

(***************************************************************************)
(* startup_plan: a clean shutdown with no tail trusts the log; otherwise   *)
(* the tail past the recovery point is verified, and what fails is cut.    *)
(***************************************************************************)
Startup ==
  /\ obj.class = "store" /\ obj.phase = "down"
  /\ \E good \in 0..TailToVerify(obj) :
       /\ obj.clean /\ TailToVerify(obj) = 0 => good = TailToVerify(obj)
       /\ LET log == SubSeq(obj.log, 1, obj.synced + good)
          IN  obj' = [obj EXCEPT !.log = log, !.phase = "index", !.synced = Len(log),
                        !.segs[Len(obj.segs)].used = PositionOf(obj, Len(log))]

LastIndexed(index) == IF index = <<>> THEN -1 ELSE Last(index)[1]

\* The caller's duty when the log was cut under the index.
TruncateIndex ==
  /\ obj.class = "store" /\ obj.phase = "index"
  /\ LogEnd(obj) - 1 < LastIndexed(obj.index)
  /\ obj' = [obj EXCEPT !.index = SelectSeq(@, LAMBDA e : e[1] < LogEnd(obj))]

IsCorrupt(index) == \E i \in 2..Len(index) : index[i][1] <= index[i - 1][1]

\* What rebuild keeps of the index: all of it, or nothing of a corrupt one.
Trusted(index) == IF IsCorrupt(index) THEN <<>> ELSE index

\* IndexRebuilder.rebuild
Rebuild ==
  /\ obj.class = "store" /\ obj.phase = "index"
  /\ LogEnd(obj) - 1 >= LastIndexed(obj.index)
  /\ LET kept    == Trusted(obj.index)
         from    == LastIndexed(kept) + 1
         missing == {n \in Max({from, Active(obj).base})..(LogEnd(obj) - 1) : n % Interval = 0}
         entry(n) == <<n, PositionOf(obj, n)>>
     IN  obj' = [obj EXCEPT !.phase = "up",
                   !.index = kept \o [i \in 1..Len(SetToSortSeq(missing, <)) |->
                                        entry(SetToSortSeq(missing, <)[i])]]

\* SegmentSet.segment_for: the last base offset at or below the target
SegmentFor(segs, target) == Max({segs[i].base : i \in DOMAIN segs} \cap 0..target)

\* OffsetIndex.floor_position
FloorPosition(index, target) ==
  LET below == {i \in DOMAIN index : index[i][1] <= target}
  IN  IF below = {} THEN 0 ELSE index[Max(below)][2]

StoreNext ==
  \/ Roll \/ Flush \/ StoreTick \/ ShutDown \/ Crash \/ Startup \/ TruncateIndex \/ Rebuild
  \/ \E size \in RECORD_SIZES : AppendBytes(size)

(***************************************************************************)
(* A read by offset finds its record: the chosen segment holds the offset, *)
(* and the scan starts at most Interval - 1 records before it, no matter   *)
(* how often the broker went down and rebuilt its index.                   *)
(***************************************************************************)
LookupsFind ==
  obj.class = "store" /\ obj.phase = "up" =>
    \A target \in 0..(LogEnd(obj) - 1) :
      /\ \E i \in DOMAIN obj.segs :
           /\ obj.segs[i].base = SegmentFor(obj.segs, target)
           /\ i < Len(obj.segs) => target < obj.segs[i + 1].base
      /\ target >= Active(obj).base =>
           LET floor == Max({n \in 0..target : n % Interval = 0} \cup {0})
           IN  FloorPosition(obj.index, target)
                 = PositionOf(obj, Max({floor, Active(obj).base}))

-----------------------------------------------------------------------------
(***************************************************************************)
(* The time index: every `interval`-th record leaves an entry <<receive    *)
(* time, offset>>, unless the time has not moved.  `times` is the receive  *)
(* time of every record, which only the exact query of listoffsets scans.  *)
(***************************************************************************)
TimeInit ==
  \E interval \in 1..3 :
    obj = [class |-> "time", interval |-> interval, entries |-> <<>>, times |-> <<>>]

\* A plausible slip: the next record after an unchanged time is indexed instead.
DueCountingEntries(o, t) ==
  Len(o.entries) % o.interval = 0 /\ (o.entries = <<>> \/ Last(o.entries)[1] < t)

Due(o, t) ==
  Len(o.times) % o.interval = 0 /\ (o.entries = <<>> \/ Last(o.entries)[1] < t)

\* TimeIndex.on_append
OnAppend(t) ==
  /\ obj.class = "time" /\ Len(obj.times) < MaxLog + 2
  /\ obj.times # <<>> => t >= Last(obj.times)
  /\ obj' = [obj EXCEPT
       !.times = Append(@, t),
       !.entries = IF Due(obj, t) THEN Append(@, <<t, Len(obj.times)>>) ELSE @]

\* TimeIndex.offset_for_time, with log_start 0
OffsetForTime(o, target) ==
  LET after == {i \in DOMAIN o.entries : o.entries[i][1] >= target}
  IN  IF target <= o.entries[1][1] THEN 0
      ELSE IF after = {} THEN Len(o.times)
      ELSE o.entries[Min(after)][2]

\* OffsetQuery.for_timestamp: the scan of the records, else the watermark
ForTimestamp(times, target) ==
  Min({i - 1 : i \in {j \in DOMAIN times : times[j] >= target}} \cup {Len(times)})

TimeNext == \E t \in 0..MaxTick : OnAppend(t)

(***************************************************************************)
(* A seek by time through the sparse index never lands before the earliest *)
(* record at or after that time.  It may land after it (timeindex.py:9-12  *)
(* says it does not), and then skips less than one index interval; only an *)
(* index with an entry for every record is exact.                          *)
(***************************************************************************)
TimeSeeksLandNear ==
  obj.class = "time" /\ obj.entries # <<>> =>
    \A target \in 0..(MaxTick + 1) :
      LET exact == ForTimestamp(obj.times, target)
          found == OffsetForTime(obj, target)
      IN  exact <= found /\ found < exact + obj.interval

-----------------------------------------------------------------------------
(***************************************************************************)
(* The head of the log.  `owner` is the leader epoch that wrote each       *)
(* offset, a history; the log serves start..end, up to the watermark hw.   *)
(* `epochs` is the cache of <<epoch, start offset>>; epoch 0 means that no *)
(* leader has been assigned since the last truncation.                     *)
(***************************************************************************)
HeadInit ==
  obj = [class |-> "head", owner |-> <<>>, start |-> 0, hw |-> 0, epoch |-> 0,
         seen |-> 0, epochs |-> <<>>, position |-> 0, trimmed |-> 0]

HeadEnd(o) == Len(o.owner)

\* LeaderEpochCache.assign: epochs only grow
Assign ==
  /\ obj.class = "head" /\ obj.seen < MaxTick
  /\ obj' = [obj EXCEPT !.seen = @ + 1, !.epoch = obj.seen + 1,
                        !.epochs = Append(@, <<obj.seen + 1, HeadEnd(obj)>>)]

HeadAppend ==
  /\ obj.class = "head" /\ obj.epoch # 0 /\ HeadEnd(obj) < MaxLog
  /\ obj' = [obj EXCEPT !.owner = Append(@, obj.epoch)]

HeadCommit ==
  /\ obj.class = "head" /\ obj.hw < HeadEnd(obj)
  /\ obj' = [obj EXCEPT !.hw = @ + 1]

\* LeaderEpochCache.drop_below: the newest epoch stays if nothing else does
DropBelow(epochs, start) ==
  LET kept == SelectSeq(epochs, LAMBDA e : e[2] >= start)
  IN  IF kept = <<>> /\ epochs # <<>> THEN <<Last(epochs)>> ELSE kept

\* LogHead.delete_before: up to the watermark, and nothing to do at or below the start
DeleteBefore(target) ==
  /\ obj.class = "head" /\ target <= obj.hw
  /\ target > obj.start
  /\ obj' = [obj EXCEPT !.start = target, !.epochs = DropBelow(@, target),
                        !.trimmed = @ + target - obj.start]

\* LogStartOffset.advance_start: never back, never past the watermark
AdvanceStart(new_start) ==
  /\ obj.class = "head"
  /\ new_start >= obj.start /\ new_start <= obj.hw
  /\ obj' = [obj EXCEPT !.start = new_start, !.trimmed = @ + new_start - obj.start,
                        !.epochs = DropBelow(@, new_start)]

\* LeaderEpochCache.truncate_from, as a follower calls it: at or above the watermark
TruncateFrom(offset) ==
  /\ obj.class = "head" /\ obj.hw <= offset /\ offset < HeadEnd(obj)
  /\ obj' = [obj EXCEPT !.owner = SubSeq(@, 1, offset), !.epoch = 0,
                        !.epochs = SelectSeq(@, LAMBDA e : e[2] < offset)]

\* LeaderEpochCache.end_offset_for; -1 stands for Missing
EndOffsetFor(o, epoch) ==
  LET later == {i \in DOMAIN o.epochs : o.epochs[i][1] > epoch}
  IN  IF o.epochs = <<>> \/ epoch < o.epochs[1][1] THEN -1
      ELSE IF later = {} THEN HeadEnd(o)
      ELSE o.epochs[Min(later)][2]

(***************************************************************************)
(* A consumer's fetch (LogStartOffset.check_fetch, resolve_out_of_range    *)
(* with "earliest"): in the window it reads on, below it it resets to the  *)
(* log start, and past the end it refreshes and stays where it is.         *)
(***************************************************************************)
InWindow(o, offset) == o.start <= offset /\ offset < HeadEnd(o)

Resolve(o, offset) ==
  IF InWindow(o, offset) THEN offset + 1
  ELSE IF offset < o.start THEN o.start ELSE offset

FetchHead ==
  /\ obj.class = "head" /\ obj.position # Resolve(obj, obj.position)
  /\ InWindow(obj, obj.position) => obj.position < obj.hw
  /\ obj' = [obj EXCEPT !.position = Resolve(obj, @)]

HeadNext ==
  \/ Assign \/ HeadAppend \/ HeadCommit \/ FetchHead
  \/ \E n \in 0..MaxLog : DeleteBefore(n) \/ AdvanceStart(n) \/ TruncateFrom(n)

(***************************************************************************)
(* Whatever was trimmed, truncated or re-led, the cache never misdates the *)
(* log: an epoch it answers for ends exactly where that epoch's records    *)
(* (and the older ones) end in the log, so a follower is never told to     *)
(* keep a record too many.  Of the epochs with records still in the log,   *)
(* it has forgotten at most one: the one that wrote on both sides of the   *)
(* log start, whose followers fall back to the log start.  The trimmed     *)
(* records are those before the start and a consumer never waits outside   *)
(* the log for good.                                                       *)
(***************************************************************************)
EpochAnswersAreExact ==
  obj.class = "head" =>
    /\ \A epoch \in 1..obj.seen :
         EndOffsetFor(obj, epoch) # -1 =>
           EndOffsetFor(obj, epoch)
             = Max({n \in 1..HeadEnd(obj) : obj.owner[n] <= epoch} \cup {0})
    /\ \A n \in (obj.start + 1)..HeadEnd(obj) :
         EndOffsetFor(obj, obj.owner[n]) = -1 =>
           obj.start > 0 /\ obj.owner[obj.start] = obj.owner[n]
    /\ obj.trimmed = obj.start /\ obj.start <= obj.hw /\ obj.hw <= HeadEnd(obj)
    /\ obj.position <= obj.hw

-----------------------------------------------------------------------------
(***************************************************************************)
(* The removal of one segment file.  `reads` holds the reads in progress   *)
(* by their opening time; `cut` how long after the rename a file went away *)
(* under a read.                                                           *)
(***************************************************************************)
DeletionInit ==
  obj = [class |-> "deletion", now |-> 0, reads |-> <<>>, renamed_at |-> -1,
         open_readers |-> 0, finished |-> 0, unlinked |-> FALSE, cut |-> {}]

OpenRead ==
  /\ obj.class = "deletion" /\ obj.renamed_at < 0 /\ Len(obj.reads) < 2
  /\ obj' = [obj EXCEPT !.reads = Append(@, obj.now)]

Rename ==
  /\ obj.class = "deletion" /\ obj.renamed_at < 0
  /\ obj' = [obj EXCEPT !.renamed_at = obj.now, !.open_readers = Len(obj.reads)]

\* A read ends; after the rename it is counted (reader_finished).
ReaderFinished(i) ==
  /\ obj.class = "deletion" /\ i \in DOMAIN obj.reads
  /\ obj' = [obj EXCEPT !.reads = RemoveAt(@, i),
       !.finished = IF obj.renamed_at >= 0 /\ @ < obj.open_readers THEN @ + 1 ELSE @]

MayUnlink(o) == ~ (o.now - o.renamed_at < Delay /\ o.open_readers - o.finished > 0)

TryUnlink ==
  /\ obj.class = "deletion" /\ obj.renamed_at >= 0 /\ ~ obj.unlinked
  /\ MayUnlink(obj)
  /\ obj' = [obj EXCEPT !.unlinked = TRUE, !.cut = {obj.now - obj.renamed_at : t \in Range(obj.reads)}]

DeletionTick ==
  /\ obj.class = "deletion" /\ obj.now < MaxTick + Delay
  /\ obj' = [obj EXCEPT !.now = @ + 1]

DeletionNext ==
  OpenRead \/ Rename \/ TryUnlink \/ DeletionTick \/ \E i \in 1..2 : ReaderFinished(i)

(***************************************************************************)
(* While the delay runs no read loses its file, however many reads opened  *)
(* and finished before and after the rename.  Once it is over the file     *)
(* goes even under a read that is still recorded as active, which          *)
(* segmentdelete.py:16-19 says it does not.                                *)
(***************************************************************************)
ReadsOutlastTheDelay ==
  obj.class = "deletion" => \A waited \in obj.cut : waited >= Delay

-----------------------------------------------------------------------------
(***************************************************************************)
(* A log directory: segments <<base, end>>, the end the broker recorded    *)
(* and the end of what is really there, and what the start made of it.     *)
(* Faults tear the end off or take a segment away while the broker is      *)
(* down.                                                                   *)
(***************************************************************************)
BootInit ==
  obj = [class |-> "boot", segs |-> << <<0, 0>> >>, recorded |-> 0, actual |-> 0, state |-> "up"]

BootAppend ==
  /\ obj.class = "boot" /\ obj.state \in {"up", "online"} /\ obj.actual < MaxLog
  /\ obj' = [obj EXCEPT !.segs[Len(obj.segs)][2] = @ + 1, !.actual = @ + 1]

BootRoll ==
  /\ obj.class = "boot" /\ obj.state \in {"up", "online"} /\ Last(obj.segs)[2] > Last(obj.segs)[1]
  /\ obj' = [obj EXCEPT !.segs = Append(@, <<obj.actual, obj.actual>>)]

RecordEnd ==
  /\ obj.class = "boot" /\ obj.state \in {"up", "online"} /\ obj.recorded # obj.actual
  /\ obj' = [obj EXCEPT !.recorded = obj.actual]

Stop ==
  /\ obj.class = "boot" /\ obj.state \in {"up", "online"}
  /\ obj' = [obj EXCEPT !.state = "down"]

\* The last record of the last segment is not intact.
TearEnd ==
  /\ obj.class = "boot" /\ obj.state = "down" /\ obj.segs # <<>> /\ Last(obj.segs)[2] > Last(obj.segs)[1]
  /\ obj' = [obj EXCEPT !.segs[Len(obj.segs)][2] = @ - 1, !.actual = @ - 1]

\* A segment is gone; the end found is that of the last one there.
LoseSegment(i) ==
  /\ obj.class = "boot" /\ obj.state = "down" /\ i \in DOMAIN obj.segs
  /\ LET rest == RemoveAt(obj.segs, i)
     IN  obj' = [obj EXCEPT !.segs = rest, !.actual = IF rest = <<>> THEN 0 ELSE Last(rest)[2]]

\* LogDir.is_contiguous
Contiguous(segs) == \A i \in 2..Len(segs) : segs[i][1] = segs[i - 1][2]

\* BrokerStartup.load: a directory that fails a check is offline
Load ==
  /\ obj.class = "boot" /\ obj.state = "down"
  /\ obj' = [obj EXCEPT !.state =
       IF obj.segs # <<>> /\ Contiguous(obj.segs) /\ obj.recorded = obj.actual THEN "online" ELSE "offline"]

BootNext ==
  BootAppend \/ BootRoll \/ RecordEnd \/ Stop \/ TearEnd \/ Load \/ \E i \in 1..MaxLog : LoseSegment(i)

(***************************************************************************)
(* A broker that serves has every record from its first segment to the end *)
(* it recorded: whatever was torn off or lost while it was down, what is   *)
(* missing can only be the oldest segments.                                *)
(***************************************************************************)
OnlineIsWhole ==
  obj.class = "boot" /\ obj.state = "online" =>
    /\ \A offset \in obj.segs[1][1]..(obj.recorded - 1) :
         \E i \in DOMAIN obj.segs : obj.segs[i][1] <= offset /\ offset < obj.segs[i][2]
    /\ obj.recorded <= obj.actual

-----------------------------------------------------------------------------
Init == StoreInit \/ TimeInit \/ HeadInit \/ DeletionInit \/ BootInit

Next == StoreNext \/ TimeNext \/ HeadNext \/ DeletionNext \/ BootNext

(***************************************************************************)
(* What readers of the store rely on: offsets and times are found, epochs  *)
(* are dated right, files stay under their reads while the delay runs, and *)
(* a directory comes back whole or not at all.                             *)
(***************************************************************************)
StoreServesReaders ==
  LookupsFind /\ TimeSeeksLandNear /\ EpochAnswersAreExact /\ ReadsOutlastTheDelay /\ OnlineIsWhole
=============================================================================
