--------------------------- MODULE PartitionLog ---------------------------
(***************************************************************************)
(* One partition: the segment log of relay/segmentlog.py under the high    *)
(* watermark of relay/partition.py, trimmed by drop_sealed_before and by   *)
(* the retention runs of relay/retention.py.                               *)
(***************************************************************************)
EXTENDS SegmentLog, TLC

CONSTANTS
  MaxAgeTicks,  \* RetentionPolicy.max_age_ticks, or None
  MaxBytes,     \* RetentionPolicy.max_bytes, or None
  None,
  MaxRecords,   \* bound: appends in a behaviour
  MaxNow        \* bound: clock ticks in a behaviour

\* RetentionPolicy.__post_init__: a policy has a limit, and limits are positive.
ASSUME PolicyAssumption ==
  /\ MaxAgeTicks # None \/ MaxBytes # None
  /\ MaxAgeTicks = None \/ MaxAgeTicks \in Nat \ {0}
  /\ MaxBytes = None \/ MaxBytes \in Nat \ {0}

ASSUME BoundsAssumption == MaxRecords \in Nat /\ MaxNow \in Nat

VARIABLES
  segments,             \* SegmentLog.segments
  rolls,                \* SegmentLog.rolls
  high_watermark,       \* Partition.high_watermark
  reclaimed_segments,   \* RetentionRun.reclaimed_segments
  reclaimed_bytes,      \* RetentionRun.reclaimed_bytes
  now,                  \* the clock the retention runs are given
  segment_last_tick,    \* the caller's map: base offset -> tick of its last append
  appended,             \* history: every record appended, in order
  dropped               \* history: segments drop_sealed_before removed

logVars   == <<segments, rolls, high_watermark>>
retVars   == <<reclaimed_segments, reclaimed_bytes>>
clockVars == <<now, segment_last_tick>>
histVars  == <<appended, dropped>>
vars      == <<logVars, retVars, clockVars, histVars>>

Init ==
  /\ segments = <<NewSegment(0)>>
  /\ rolls = 0
  /\ high_watermark = 0
  /\ reclaimed_segments = 0
  /\ reclaimed_bytes = 0
  /\ now = 0
  /\ segment_last_tick = <<>>
  /\ appended = <<>>
  /\ dropped = 0

\* Partition.append -> SegmentLog.append
AppendRec(r) ==
  /\ Len(appended) < MaxRecords
  /\ segments' = AppendRecord(segments, r)
  /\ rolls' = IF MustRoll(segments, r) THEN rolls + 1 ELSE rolls
  /\ segment_last_tick' = (segments'[Len(segments')].base_offset :> now)
                            @@ segment_last_tick
  /\ appended' = Append(appended, r)
  /\ UNCHANGED <<high_watermark, retVars, now, dropped>>

\* Partition.advance_watermark: a retreat and a line past the end are refused.
AdvanceWatermark(to_offset) ==
  /\ to_offset >= high_watermark
  /\ to_offset <= NextOffset(segments)
  /\ high_watermark' = to_offset
  /\ UNCHANGED <<segments, rolls, retVars, clockVars, histVars>>

DropSealedBefore(offset) ==
  \E n \in 0 .. Len(segments) - 1 :
    /\ PopsExactly(segments, n, LAMBDA i : SealedBefore(segments, i, offset))
    /\ segments' = DropOldest(segments, n)
    /\ dropped' = dropped + n
    /\ UNCHANGED <<rolls, high_watermark, retVars, clockVars, appended>>

\* RetentionRun._age_condemns; a segment the caller's map lacks is as old as now.
AgeCondemns(seg) ==
  /\ MaxAgeTicks # None
  /\ seg.base_offset \in DOMAIN segment_last_tick
  /\ now - segment_last_tick[seg.base_offset] > MaxAgeTicks

SizeCondemns(segs) == MaxBytes # None /\ TotalBytes(segs) > MaxBytes

\* One turn of RetentionRun.apply's loop, when i - 1 segments have gone.
RetentionCondemns(i, committed_floor) ==
  /\ segments[i].sealed
  /\ EndOf(segments[i]) <= committed_floor
  /\ \/ AgeCondemns(segments[i])
     \/ SizeCondemns(DropOldest(segments, i - 1))

RetentionApply(committed_floor) ==
  \E n \in 0 .. Len(segments) - 1 :
    /\ PopsExactly(segments, n, LAMBDA i : RetentionCondemns(i, committed_floor))
    /\ segments' = DropOldest(segments, n)
    /\ reclaimed_segments' = reclaimed_segments + n
    /\ reclaimed_bytes' = reclaimed_bytes + TotalBytes(SubSeq(segments, 1, n))
    /\ UNCHANGED <<rolls, high_watermark, clockVars, histVars>>

Tick ==
  /\ now < MaxNow
  /\ now' = now + 1
  /\ UNCHANGED <<logVars, retVars, segment_last_tick, histVars>>

Next ==
  \/ \E r \in Record : AppendRec(r)
  \/ \E to_offset \in 0 .. NextOffset(segments) : AdvanceWatermark(to_offset)
  \/ \E offset \in 0 .. NextOffset(segments) : DropSealedBefore(offset)
  \/ \E floor \in 0 .. NextOffset(segments) : RetentionApply(floor)
  \/ Tick

Spec == Init /\ [][Next]_vars

\* Partition.consume: refused at or above the watermark, else the log's read.
Consume(offset) ==
  IF offset >= high_watermark THEN [status |-> "missing"] ELSE Read(segments, offset)
----------------------------------------------------------------------------
\* The fields of SegmentLog, Partition and RetentionRun keep their types.
TypeOK ==
  /\ segments \in Seq(Segment) /\ segments # <<>>
  /\ rolls \in Nat
  /\ high_watermark \in Nat
  /\ reclaimed_segments \in Nat
  /\ now \in Nat
  /\ dropped \in Nat
  /\ appended \in Seq(Record)

(***************************************************************************)
(* The chain the readers and the trimmers rely on: every segment but the   *)
(* last is sealed, non-empty, and ends where the next begins; the last one *)
(* is open, ends at the log's end, and the watermark is not beyond it.     *)
(***************************************************************************)
SegmentChain ==
  /\ \A i \in 1 .. Len(segments) - 1 :
       /\ segments[i].sealed
       /\ segments[i].records # <<>>
       /\ segments[i + 1].base_offset = EndOf(segments[i])
  /\ ~segments[Len(segments)].sealed
  /\ NextOffset(segments) = Len(appended)
  /\ high_watermark <= NextOffset(segments)

(***************************************************************************)
(* Whatever rolled or was trimmed in between, a record stored in a segment *)
(* is the one appended at its offset: no trim or roll shifts an offset.    *)
(***************************************************************************)
OffsetsAreStable ==
  \A i \in DOMAIN segments : \A k \in DOMAIN segments[i].records :
    /\ segments[i].base_offset + k \in DOMAIN appended
    /\ segments[i].records[k] = appended[segments[i].base_offset + k]

(***************************************************************************)
(* Partition.consume answers every offset below the watermark with the     *)
(* record appended there, or with Lagging when it has been trimmed: the    *)
(* `raise Invalid("the segment chain has a hole")` is unreachable and no   *)
(* committed record is reported as not yet written.                        *)
(***************************************************************************)
CommittedIsServed ==
  \A offset \in 0 .. high_watermark - 1 :
    Consume(offset) = IF offset < FirstOffset(segments)
                      THEN [status |-> "lagging"]
                      ELSE [status |-> "ok", record |-> appended[offset + 1]]

AppendedBytes == Total(Sizes(appended))

(***************************************************************************)
(* Every roll is accounted for by a segment still in the log, reclaimed by *)
(* retention, or dropped.                                                  *)
(***************************************************************************)
SegmentsAccounted ==
  rolls = (Len(segments) - 1) + reclaimed_segments + dropped

(***************************************************************************)
(* What retention says it reclaimed and what is left add up to what was    *)
(* written, less what was dropped by hand; so do the segments it counts.   *)
(***************************************************************************)
BytesAccounted ==
  /\ reclaimed_bytes + TotalBytes(segments) <= AppendedBytes
  /\ dropped = 0 => reclaimed_bytes + TotalBytes(segments) = AppendedBytes

RetentionAccounts == SegmentsAccounted /\ BytesAccounted

(***************************************************************************)
(* Retention is honest towards readers and operators: what it trims is     *)
(* reported as trimmed and nothing else is missing, and what it says it    *)
(* reclaimed is what went (RetentionRun.apply, Partition.consume).         *)
(***************************************************************************)
RetentionIsHonest == CommittedIsServed /\ RetentionAccounts

(***************************************************************************)
(* Neither line a client navigates by ever retreats: not the watermark and *)
(* not the first retained offset.                                          *)
(***************************************************************************)
LinesOnlyAdvance ==
  [][ /\ high_watermark' >= high_watermark
      /\ FirstOffset(segments') >= FirstOffset(segments) ]_vars

(***************************************************************************)
(* A sealed segment is immutable: each step leaves it in the log as it was *)
(* or removes it whole, and then the log starts past its last record.      *)
(***************************************************************************)
SealedIsImmutable ==
  [][ \A i \in DOMAIN segments : segments[i].sealed =>
        \/ \E j \in DOMAIN segments' : segments'[j] = segments[i]
        \/ FirstOffset(segments') >= EndOf(segments[i]) ]_vars

\* The records of the segments, one after the other.
Window(segs) == FlattenSeq([i \in DOMAIN segs |-> segs[i].records])

(***************************************************************************)
(* Segments are an implementation detail: concatenated, they behave as the *)
(* window of CommitLog.                                                    *)
(***************************************************************************)
Abstract == INSTANCE CommitLog
  WITH start     <- FirstOffset(segments),
       retained  <- Window(segments),
       watermark <- high_watermark

ImplementsCommitLog == Abstract!Spec
=============================================================================
