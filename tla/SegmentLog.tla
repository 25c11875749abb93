---------------------------- MODULE SegmentLog ----------------------------
(***************************************************************************)
(* The operators of relay/segmentlog.py: a partition's history is a        *)
(* non-empty sequence of segments, each a base offset, the records that    *)
(* follow it, and a sealed flag.  Only the last segment takes appends.     *)
(*                                                                         *)
(* A record is abstracted to a value with a size (records.py, size_bytes): *)
(* the log never looks inside one.                                         *)
(***************************************************************************)
EXTENDS Naturals, Sequences, SequencesExt

CONSTANTS
  Record,       \* the records a producer may send
  Size,         \* size_bytes() of each record
  RollAtBytes   \* ROLL_AT_BYTES

ASSUME SizeAssumption   == Size \in [Record -> Nat \ {0}]
ASSUME RollAtAssumption == RollAtBytes \in Nat

Segment == [base_offset : Nat, records : Seq(Record), sealed : BOOLEAN]

NewSegment(base) == [base_offset |-> base, records |-> <<>>, sealed |-> FALSE]

\* sum() over a list of sizes.
Total(sizes) ==
  LET upTo[i \in 0 .. Len(sizes)] == IF i = 0 THEN 0 ELSE upTo[i - 1] + sizes[i]
  IN  upTo[Len(sizes)]

Sizes(records) == [i \in DOMAIN records |-> Size[records[i]]]

SizeBytes(seg) == Total(Sizes(seg.records))

\* Segment.next_offset
EndOf(seg) == seg.base_offset + Len(seg.records)

\* A plausible slip: a strict bound below, so a segment disowns its first record.
HoldsPastBase(seg, offset) == seg.base_offset < offset /\ offset < EndOf(seg)

Holds(seg, offset) == seg.base_offset <= offset /\ offset < EndOf(seg)

FirstOffset(segs) == segs[1].base_offset

NextOffset(segs) == EndOf(segs[Len(segs)])

TotalBytes(segs) == Total([i \in DOMAIN segs |-> SizeBytes(segs[i])])

\* A plausible slip: the empty active segment rolls as well.
MustRollEvenEmpty(segs, r) ==
  SizeBytes(segs[Len(segs)]) + Size[r] > RollAtBytes

(***************************************************************************)
(* SegmentLog.append: the active segment rolls first when the record would *)
(* take it past the threshold, unless it is empty (an oversized record     *)
(* still lands somewhere).                                                 *)
(***************************************************************************)
MustRoll(segs, r) ==
  LET active == segs[Len(segs)]
  IN  /\ SizeBytes(active) + Size[r] > RollAtBytes
      /\ active.records # <<>>

\* A plausible slip: the new segment starts one past the end.
RolledWithGap(segs) ==
  Append([segs EXCEPT ![Len(segs)].sealed = TRUE], NewSegment(NextOffset(segs) + 1))

Rolled(segs) ==
  Append([segs EXCEPT ![Len(segs)].sealed = TRUE], NewSegment(NextOffset(segs)))

AppendToActive(segs, r) ==
  [segs EXCEPT ![Len(segs)].records = Append(@, r)]

AppendRecord(segs, r) ==
  AppendToActive(IF MustRoll(segs, r) THEN Rolled(segs) ELSE segs, r)

(***************************************************************************)
(* SegmentLog.read: "lagging" below the retained window, "missing" at or   *)
(* past the end, else the record of the first segment that holds it;       *)
(* "hole" stands for Invalid("the segment chain has a hole").              *)
(***************************************************************************)
Read(segs, offset) ==
  IF offset < FirstOffset(segs) THEN [status |-> "lagging"]
  ELSE IF offset >= NextOffset(segs) THEN [status |-> "missing"]
  ELSE LET i == SelectInSeq(segs, LAMBDA s : Holds(s, offset))
       IN  IF i = 0 THEN [status |-> "hole"]
           ELSE [status |-> "ok",
                 record |-> segs[i].records[offset - segs[i].base_offset + 1]]

(***************************************************************************)
(* The shape both trimming loops share: `while len(segments) > 1 and the   *)
(* oldest is condemned: segments.pop(0)`.  n is the number popped:         *)
(* the first n are condemned, each in the state the loop meets it in, and  *)
(* the loop stops at the next one or at the last segment.                  *)
(***************************************************************************)
PopsExactly(segs, n, Condemned(_)) ==
  /\ n \in 0 .. Len(segs) - 1
  /\ \A i \in 1 .. n : Condemned(i)
  /\ n < Len(segs) - 1 => ~Condemned(n + 1)

\* A plausible slip: the newest segments go.
DropNewest(segs, n) == SubSeq(segs, 1, Len(segs) - n)

DropOldest(segs, n) == SubSeq(segs, n + 1, Len(segs))

\* The condition of SegmentLog.drop_sealed_before on the i-th segment.
SealedBefore(segs, i, offset) == segs[i].sealed /\ EndOf(segs[i]) <= offset
=============================================================================
