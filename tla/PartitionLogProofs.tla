------------------------ MODULE PartitionLogProofs ------------------------
(***************************************************************************)
(* The partition and those who use it, for every set of records, every     *)
(* size map, every roll threshold, every retention policy and any number   *)
(* of groups: PartitionLog's own invariants, what it promises its readers  *)
(* (it implements CommitLog), and what ConsumerGroup promises each         *)
(* contract (Delivery).                                                    *)
(***************************************************************************)
EXTENDS Delivery, SequenceTheorems, NaturalsOrder, TLAPS

(***************************************************************************)
(* PartitionLog's invariants for every set of records, every size map,     *)
(* every roll threshold and every retention policy.                        *)
(*                                                                         *)
(* The segments' sizes decide only when a step rolls or trims; the         *)
(* invariants hold whichever way those decisions go, so the proofs never   *)
(* unfold SizeBytes.                                                       *)
(***************************************************************************)

(***************************************************************************)
(* The chain says where each segment begins relative to the one before it; *)
(* that a later segment begins no earlier than any older one follows only  *)
(* by induction along the chain, so it is carried as an invariant.         *)
(***************************************************************************)
OrderedOf(segs) ==
  \A i, j \in DOMAIN segs : i < j => EndOf(segs[i]) <= segs[j].base_offset

\* The inductive invariant.
IInv ==
  /\ TypeOK
  /\ SegmentChain
  /\ OffsetsAreStable
  /\ SegmentsAccounted
  /\ OrderedOf(segments)

(***************************************************************************)
(* Appending to the active segment touches the last segment's records only.*)
(***************************************************************************)
LEMMA AppendToActiveEffect ==
  ASSUME NEW segs \in Seq(Segment), segs # <<>>, NEW r \in Record
  PROVE  LET out == AppendToActive(segs, r)
             n   == Len(segs)
         IN  /\ out \in Seq(Segment)
             /\ Len(out) = n
             /\ \A i \in 1 .. n - 1 : out[i] = segs[i]
             /\ out[n].base_offset = segs[n].base_offset
             /\ out[n].sealed = segs[n].sealed
             /\ out[n].records = Append(segs[n].records, r)
<1> DEFINE n   == Len(segs)
           out == AppendToActive(segs, r)
           new == [segs[n] EXCEPT !.records = Append(@, r)]
<1>1. n \in Nat /\ n >= 1 /\ segs[n] \in Segment /\ DOMAIN segs = 1 .. n
  OBVIOUS
<1>2. new \in Segment /\ new.base_offset = segs[n].base_offset
      /\ new.sealed = segs[n].sealed /\ new.records = Append(segs[n].records, r)
  <2>1. segs[n].records \in Seq(Record)
    BY <1>1 DEF Segment
  <2>2. Append(segs[n].records, r) \in Seq(Record)
    BY <2>1
  <2> QED
    BY <1>1, <2>2 DEF Segment
<1>3. out = [segs EXCEPT ![n] = new]
  BY <1>1 DEF AppendToActive
<1> QED
  BY <1>1, <1>2, <1>3

(***************************************************************************)
(* Rolling seals the active segment and opens an empty one at its end.     *)
(***************************************************************************)
LEMMA RolledEffect ==
  ASSUME NEW segs \in Seq(Segment), segs # <<>>
  PROVE  LET out == Rolled(segs)
             n   == Len(segs)
         IN  /\ out \in Seq(Segment)
             /\ out # <<>>
             /\ Len(out) = n + 1
             /\ \A i \in 1 .. n - 1 : out[i] = segs[i]
             /\ out[n].base_offset = segs[n].base_offset
             /\ out[n].records = segs[n].records
             /\ out[n].sealed
             /\ out[n + 1] = NewSegment(EndOf(segs[n]))
<1> DEFINE n   == Len(segs)
           old == [segs[n] EXCEPT !.sealed = TRUE]
           pre == [segs EXCEPT ![n] = old]
           new == NewSegment(EndOf(segs[n]))
<1>1. n \in Nat /\ n >= 1 /\ segs[n] \in Segment /\ DOMAIN segs = 1 .. n
  OBVIOUS
<1>2. old \in Segment /\ old.base_offset = segs[n].base_offset
      /\ old.records = segs[n].records /\ old.sealed
  BY <1>1 DEF Segment
<1>3. new \in Segment
  BY <1>1 DEF Segment, NewSegment, EndOf
<1>4. pre \in Seq(Segment) /\ Len(pre) = n /\ pre[n] = old
      /\ \A i \in 1 .. n - 1 : pre[i] = segs[i]
  BY <1>1, <1>2
<1>5. Rolled(segs) = Append(pre, new)
  BY <1>1 DEF Rolled, NextOffset
<1> DEFINE out == Append(pre, new)
<1> HIDE DEF pre, old, new
<1>6. /\ out \in Seq(Segment)
      /\ out # <<>>
      /\ Len(out) = n + 1
      /\ \A i \in 1 .. n : out[i] = pre[i]
      /\ out[n + 1] = new
  BY <1>3, <1>4, AppendProperties
<1> HIDE DEF out
<1>7. out[n] = old /\ \A i \in 1 .. n - 1 : out[i] = segs[i]
  BY <1>1, <1>4, <1>6
<1>8. Rolled(segs) = out /\ new = NewSegment(EndOf(segs[n]))
  BY <1>5 DEF out, new
<1> QED
  BY <1>2, <1>6, <1>7, <1>8

(***************************************************************************)
(* Dropping the n oldest segments keeps the rest, renumbered.              *)
(***************************************************************************)
LEMMA DropOldestEffect ==
  ASSUME NEW segs \in Seq(Segment), NEW n \in 0 .. Len(segs) - 1
  PROVE  LET out == DropOldest(segs, n)
         IN  /\ out \in Seq(Segment)
             /\ Len(out) = Len(segs) - n
             /\ out # <<>>
             /\ \A i \in 1 .. Len(segs) - n : out[i] = segs[i + n]
<1>1. Len(segs) \in Nat /\ n + 1 \in 1 .. Len(segs) + 1
  BY LenProperties
<1>2. /\ DropOldest(segs, n) \in Seq(Segment)
      /\ Len(DropOldest(segs, n)) = Len(segs) - n
  BY <1>1, SubSeqProperties DEF DropOldest
<1>3. \A i \in 1 .. Len(segs) - n : DropOldest(segs, n)[i] = segs[i + n]
  BY <1>1, SubSeqProperties DEF DropOldest
<1>4. DropOldest(segs, n) # <<>>
  BY <1>1, <1>2
<1> QED
  BY <1>2, <1>3, <1>4

(***************************************************************************)
(* SegmentChain and OffsetsAreStable as predicates of a segment list, so   *)
(* that each helper of segmentlog.py has one lemma saying it keeps them.   *)
(***************************************************************************)
ChainOf(segs) ==
  /\ \A i \in 1 .. Len(segs) - 1 :
       /\ segs[i].sealed
       /\ segs[i].records # <<>>
       /\ segs[i + 1].base_offset = EndOf(segs[i])
  /\ ~segs[Len(segs)].sealed

\* OffsetsAreStable, over the segments and the records written.
StableOf(segs, written) ==
  \A i \in DOMAIN segs : \A k \in DOMAIN segs[i].records :
    /\ segs[i].base_offset + k \in DOMAIN written
    /\ segs[i].records[k] = written[segs[i].base_offset + k]

(***************************************************************************)
(* A segment's fields have their types and its end is not before its base. *)
(***************************************************************************)
LEMMA SegmentFields ==
  ASSUME NEW seg \in Segment
  PROVE  /\ seg.base_offset \in Nat
         /\ seg.records \in Seq(Record)
         /\ seg.sealed \in BOOLEAN
         /\ Len(seg.records) \in Nat
         /\ EndOf(seg) \in Nat
         /\ EndOf(seg) = seg.base_offset + Len(seg.records)
         /\ DOMAIN seg.records = 1 .. Len(seg.records)
<1>1. seg.base_offset \in Nat /\ seg.records \in Seq(Record) /\ seg.sealed \in BOOLEAN
  BY DEF Segment
<1>2. Len(seg.records) \in Nat /\ DOMAIN seg.records = 1 .. Len(seg.records)
  BY <1>1, LenProperties
<1> QED
  BY <1>1, <1>2 DEF EndOf

(***************************************************************************)
(* Segment._roll keeps the chain whole, moves no record and leaves the end *)
(* of the log where it was, provided the sealed segment was not empty.     *)
(***************************************************************************)
LEMMA RollKeepsChain ==
  ASSUME NEW segs \in Seq(Segment), segs # <<>>, ChainOf(segs),
         NEW written, StableOf(segs, written),
         segs[Len(segs)].records # <<>>
  PROVE  LET out == Rolled(segs)
         IN  /\ ChainOf(out)
             /\ StableOf(out, written)
             /\ NextOffset(out) = NextOffset(segs)
<1> DEFINE n   == Len(segs)
           out == Rolled(segs)
<1>1. /\ out \in Seq(Segment) /\ out # <<>> /\ Len(out) = n + 1
      /\ \A i \in 1 .. n - 1 : out[i] = segs[i]
      /\ out[n].base_offset = segs[n].base_offset
      /\ out[n].records = segs[n].records
      /\ out[n].sealed
      /\ out[n + 1] = NewSegment(EndOf(segs[n]))
  BY RolledEffect
<1>2. n \in Nat /\ n >= 1 /\ DOMAIN segs = 1 .. n /\ DOMAIN out = 1 .. n + 1
  BY <1>1, LenProperties
<1>3. segs[n] \in Segment /\ EndOf(segs[n]) \in Nat
  BY <1>2, SegmentFields
<1> HIDE DEF out, n
<1>4. /\ out[n + 1].base_offset = EndOf(segs[n])
      /\ out[n + 1].records = <<>>
      /\ ~out[n + 1].sealed
  BY <1>1 DEF NewSegment
<1>5. \A i \in 1 .. n : /\ EndOf(out[i]) = EndOf(segs[i])
                        /\ out[i].base_offset = segs[i].base_offset
                        /\ out[i].records = segs[i].records
  BY <1>1, <1>2 DEF EndOf
<1>6. ChainOf(out)
  <2> SUFFICES ASSUME NEW i \in 1 .. n
               PROVE  /\ out[i].sealed
                      /\ out[i].records # <<>>
                      /\ out[i + 1].base_offset = EndOf(out[i])
    BY <1>1, <1>2, <1>4 DEF ChainOf
  <2>1. CASE i = n
    BY <2>1, <1>1, <1>2, <1>4, <1>5
  <2>2. CASE i # n
    <3>1. i \in 1 .. n - 1 /\ i + 1 \in 1 .. n
      BY <2>2, <1>2
    <3> QED
      BY <3>1, <1>1, <1>2, <1>5 DEF ChainOf, n
  <2> QED
    BY <2>1, <2>2
<1>7. StableOf(out, written)
  <2> SUFFICES ASSUME NEW i \in 1 .. n + 1, NEW k \in DOMAIN out[i].records
               PROVE  /\ out[i].base_offset + k \in DOMAIN written
                      /\ out[i].records[k] = written[out[i].base_offset + k]
    BY <1>2 DEF StableOf
  <2>1. i # n + 1
    BY <1>4
  <2>2. i \in 1 .. n
    BY <2>1, <1>2
  <2> QED
    BY <2>2, <1>2, <1>5 DEF StableOf
<1>8. NextOffset(out) = NextOffset(segs)
  <2>1. EndOf(out[n + 1]) = EndOf(segs[n])
    BY <1>3, <1>4 DEF EndOf
  <2> QED
    BY <2>1, <1>1 DEF NextOffset, n
<1> QED
  BY <1>6, <1>7, <1>8 DEF out

(***************************************************************************)
(* Segment.append keeps the chain whole and gives the record the offset    *)
(* the log ended at.                                                       *)
(***************************************************************************)
LEMMA AppendKeepsChain ==
  ASSUME NEW segs \in Seq(Segment), segs # <<>>, ChainOf(segs),
         NEW written \in Seq(Record), StableOf(segs, written),
         NextOffset(segs) = Len(written),
         NEW r \in Record
  PROVE  LET out == AppendToActive(segs, r)
         IN  /\ ChainOf(out)
             /\ StableOf(out, Append(written, r))
             /\ NextOffset(out) = NextOffset(segs) + 1
<1> DEFINE n   == Len(segs)
           out == AppendToActive(segs, r)
           all == Append(written, r)
<1>1. /\ out \in Seq(Segment)
      /\ Len(out) = n
      /\ \A i \in 1 .. n - 1 : out[i] = segs[i]
      /\ out[n].base_offset = segs[n].base_offset
      /\ out[n].sealed = segs[n].sealed
      /\ out[n].records = Append(segs[n].records, r)
  BY AppendToActiveEffect
<1>2. n \in Nat /\ n >= 1 /\ DOMAIN segs = 1 .. n /\ DOMAIN out = 1 .. n
  BY <1>1, LenProperties
<1>3. /\ segs[n] \in Segment
      /\ segs[n].records \in Seq(Record)
      /\ Len(segs[n].records) \in Nat
      /\ segs[n].base_offset \in Nat
      /\ DOMAIN segs[n].records = 1 .. Len(segs[n].records)
  BY <1>2, SegmentFields
<1>4. /\ Len(out[n].records) = Len(segs[n].records) + 1
      /\ \A k \in 1 .. Len(segs[n].records) : out[n].records[k] = segs[n].records[k]
      /\ out[n].records[Len(segs[n].records) + 1] = r
      /\ out[n].records \in Seq(Record)
  BY <1>1, <1>3, AppendProperties
<1>5. /\ all \in Seq(Record)
      /\ Len(written) \in Nat
      /\ DOMAIN written = 1 .. Len(written)
      /\ DOMAIN all = 1 .. Len(written) + 1
      /\ \A k \in 1 .. Len(written) : all[k] = written[k]
      /\ all[Len(written) + 1] = r
  BY AppendProperties, LenProperties
<1>6. Len(written) = segs[n].base_offset + Len(segs[n].records)
  BY DEF NextOffset, EndOf
<1> HIDE DEF out, all, n
<1>7. ChainOf(out)
  <2>1. \A i \in 1 .. n : out[i].base_offset = segs[i].base_offset
    BY <1>1, <1>2
  <2>2. ASSUME NEW i \in 1 .. n - 1
        PROVE  /\ out[i].sealed
               /\ out[i].records # <<>>
               /\ out[i + 1].base_offset = EndOf(out[i])
    <3>1. out[i] = segs[i] /\ out[i + 1].base_offset = segs[i + 1].base_offset
      BY <1>1, <1>2, <2>1
    <3> QED
      BY <3>1 DEF ChainOf, n
  <2> QED
    BY <2>2, <1>1 DEF ChainOf, n
<1>8. StableOf(out, all)
  <2> SUFFICES ASSUME NEW i \in 1 .. n, NEW k \in DOMAIN out[i].records
               PROVE  /\ out[i].base_offset + k \in DOMAIN all
                      /\ out[i].records[k] = all[out[i].base_offset + k]
    BY <1>2 DEF StableOf
  <2>1. CASE i # n
    <3>1. out[i] = segs[i]
      BY <2>1, <1>1, <1>2
    <3>2. /\ segs[i].base_offset + k \in DOMAIN written
          /\ segs[i].records[k] = written[segs[i].base_offset + k]
      BY <3>1, <1>2 DEF StableOf
    <3> QED
      BY <3>1, <3>2, <1>5
  <2>2. CASE i = n /\ k \in DOMAIN segs[n].records
    <3>1. /\ segs[n].base_offset + k \in DOMAIN written
          /\ segs[n].records[k] = written[segs[n].base_offset + k]
      BY <2>2, <1>2 DEF StableOf
    <3> QED
      BY <3>1, <2>2, <1>1, <1>3, <1>4, <1>5
  <2>3. CASE i = n /\ k \notin DOMAIN segs[n].records
    <3>1. DOMAIN out[n].records = 1 .. Len(segs[n].records) + 1
      BY <1>4, LenProperties
    <3> DEFINE len == Len(segs[n].records)
    <3>a. /\ len \in Nat /\ DOMAIN segs[n].records = 1 .. len
          /\ k \in DOMAIN out[n].records
      BY <2>3, <1>3, LenProperties
    <3>b. k \in 1 .. len + 1 /\ k \notin 1 .. len
      BY <3>1, <3>a, <2>3
    <3> HIDE DEF len
    <3>c. k = len + 1
      BY <3>a, <3>b
    <3>2. k = Len(segs[n].records) + 1
      BY <3>c DEF len
    <3>3. out[i].records[k] = r
      BY <3>2, <2>3, <1>4
    <3> DEFINE base == segs[n].base_offset
    <3>d. out[i].base_offset = base /\ base \in Nat /\ Len(written) = base + len
      BY <2>3, <1>1, <1>3, <1>6 DEF len
    <3> HIDE DEF base
    <3>4. out[i].base_offset + k = Len(written) + 1
      BY <3>a, <3>c, <3>d
    <3>5. Len(written) + 1 \in DOMAIN all /\ all[Len(written) + 1] = r
      BY <1>5
    <3> QED
      BY <3>3, <3>4, <3>5
  <2> QED
    BY <2>1, <2>2, <2>3
<1>9. NextOffset(out) = NextOffset(segs) + 1
  BY <1>1, <1>3, <1>4 DEF NextOffset, EndOf, n
<1> QED
  BY <1>7, <1>8, <1>9 DEF out, all

(***************************************************************************)
(* Popping the n oldest segments (never the last) keeps the chain whole    *)
(* and leaves the end of the log where it was.                             *)
(***************************************************************************)
LEMMA DropKeepsChain ==
  ASSUME NEW segs \in Seq(Segment), segs # <<>>, ChainOf(segs),
         NEW written, StableOf(segs, written),
         NEW n \in 0 .. Len(segs) - 1
  PROVE  LET out == DropOldest(segs, n)
         IN  /\ ChainOf(out)
             /\ StableOf(out, written)
             /\ NextOffset(out) = NextOffset(segs)
<1> DEFINE out == DropOldest(segs, n)
           m   == Len(segs) - n
<1>1. /\ out \in Seq(Segment) /\ Len(out) = m /\ out # <<>>
      /\ \A i \in 1 .. m : out[i] = segs[i + n]
  BY DropOldestEffect
<1>2. /\ Len(segs) \in Nat /\ n \in Nat /\ m \in Nat /\ m >= 1 /\ m + n = Len(segs)
      /\ DOMAIN segs = 1 .. Len(segs) /\ DOMAIN out = 1 .. m
  BY <1>1, LenProperties
<1>3. out[m] = segs[Len(segs)]
  BY <1>1, <1>2
<1> HIDE DEF out
<1>4. ASSUME NEW i \in 1 .. m - 1
      PROVE  /\ out[i].sealed
             /\ out[i].records # <<>>
             /\ out[i + 1].base_offset = EndOf(out[i])
  <2>1. /\ i + n \in 1 .. Len(segs) - 1
        /\ i \in 1 .. m /\ i + 1 \in 1 .. m
        /\ (i + 1) + n = (i + n) + 1
    BY <1>2
  <2>2. out[i] = segs[i + n] /\ out[i + 1] = segs[(i + n) + 1]
    BY <2>1, <1>1
  <2> QED
    BY <2>1, <2>2 DEF ChainOf
<1>5. StableOf(out, written)
  <2> SUFFICES ASSUME NEW i \in 1 .. m, NEW k \in DOMAIN out[i].records
               PROVE  /\ out[i].base_offset + k \in DOMAIN written
                      /\ out[i].records[k] = written[out[i].base_offset + k]
    BY <1>2 DEF StableOf
  <2>1. out[i] = segs[i + n] /\ i + n \in DOMAIN segs
    BY <1>1, <1>2
  <2> QED
    BY <2>1 DEF StableOf
<1> QED
  BY <1>1, <1>3, <1>4, <1>5 DEF ChainOf, NextOffset, out

(***************************************************************************)
(* No helper puts a segment before one that is older.                      *)
(***************************************************************************)
LEMMA RollKeepsOrder ==
  ASSUME NEW segs \in Seq(Segment), segs # <<>>, OrderedOf(segs)
  PROVE  OrderedOf(Rolled(segs))
<1> DEFINE n   == Len(segs)
           out == Rolled(segs)
<1>1. /\ out \in Seq(Segment) /\ out # <<>> /\ Len(out) = n + 1
      /\ \A i \in 1 .. n - 1 : out[i] = segs[i]
      /\ out[n].base_offset = segs[n].base_offset
      /\ out[n].records = segs[n].records
      /\ out[n + 1] = NewSegment(EndOf(segs[n]))
  BY RolledEffect
<1>2. n \in Nat /\ n >= 1 /\ DOMAIN segs = 1 .. n /\ DOMAIN out = 1 .. n + 1
  BY <1>1, LenProperties
<1>3. \A i \in 1 .. n : segs[i] \in Segment
  BY <1>2
<1> HIDE DEF out, n
<1>4. out[n + 1].base_offset = EndOf(segs[n])
  BY <1>1 DEF NewSegment
<1>5. \A i \in 1 .. n : /\ EndOf(out[i]) = EndOf(segs[i])
                        /\ out[i].base_offset = segs[i].base_offset
  BY <1>1, <1>2 DEF EndOf
<1>6. \A i \in 1 .. n : /\ EndOf(segs[i]) \in Nat
                        /\ segs[i].base_offset \in Nat
                        /\ segs[i].base_offset <= EndOf(segs[i])
  BY <1>3, SegmentFields
<1> SUFFICES ASSUME NEW i \in 1 .. n + 1, NEW j \in 1 .. n + 1, i < j
             PROVE  EndOf(out[i]) <= out[j].base_offset
  BY <1>2 DEF OrderedOf, out
<1>7. CASE j \in 1 .. n
  BY <1>7, <1>2, <1>5 DEF OrderedOf
<1>8. CASE j = n + 1
  <2>1. i \in 1 .. n
    BY <1>8, <1>2
  <2>2. i = n \/ EndOf(segs[i]) <= segs[n].base_offset
    BY <2>1, <1>2 DEF OrderedOf
  <2> QED
    BY <2>1, <2>2, <1>2, <1>4, <1>5, <1>6, <1>8
<1> QED
  BY <1>7, <1>8, <1>2

\* Segment.append leaves the order of the segments alone.
LEMMA AppendKeepsOrder ==
  ASSUME NEW segs \in Seq(Segment), segs # <<>>, OrderedOf(segs), NEW r \in Record
  PROVE  OrderedOf(AppendToActive(segs, r))
<1> DEFINE n   == Len(segs)
           out == AppendToActive(segs, r)
<1>1. /\ out \in Seq(Segment)
      /\ Len(out) = n
      /\ \A i \in 1 .. n - 1 : out[i] = segs[i]
      /\ out[n].base_offset = segs[n].base_offset
  BY AppendToActiveEffect
<1>2. n \in Nat /\ n >= 1 /\ DOMAIN segs = 1 .. n /\ DOMAIN out = 1 .. n
  BY <1>1, LenProperties
<1> HIDE DEF out, n
<1> SUFFICES ASSUME NEW i \in 1 .. n, NEW j \in 1 .. n, i < j
             PROVE  EndOf(out[i]) <= out[j].base_offset
  BY <1>2 DEF OrderedOf, out
<1>3. out[i] = segs[i] /\ out[j].base_offset = segs[j].base_offset
  BY <1>1, <1>2
<1> QED
  BY <1>2, <1>3 DEF OrderedOf

\* Popping the oldest segments leaves the order of the rest alone.
LEMMA DropKeepsOrder ==
  ASSUME NEW segs \in Seq(Segment), OrderedOf(segs), NEW n \in 0 .. Len(segs) - 1
  PROVE  OrderedOf(DropOldest(segs, n))
<1> DEFINE out == DropOldest(segs, n)
           m   == Len(segs) - n
<1>1. /\ out \in Seq(Segment) /\ Len(out) = m
      /\ \A i \in 1 .. m : out[i] = segs[i + n]
  BY DropOldestEffect
<1>2. /\ Len(segs) \in Nat /\ n \in Nat /\ m \in Nat /\ m + n = Len(segs)
      /\ DOMAIN segs = 1 .. Len(segs) /\ DOMAIN out = 1 .. m
  BY <1>1, LenProperties
<1> HIDE DEF out
<1> SUFFICES ASSUME NEW i \in 1 .. m, NEW j \in 1 .. m, i < j
             PROVE  EndOf(out[i]) <= out[j].base_offset
  BY <1>2 DEF OrderedOf, out
<1>3. /\ out[i] = segs[i + n] /\ out[j] = segs[j + n]
      /\ i + n \in DOMAIN segs /\ j + n \in DOMAIN segs /\ i + n < j + n
  BY <1>1, <1>2
<1> QED
  BY <1>3 DEF OrderedOf

(***************************************************************************)
(* The invariant, restated over the helpers' predicates.                   *)
(***************************************************************************)
LEMMA IInvParts ==
  IInv <=> /\ TypeOK
           /\ ChainOf(segments)
           /\ StableOf(segments, appended)
           /\ NextOffset(segments) = Len(appended)
           /\ high_watermark <= NextOffset(segments)
           /\ SegmentsAccounted
           /\ OrderedOf(segments)
  BY DEF IInv, SegmentChain, OffsetsAreStable, ChainOf, StableOf

\* The freshly created partition satisfies the invariant.
LEMMA InitIInv == Init => IInv
<1> SUFFICES ASSUME Init PROVE IInv
  OBVIOUS
<1>1. NewSegment(0) \in Segment
  BY DEF NewSegment, Segment
<1>2. segments \in Seq(Segment) /\ Len(segments) = 1 /\ segments[1] = NewSegment(0)
  BY <1>1 DEF Init
<1>3. OrderedOf(segments)
  BY <1>2 DEF OrderedOf
<1> QED
  BY <1>2, <1>3 DEF Init, IInv, TypeOK, SegmentChain, OffsetsAreStable, SegmentsAccounted,
                    NewSegment, NextOffset, EndOf

(***************************************************************************)
(* SegmentLog.append, rolling or not, preserves the invariant.             *)
(***************************************************************************)
LEMMA AppendRecIInv ==
  ASSUME IInv, NEW r \in Record, AppendRec(r)
  PROVE  IInv'
<1> DEFINE base == IF MustRoll(segments, r) THEN Rolled(segments) ELSE segments
<1>1. /\ segments \in Seq(Segment) /\ segments # <<>>
      /\ appended \in Seq(Record)
      /\ ChainOf(segments) /\ StableOf(segments, appended) /\ OrderedOf(segments)
      /\ NextOffset(segments) = Len(appended)
      /\ Len(segments) \in Nat /\ Len(appended) \in Nat
  BY IInvParts, LenProperties DEF TypeOK
<1>2. /\ base \in Seq(Segment) /\ base # <<>>
      /\ ChainOf(base) /\ StableOf(base, appended) /\ OrderedOf(base)
      /\ NextOffset(base) = Len(appended)
      /\ Len(base) = Len(segments) + (rolls' - rolls)
      /\ rolls' \in Nat
  <2>1. CASE MustRoll(segments, r)
    <3>1. segments[Len(segments)].records # <<>>
      BY <2>1 DEF MustRoll
    <3>2. base = Rolled(segments) /\ rolls' = rolls + 1
      BY <2>1 DEF AppendRec
    <3>3. Rolled(segments) \in Seq(Segment) /\ Rolled(segments) # <<>>
          /\ Len(Rolled(segments)) = Len(segments) + 1
      BY <1>1, RolledEffect
    <3>4. ChainOf(Rolled(segments)) /\ StableOf(Rolled(segments), appended)
          /\ NextOffset(Rolled(segments)) = NextOffset(segments)
      BY <1>1, <3>1, RollKeepsChain
    <3>5. OrderedOf(Rolled(segments))
      BY <1>1, RollKeepsOrder
    <3>6. rolls \in Nat
      BY DEF IInv, TypeOK
    <3> HIDE DEF base
    <3> QED
      BY <1>1, <3>2, <3>3, <3>4, <3>5, <3>6
  <2>2. CASE ~MustRoll(segments, r)
    <3>1. base = segments /\ rolls' = rolls /\ rolls \in Nat
      BY <2>2 DEF AppendRec, IInv, TypeOK
    <3> HIDE DEF base
    <3> QED
      BY <1>1, <3>1
  <2> QED
    BY <2>1, <2>2
<1>3. segments' = AppendToActive(base, r)
  BY DEF AppendRec, AppendRecord
<1>4. /\ appended' = Append(appended, r)
      /\ UNCHANGED <<high_watermark, reclaimed_segments, now, dropped>>
  BY DEF AppendRec, retVars
<1> HIDE DEF base
<1>5. segments' \in Seq(Segment) /\ Len(segments') = Len(base)
  BY <1>2, <1>3, AppendToActiveEffect
<1>6. /\ ChainOf(segments') /\ StableOf(segments', appended')
      /\ NextOffset(segments') = Len(appended) + 1
  BY <1>1, <1>2, <1>3, <1>4, AppendKeepsChain
<1>7. OrderedOf(segments')
  BY <1>2, <1>3, AppendKeepsOrder
<1>8. appended' \in Seq(Record) /\ Len(appended') = Len(appended) + 1
  BY <1>1, <1>4, AppendProperties
<1>9. segments' # <<>>
  BY <1>2, <1>5, EmptySeq
<1>10. TypeOK'
  BY <1>2, <1>4, <1>5, <1>8, <1>9 DEF IInv, TypeOK
<1>11. high_watermark' <= NextOffset(segments')
  BY <1>1, <1>4, <1>6, IInvParts DEF TypeOK
<1>12. SegmentsAccounted'
  <2>1. /\ rolls \in Nat /\ reclaimed_segments \in Nat /\ dropped \in Nat
        /\ rolls = (Len(segments) - 1) + reclaimed_segments + dropped
    BY DEF IInv, TypeOK, SegmentsAccounted
  <2>2. Len(segments') = Len(segments) + (rolls' - rolls)
    BY <1>2, <1>5
  <2>3. /\ Len(segments) \in Nat /\ rolls' \in Nat
        /\ reclaimed_segments' = reclaimed_segments /\ dropped' = dropped
    BY <1>1, <1>2, <1>4
  <2>4. \A o, a, d, r1, r2 \in Nat, l \in Int :
           r1 = (o - 1) + a + d /\ l = o + (r2 - r1) => r2 = (l - 1) + a + d
    OBVIOUS
  <2>5. Len(segments') \in Nat
    BY <1>5, LenProperties
  <2>6. rolls' = (Len(segments') - 1) + reclaimed_segments' + dropped'
    BY <2>1, <2>2, <2>3, <2>4, <2>5, SMTT(30)
  <2> QED
    BY <2>6 DEF SegmentsAccounted
<1>13. NextOffset(segments') = Len(appended')
  BY <1>6, <1>8
<1> QED
  BY <1>6, <1>7, <1>10, <1>11, <1>12, <1>13
  DEF IInv, SegmentChain, OffsetsAreStable, ChainOf, StableOf

(***************************************************************************)
(* Both trimming loops pop the n oldest segments, fewer than all of them.  *)
(***************************************************************************)
LEMMA TrimIInv ==
  ASSUME IInv, NEW n \in 0 .. Len(segments) - 1,
         segments' = DropOldest(segments, n),
         UNCHANGED <<rolls, high_watermark, now, appended>>,
         NEW by_retention \in Nat, NEW by_drop \in Nat, n = by_retention + by_drop,
         reclaimed_segments' = reclaimed_segments + by_retention,
         dropped' = dropped + by_drop
  PROVE  IInv'
<1>1. /\ segments \in Seq(Segment) /\ segments # <<>>
      /\ ChainOf(segments) /\ StableOf(segments, appended) /\ OrderedOf(segments)
      /\ Len(segments) \in Nat
  BY IInvParts, LenProperties DEF TypeOK
<1>2. segments' \in Seq(Segment) /\ segments' # <<>> /\ Len(segments') = Len(segments) - n
  BY <1>1, DropOldestEffect
<1>3. /\ ChainOf(segments') /\ StableOf(segments', appended)
      /\ NextOffset(segments') = NextOffset(segments)
  BY <1>1, DropKeepsChain
<1>4. OrderedOf(segments')
  BY <1>1, DropKeepsOrder
<1>5. TypeOK'
  BY <1>2 DEF IInv, TypeOK
<1>6. SegmentsAccounted'
  <2>1. /\ rolls \in Nat /\ reclaimed_segments \in Nat /\ dropped \in Nat
        /\ rolls = (Len(segments) - 1) + reclaimed_segments + dropped
    BY DEF IInv, TypeOK, SegmentsAccounted
  <2>2. n \in Int /\ Len(segments) \in Int /\ Len(segments') = Len(segments) - n
    BY <1>1, <1>2
  <2>3. rolls' = (Len(segments') - 1) + reclaimed_segments' + dropped'
    BY <2>1, <2>2
  <2> QED
    BY <2>3 DEF SegmentsAccounted
<1>7. NextOffset(segments') = Len(appended') /\ high_watermark' <= NextOffset(segments')
  BY <1>3, IInvParts
<1> QED
  BY <1>3, <1>4, <1>5, <1>6, <1>7
  DEF IInv, SegmentChain, OffsetsAreStable, ChainOf, StableOf

\* Every operation of the partition preserves the invariant.
LEMMA NextIInv == IInv /\ [Next]_vars => IInv'
<1> SUFFICES ASSUME IInv, [Next]_vars PROVE IInv'
  OBVIOUS
<1>1. ASSUME NEW r \in Record, AppendRec(r) PROVE IInv'
  BY <1>1, AppendRecIInv
<1>2. ASSUME NEW to_offset \in 0 .. NextOffset(segments), AdvanceWatermark(to_offset)
      PROVE  IInv'
  BY <1>2 DEF AdvanceWatermark, retVars, clockVars, histVars, IInv, TypeOK, SegmentChain,
              OffsetsAreStable, SegmentsAccounted, OrderedOf
<1>3. ASSUME NEW offset \in 0 .. NextOffset(segments), DropSealedBefore(offset)
      PROVE  IInv'
  <2>1. PICK n \in 0 .. Len(segments) - 1 :
          /\ segments' = DropOldest(segments, n)
          /\ dropped' = dropped + n
          /\ UNCHANGED <<rolls, high_watermark, retVars, clockVars, appended>>
    BY <1>3 DEF DropSealedBefore
  <2>2. n \in Nat /\ dropped \in Nat /\ reclaimed_segments \in Nat
    BY LenProperties DEF IInv, TypeOK
  <2> QED
    BY <2>1, <2>2, TrimIInv, 0 \in Nat, n = 0 + n, reclaimed_segments = reclaimed_segments + 0
    DEF retVars, clockVars
<1>4. ASSUME NEW floor \in 0 .. NextOffset(segments), RetentionApply(floor)
      PROVE  IInv'
  <2>1. PICK n \in 0 .. Len(segments) - 1 :
          /\ segments' = DropOldest(segments, n)
          /\ reclaimed_segments' = reclaimed_segments + n
          /\ UNCHANGED <<rolls, high_watermark, clockVars, histVars>>
    BY <1>4 DEF RetentionApply
  <2>2. n \in Nat /\ dropped \in Nat /\ reclaimed_segments \in Nat
    BY LenProperties DEF IInv, TypeOK
  <2> QED
    BY <2>1, <2>2, TrimIInv, 0 \in Nat, n = n + 0, dropped = dropped + 0
    DEF clockVars, histVars
<1>5. CASE Tick
  BY <1>5 DEF Tick, logVars, retVars, histVars, IInv, TypeOK, SegmentChain,
              OffsetsAreStable, SegmentsAccounted, OrderedOf
<1>6. CASE UNCHANGED vars
  BY <1>6 DEF vars, logVars, retVars, clockVars, histVars, IInv, TypeOK, SegmentChain,
              OffsetsAreStable, SegmentsAccounted, OrderedOf
<1> QED
  BY <1>1, <1>2, <1>3, <1>4, <1>5, <1>6 DEF Next

(***************************************************************************)
(* In every behaviour of the partition, the state is well typed, the       *)
(* segments form a chain, every stored record sits at the offset it was    *)
(* appended at, and every roll is accounted for.                           *)
(***************************************************************************)
THEOREM InductiveInvariant == Spec => []IInv
  BY InitIInv, NextIInv, PTL DEF Spec

(***************************************************************************)
(* The state always has its type.                                          *)
(***************************************************************************)
THEOREM TypeCorrect == Spec => []TypeOK
<1>1. IInv => TypeOK
  BY DEF IInv
<1> QED
  BY <1>1, InductiveInvariant, PTL

(***************************************************************************)
(* No sequence of appends, rolls and trims breaks the segment chain.       *)
(***************************************************************************)
THEOREM ChainHolds == Spec => []SegmentChain
<1>1. IInv => SegmentChain
  BY DEF IInv
<1> QED
  BY <1>1, InductiveInvariant, PTL

(***************************************************************************)
(* A record never changes offset.                                          *)
(***************************************************************************)
THEOREM OffsetsNeverShift == Spec => []OffsetsAreStable
<1>1. IInv => OffsetsAreStable
  BY DEF IInv
<1> QED
  BY <1>1, InductiveInvariant, PTL

(***************************************************************************)
(* Every segment ever opened is in the log, reclaimed or dropped.          *)
(***************************************************************************)
THEOREM SegmentsAllAccounted == Spec => []SegmentsAccounted
<1>1. IInv => SegmentsAccounted
  BY DEF IInv
<1> QED
  BY <1>1, InductiveInvariant, PTL

(***************************************************************************)
(* What each kind of step does to the segments: an append keeps every      *)
(* sealed segment in place, a trim removes a prefix, and the first         *)
(* retained offset never moves back.                                       *)
(***************************************************************************)
LineStep == high_watermark' >= high_watermark
            /\ FirstOffset(segments') >= FirstOffset(segments)

\* A sealed segment stays as it is, or goes.
SealedStep ==
  \A i \in DOMAIN segments : segments[i].sealed =>
    \/ \E j \in DOMAIN segments' : segments'[j] = segments[i]
    \/ FirstOffset(segments') >= EndOf(segments[i])

\* A step that leaves the segments alone keeps the lines.
LEMMA SameSegmentsStep ==
  ASSUME IInv, segments' = segments, high_watermark' >= high_watermark
  PROVE  LineStep /\ SealedStep
<1>1. /\ Len(segments) \in Nat /\ Len(segments) >= 1 /\ segments[1] \in Segment
  BY LenProperties, EmptySeq DEF IInv, TypeOK
<1>2. FirstOffset(segments) \in Nat
  BY <1>1, SegmentFields DEF FirstOffset
<1> QED
  BY <1>2 DEF LineStep, SealedStep

\* SegmentLog.append keeps the lines and every sealed segment.
LEMMA AppendStep ==
  ASSUME IInv, NEW r \in Record, AppendRec(r)
  PROVE  LineStep /\ SealedStep
<1> DEFINE n    == Len(segments)
           base == IF MustRoll(segments, r) THEN Rolled(segments) ELSE segments
<1>1. /\ segments \in Seq(Segment) /\ segments # <<>> /\ n \in Nat /\ n >= 1
      /\ DOMAIN segments = 1 .. n /\ ~segments[n].sealed
      /\ high_watermark \in Nat
  BY LenProperties, EmptySeq DEF IInv, TypeOK, SegmentChain
<1>2. /\ base \in Seq(Segment) /\ base # <<>>
      /\ \A i \in 1 .. n - 1 : base[i] = segments[i]
      /\ base[n].base_offset = segments[n].base_offset
      /\ Len(base) >= n /\ Len(base) \in Nat
  <2>1. CASE MustRoll(segments, r)
    BY <2>1, <1>1, RolledEffect, LenProperties
  <2>2. CASE ~MustRoll(segments, r)
    BY <2>2, <1>1
  <2> QED
    BY <2>1, <2>2
<1>3. segments' = AppendToActive(base, r) /\ high_watermark' = high_watermark
  BY DEF AppendRec, AppendRecord
<1> HIDE DEF base, n
<1>4. /\ segments' \in Seq(Segment) /\ Len(segments') = Len(base)
      /\ \A i \in 1 .. Len(base) - 1 : segments'[i] = base[i]
      /\ segments'[Len(base)].base_offset = base[Len(base)].base_offset
      /\ DOMAIN segments' = 1 .. Len(base)
  BY <1>2, <1>3, AppendToActiveEffect, LenProperties
<1>5. \A i \in 1 .. n - 1 : i \in DOMAIN segments' /\ segments'[i] = segments[i]
  <2> DEFINE k == Len(base)
  <2>1. n \in Nat /\ k \in Nat /\ k >= n
    BY <1>1, <1>2
  <2>2. DOMAIN segments' = 1 .. k /\ \A i \in 1 .. k - 1 : segments'[i] = base[i]
    BY <1>4
  <2> HIDE DEF k
  <2>3. \A i \in 1 .. n - 1 : i \in 1 .. k - 1 /\ i \in 1 .. k
    BY <2>1
  <2>4. \A i \in 1 .. n - 1 : base[i] = segments[i]
    BY <1>2
  <2> QED
    BY <2>2, <2>3, <2>4
<1>6. SealedStep
  <2> SUFFICES ASSUME NEW i \in DOMAIN segments, segments[i].sealed
               PROVE  \E j \in DOMAIN segments' : segments'[j] = segments[i]
    BY DEF SealedStep
  <2>1. i # n
    BY <1>1
  <2>2. i \in 1 .. n - 1
    BY <2>1, <1>1
  <2> QED
    BY <2>2, <1>5
<1>7. segments'[1].base_offset = segments[1].base_offset
  <2>1. CASE n > 1
    BY <2>1, <1>1, <1>5
  <2>2. CASE n = 1 /\ Len(base) = 1
    BY <2>2, <1>2, <1>4
  <2>3. CASE n = 1 /\ Len(base) > 1
    <3>1. segments'[1] = base[1]
      BY <2>3, <1>2, <1>4
    <3> QED
      BY <3>1, <2>3, <1>2
  <2>4. n > 1 \/ (n = 1 /\ Len(base) = 1) \/ (n = 1 /\ Len(base) > 1)
    <3> DEFINE k == Len(base)
    <3>1. n \in Nat /\ n >= 1 /\ k \in Nat /\ k >= n
      BY <1>1, <1>2
    <3> HIDE DEF k
    <3>2. n > 1 \/ (n = 1 /\ k = 1) \/ (n = 1 /\ k > 1)
      BY <3>1
    <3> QED
      BY <3>2 DEF k
  <2> QED
    BY <2>1, <2>2, <2>3, <2>4
<1>8. segments[1] \in Segment /\ segments[1].base_offset \in Nat
  BY <1>1, SegmentFields
<1> QED
  BY <1>1, <1>3, <1>6, <1>7, <1>8 DEF LineStep, FirstOffset

\* A trim keeps the lines and removes sealed segments whole.
LEMMA TrimStep ==
  ASSUME IInv, NEW n \in 0 .. Len(segments) - 1,
         segments' = DropOldest(segments, n), high_watermark' = high_watermark
  PROVE  LineStep /\ SealedStep
<1> DEFINE m == Len(segments)
<1>1. /\ segments \in Seq(Segment) /\ m \in Nat /\ m >= 1 /\ n \in Nat
      /\ DOMAIN segments = 1 .. m /\ OrderedOf(segments) /\ high_watermark \in Nat
  BY LenProperties, EmptySeq DEF IInv, TypeOK
<1>2. /\ segments' \in Seq(Segment) /\ Len(segments') = m - n
      /\ \A i \in 1 .. m - n : segments'[i] = segments[i + n]
  BY <1>1, DropOldestEffect
<1>3. DOMAIN segments' = 1 .. m - n
  BY <1>2, LenProperties
<1>a. m \in Nat /\ n \in 0 .. m - 1
  BY <1>1
<1>b. 1 \in 1 .. m - n /\ 1 + n = n + 1 /\ n + 1 \in 1 .. m /\ 1 \in 1 .. m
  <2> HIDE DEF m
  <2> QED
    BY <1>a
<1>4. segments'[1] = segments[n + 1] /\ n + 1 \in 1 .. m /\ 1 \in 1 .. m
  BY <1>b, <1>2
<1>5. \A i \in 1 .. m : /\ segments[i].base_offset \in Nat
                        /\ EndOf(segments[i]) \in Nat
                        /\ segments[i].base_offset <= EndOf(segments[i])
  <2> TAKE i \in 1 .. m
  <2>1. segments[i] \in Segment
    BY <1>1
  <2> QED
    BY <2>1, SegmentFields
<1> HIDE DEF m
<1>6. \A i \in 1 .. m : i < n + 1 => EndOf(segments[i]) <= segments[n + 1].base_offset
  BY <1>1, <1>4 DEF OrderedOf
<1>7. SealedStep
  <2> SUFFICES ASSUME NEW i \in 1 .. m
               PROVE  \/ \E j \in DOMAIN segments' : segments'[j] = segments[i]
                      \/ FirstOffset(segments') >= EndOf(segments[i])
    BY <1>1 DEF SealedStep
  <2>1. CASE i <= n
    <3>1. n \in Nat /\ i \in Nat /\ i < n + 1
      BY <2>1, <1>1
    <3>2. EndOf(segments[i]) <= segments[n + 1].base_offset
      BY <3>1, <1>6
    <3>3. FirstOffset(segments') = segments[n + 1].base_offset
      BY <1>4 DEF FirstOffset
    <3>4. EndOf(segments[i]) \in Nat /\ segments[n + 1].base_offset \in Nat
      BY <1>4, <1>5
    <3> QED
      BY <3>2, <3>3, <3>4
  <2>2. CASE i > n
    <3>1. i - n \in DOMAIN segments' /\ segments'[i - n] = segments[i]
      BY <2>2, <1>1, <1>2, <1>3
    <3> QED
      BY <3>1
  <2> QED
    BY <2>1, <2>2, <1>1
<1>8. FirstOffset(segments') >= FirstOffset(segments)
  <2>1. CASE n = 0
    BY <2>1, <1>4, <1>5 DEF FirstOffset
  <2>2. CASE n > 0
    <3>1. EndOf(segments[1]) <= segments[n + 1].base_offset
      BY <2>2, <1>1, <1>4, <1>6
    <3> QED
      BY <3>1, <1>4, <1>5 DEF FirstOffset
  <2> QED
    BY <2>1, <2>2, <1>1
<1> QED
  BY <1>1, <1>7, <1>8 DEF LineStep

\* Every operation keeps the lines and the sealed segments.
LEMMA NextLines == IInv /\ [Next]_vars => LineStep /\ SealedStep
<1> SUFFICES ASSUME IInv, [Next]_vars PROVE LineStep /\ SealedStep
  OBVIOUS
<1>0. high_watermark \in Nat
  BY DEF IInv, TypeOK
<1>1. ASSUME NEW r \in Record, AppendRec(r) PROVE LineStep /\ SealedStep
  BY <1>1, AppendStep
<1>2. ASSUME NEW to_offset \in 0 .. NextOffset(segments), AdvanceWatermark(to_offset)
      PROVE  LineStep /\ SealedStep
  BY <1>2, SameSegmentsStep DEF AdvanceWatermark
<1>3. ASSUME NEW offset \in 0 .. NextOffset(segments), DropSealedBefore(offset)
      PROVE  LineStep /\ SealedStep
  <2>1. PICK n \in 0 .. Len(segments) - 1 :
          segments' = DropOldest(segments, n) /\ high_watermark' = high_watermark
    BY <1>3 DEF DropSealedBefore
  <2> QED
    BY <2>1, TrimStep
<1>4. ASSUME NEW floor \in 0 .. NextOffset(segments), RetentionApply(floor)
      PROVE  LineStep /\ SealedStep
  <2>1. PICK n \in 0 .. Len(segments) - 1 :
          segments' = DropOldest(segments, n) /\ high_watermark' = high_watermark
    BY <1>4 DEF RetentionApply
  <2> QED
    BY <2>1, TrimStep
<1>5. CASE Tick
  <2>1. segments' = segments /\ high_watermark' = high_watermark
    BY <1>5 DEF Tick, logVars
  <2> QED
    BY <2>1, <1>0, SameSegmentsStep
<1>6. CASE UNCHANGED vars
  <2>1. segments' = segments /\ high_watermark' = high_watermark
    BY <1>6 DEF vars, logVars
  <2> QED
    BY <2>1, <1>0, SameSegmentsStep
<1> QED
  BY <1>1, <1>2, <1>3, <1>4, <1>5, <1>6 DEF Next

(***************************************************************************)
(* advance_watermark and the two trimming loops move their line forward    *)
(* only.                                                                   *)
(***************************************************************************)
THEOREM LinesNeverRetreat == Spec => LinesOnlyAdvance
<1>1. IInv /\ [Next]_vars => [LineStep]_vars
  BY NextLines
<1>2. Spec => [][LineStep]_vars
  BY <1>1, InductiveInvariant, PTL DEF Spec
<1> QED
  BY <1>2, PTL DEF LinesOnlyAdvance, LineStep

(***************************************************************************)
(* A sealed segment is never written again: it stays as it is until a trim *)
(* removes it whole.                                                       *)
(***************************************************************************)
THEOREM SealedNeverChanges == Spec => SealedIsImmutable
<1>1. IInv /\ [Next]_vars => [SealedStep]_vars
  BY NextLines
<1>2. Spec => [][SealedStep]_vars
  BY <1>1, InductiveInvariant, PTL DEF Spec
<1> QED
  BY <1>2, PTL DEF SealedIsImmutable, SealedStep
----------------------------------------------------------------------------
(***************************************************************************)
(* What a partition is to those who use it, for every set of records,      *)
(* every roll threshold and every retention policy: it serves what was     *)
(* committed, it accounts for every byte, and it implements CommitLog.     *)
(***************************************************************************)

\* A record of the retained window sits in one segment, at its place.
LEMMA WindowIsHeld ==
  ASSUME IInv, NEW offset \in FirstOffset(segments) .. NextOffset(segments) - 1
  PROVE  \E i \in 1 .. Len(segments) : Holds(segments[i], offset)
<1> DEFINE N      == Len(segments)
           Before == {i \in 1 .. N : segments[i].base_offset <= offset}
<1>1. /\ N \in Nat \ {0}
      /\ \A i \in 1 .. N : /\ segments[i].base_offset \in Nat
                           /\ EndOf(segments[i]) \in Nat
  BY SegmentFields, LenProperties, EmptySeq DEF IInv, TypeOK, EndOf
<1>2. offset \in Nat /\ 1 \in Before
  BY <1>1 DEF FirstOffset, NextOffset
<1>3. Before \in SUBSET Nat /\ \A i \in Before : i <= N
  BY <1>1
<1> DEFINE k == Max(Before)
<1>4. k \in Before /\ \A i \in Before : i <= k
  <2> HIDE DEF Before
  <2> QED BY <1>1, <1>2, <1>3, MaxOfNaturals
<1> HIDE DEF k
<1>5. CASE k = N
  BY <1>1, <1>4, <1>5 DEF Holds, NextOffset
<1>6. CASE k < N
  <2>1. k \in 1 .. N - 1 /\ k + 1 \in 1 .. N /\ k + 1 \notin Before
    BY <1>1, <1>4, <1>6
  <2>2. segments[k + 1].base_offset = EndOf(segments[k])
    BY <2>1 DEF IInv, SegmentChain
  <2>3. offset < EndOf(segments[k])
    BY <1>1, <1>2, <2>1, <2>2
  <2> QED BY <1>4, <2>1, <2>3 DEF Holds
<1> QED BY <1>1, <1>4, <1>5, <1>6

(***************************************************************************)
(* Partition.consume serves every committed record that is retained.       *)
(***************************************************************************)
LEMMA CommittedServed ==
  ASSUME IInv
  PROVE  CommittedIsServed
<1> SUFFICES ASSUME NEW offset \in 0 .. high_watermark - 1
             PROVE  Consume(offset) = IF offset < FirstOffset(segments)
                                      THEN [status |-> "lagging"]
                                      ELSE [status |-> "ok", record |-> appended[offset + 1]]
  BY DEF CommittedIsServed
<1>1. /\ high_watermark \in Nat /\ high_watermark <= NextOffset(segments)
      /\ Len(segments) \in Nat \ {0}
      /\ \A i \in 1 .. Len(segments) : /\ segments[i].base_offset \in Nat
                                       /\ EndOf(segments[i]) \in Nat
                                       /\ Len(segments[i].records) \in Nat
                                       /\ segments[i].records \in Seq(Record)
  BY SegmentFields, LenProperties, EmptySeq DEF IInv, TypeOK, EndOf, SegmentChain
<1>2. NextOffset(segments) \in Nat /\ FirstOffset(segments) \in Nat
  BY <1>1 DEF NextOffset, FirstOffset
<1>3. Consume(offset) = Read(segments, offset) /\ offset < NextOffset(segments) /\ offset \in Nat
  BY <1>1, <1>2 DEF Consume
<1>4. CASE offset < FirstOffset(segments)
  BY <1>3, <1>4 DEF Read
<1>5. CASE ~(offset < FirstOffset(segments))
  <2> DEFINE I == {j \in 1 .. Len(segments) : Holds(segments[j], offset)}
             i == Min(I)
  <2>1. offset \in FirstOffset(segments) .. NextOffset(segments) - 1
    BY <1>2, <1>3, <1>5
  <2>2. I \in SUBSET Nat /\ I # {}
    BY <1>1, <2>1, WindowIsHeld
  <2>3. i \in I
    <3> HIDE DEF I
    <3> QED BY <2>2, MinOfNaturals
  <2>4. SelectInSeq(segments, LAMBDA s : Holds(s, offset)) = i
    BY <2>2 DEF SelectInSeq
  <2>5. Read(segments, offset) =
          [status |-> "ok", record |-> segments[i].records[offset - segments[i].base_offset + 1]]
    <3> HIDE DEF i
    <3>1. i # 0
      BY <2>3, <1>1
    <3> QED BY <1>2, <1>3, <1>5, <2>4, <3>1 DEF Read
  <2> HIDE DEF i
  <2> DEFINE k == offset - segments[i].base_offset + 1
  <2>6. i \in 1 .. Len(segments) /\ k \in 1 .. Len(segments[i].records)
    BY <1>1, <1>3, <2>3, SMTT(30) DEF Holds, EndOf
  <2>7. i \in DOMAIN segments /\ k \in DOMAIN segments[i].records
    BY <1>1, <2>6, SMTT(30) DEF IInv, TypeOK
  <2>8. segments[i].records[k] = appended[segments[i].base_offset + k]
    BY <2>7 DEF IInv, OffsetsAreStable
  <2>9. segments[i].base_offset + k = offset + 1
    BY <1>1, <1>3, <2>6
  <2> QED BY <1>3, <1>5, <2>5, <2>8, <2>9
<1> QED BY <1>4, <1>5
----------------------------------------------------------------------------
\* The running sums of a list of sizes.
RunningSums(s, t) ==
  /\ t \in [0 .. Len(s) -> Nat]
  /\ t[0] = 0
  /\ \A i \in 1 .. Len(s) : t[i] = t[i - 1] + s[i]

\* Total is the last running sum.
LEMMA TotalIsASum ==
  ASSUME NEW s \in Seq(Nat)
  PROVE  \E t : RunningSums(s, t) /\ Total(s) = t[Len(s)]
<1> DEFINE N == Len(s)
           Follows(h, n) == h = [i \in 0 .. n |-> IF i = 0 THEN 0 ELSE h[i - 1] + s[i]]
           upTo[i \in 0 .. N] == IF i = 0 THEN 0 ELSE upTo[i - 1] + s[i]
           Undefined == {n \in Nat : ~ \E h : Follows(h, n)}
<1>1. Undefined = {}
  <2> SUFFICES ASSUME Undefined # {} PROVE FALSE
    OBVIOUS
  <2>1. Undefined \in SUBSET Nat
    OBVIOUS
  <2>2. PICK n \in Undefined : \A o \in Undefined : n <= o
    <3> HIDE DEF Undefined
    <3> QED BY <2>1, LeastNatural
  <2>3. n # 0
    <3>1. Follows([i \in 0 .. 0 |-> 0], 0)
      OBVIOUS
    <3> QED BY <2>2, <3>1
  <2>4. n \in Nat /\ n - 1 \in Nat /\ n - 1 \notin Undefined
    <3> HIDE DEF Undefined
    <3>1. n \in Nat /\ n - 1 \in Nat
      BY <2>1, <2>2, <2>3
    <3>2. n - 1 \in Undefined => n <= n - 1
      BY <2>2
    <3> QED BY <3>1, <3>2
  <2>5. PICK h : Follows(h, n - 1)
    BY <2>4
  <2> DEFINE g == [i \in 0 .. n |-> IF i < n THEN h[i] ELSE h[n - 1] + s[n]]
  <2>6. \A i \in 0 .. n : g[i] = IF i = 0 THEN 0 ELSE g[i - 1] + s[i]
    <3> SUFFICES ASSUME NEW i \in 0 .. n
                 PROVE  g[i] = IF i = 0 THEN 0 ELSE g[i - 1] + s[i]
      OBVIOUS
    <3>1. \A j \in 0 .. n - 1 : h[j] = IF j = 0 THEN 0 ELSE h[j - 1] + s[j]
      BY <2>5
    <3>2. CASE i < n
      <4>1. i \in 0 .. n - 1 /\ g[i] = h[i] /\ (i # 0 => i - 1 \in 0 .. n /\ g[i - 1] = h[i - 1])
        BY <3>2, <2>4
      <4> QED BY <4>1, <3>1
    <3>3. CASE i = n
      <4>1. n - 1 \in 0 .. n /\ g[n] = h[n - 1] + s[n] /\ g[n - 1] = h[n - 1]
        BY <2>4
      <4> QED BY <4>1, <3>3, <2>3
    <3> QED BY <3>2, <3>3
  <2>7. Follows(g, n)
    <3>1. g = [i \in 0 .. n |-> g[i]]
      OBVIOUS
    <3> HIDE DEF g
    <3> QED BY <3>1, <2>6
  <2> QED BY <2>2, <2>7
<1>2. N \in Nat
  OBVIOUS
<1>3. Follows(upTo, N)
  <2>1. \E h : Follows(h, N)
    BY <1>1, <1>2
  <2>2. upTo = CHOOSE h : Follows(h, N)
    OBVIOUS
  <2> HIDE DEF Follows, upTo
  <2> QED BY <2>1, <2>2
<1>4. Total(s) = upTo[N]
  BY DEF Total
<1> HIDE DEF upTo
<1>5. \A i \in 0 .. N : upTo[i] = IF i = 0 THEN 0 ELSE upTo[i - 1] + s[i]
  BY <1>3
<1> DEFINE Wrong == {i \in 0 .. N : upTo[i] \notin Nat}
<1>6. Wrong = {}
  <2> SUFFICES ASSUME Wrong # {} PROVE FALSE
    OBVIOUS
  <2>1. Wrong \in SUBSET Nat
    OBVIOUS
  <2>2. PICK n \in Wrong : \A o \in Wrong : n <= o
    <3> HIDE DEF Wrong
    <3> QED BY <2>1, LeastNatural
  <2>3. n \in 0 .. N /\ upTo[n] \notin Nat /\ n # 0
    BY <2>2, <1>5
  <2>4. n - 1 \in 0 .. N /\ n - 1 \notin Wrong
    BY <2>2, <2>3
  <2>5. upTo[n] = upTo[n - 1] + s[n] /\ s[n] \in Nat
    BY <2>3, <1>5
  <2> QED BY <2>3, <2>4, <2>5
<1>7. upTo \in [0 .. N -> Nat]
  <2>1. upTo = [i \in 0 .. N |-> upTo[i]]
    BY <1>3
  <2> QED BY <2>1, <1>6
<1>8. RunningSums(s, upTo)
  BY <1>2, <1>5, <1>7 DEF RunningSums
<1> QED BY <1>4, <1>8

\* Running sums are determined by the list.
LEMMA SumsAreUnique ==
  ASSUME NEW s \in Seq(Nat), NEW t, NEW u, RunningSums(s, t), RunningSums(s, u)
  PROVE  t[Len(s)] = u[Len(s)]
<1> DEFINE N     == Len(s)
           Wrong == {i \in 0 .. N : t[i] # u[i]}
<1>1. Wrong = {}
  <2> SUFFICES ASSUME Wrong # {} PROVE FALSE
    OBVIOUS
  <2>1. Wrong \in SUBSET Nat
    OBVIOUS
  <2>2. PICK n \in Wrong : \A o \in Wrong : n <= o
    <3> HIDE DEF Wrong
    <3> QED BY <2>1, LeastNatural
  <2>3. n \in 0 .. N /\ t[n] # u[n] /\ n # 0
    BY <2>2 DEF RunningSums
  <2>4. n - 1 \in 0 .. N /\ n - 1 \notin Wrong
    BY <2>2, <2>3
  <2> QED BY <2>3, <2>4 DEF RunningSums
<1> QED BY <1>1

\* Any running sums give the total.
LEMMA TotalOf ==
  ASSUME NEW s \in Seq(Nat), NEW t, RunningSums(s, t)
  PROVE  Total(s) = t[Len(s)] /\ Total(s) \in Nat
<1>1. PICK u : RunningSums(s, u) /\ Total(s) = u[Len(s)]
  BY TotalIsASum
<1>2. t[Len(s)] \in Nat
  BY DEF RunningSums
<1> QED BY <1>1, <1>2, SumsAreUnique

(***************************************************************************)
(* Sums of lists add up.                                                   *)
(***************************************************************************)
LEMMA TotalOfConcat ==
  ASSUME NEW s \in Seq(Nat), NEW u \in Seq(Nat)
  PROVE  /\ Total(s) \in Nat /\ Total(u) \in Nat
         /\ Total(s \o u) = Total(s) + Total(u)
<1>1. PICK a : RunningSums(s, a) /\ Total(s) = a[Len(s)]
  BY TotalIsASum
<1>2. PICK b : RunningSums(u, b) /\ Total(u) = b[Len(u)]
  BY TotalIsASum
<1> DEFINE n == Len(s)
           k == Len(u)
           w == s \o u
           c == [i \in 0 .. n + k |-> IF i <= n THEN a[i] ELSE a[n] + b[i - n]]
<1>3. n \in Nat /\ k \in Nat
  OBVIOUS
<1>4. /\ w \in Seq(Nat) /\ Len(w) = n + k
      /\ \A i \in 1 .. n : w[i] = s[i]
      /\ \A j \in 1 .. k : w[n + j] = u[j]
  OBVIOUS
<1>5. a \in [0 .. n -> Nat] /\ b \in [0 .. k -> Nat] /\ a[0] = 0 /\ b[0] = 0
  BY <1>1, <1>2 DEF RunningSums
<1> HIDE DEF n, k, w
<1>6. \A i \in 0 .. n + k : i \in 0 .. n \/ \E j \in 1 .. k : i = n + j
  <2> SUFFICES ASSUME NEW i \in 0 .. n + k, i \notin 0 .. n
               PROVE  \E j \in 1 .. k : i = n + j
    OBVIOUS
  <2>1. i - n \in 1 .. k /\ i = n + (i - n)
    BY <1>3
  <2> QED BY <2>1
<1>7. /\ \A i \in 0 .. n : c[i] = a[i] /\ c[i] \in Nat
      /\ \A j \in 0 .. k : c[n + j] = a[n] + b[j] /\ c[n + j] \in Nat
  <2>1. \A i \in 0 .. n : i \in 0 .. n + k /\ i <= n
    BY <1>3
  <2>2. \A j \in 0 .. k : n + j \in 0 .. n + k /\ (n + j) - n = j /\ (n + j <= n => j = 0)
    BY <1>3
  <2>3. a[n] \in Nat
    BY <1>3, <1>5
  <2>4. \A i \in 0 .. n : c[i] = a[i] /\ c[i] \in Nat
    BY <2>1, <1>5
  <2>5. ASSUME NEW j \in 0 .. k PROVE c[n + j] = a[n] + b[j] /\ c[n + j] \in Nat
    <3>1. b[j] \in Nat
      BY <1>5
    <3>2. CASE j = 0
      <4>1. n + j = n
        BY <3>2, <1>3
      <4> HIDE DEF c
      <4> QED BY <4>1, <3>1, <3>2, <2>3, <2>4, <1>5, <1>3
    <3>3. CASE j # 0
      BY <3>1, <3>3, <2>2, <2>3
    <3> QED BY <3>2, <3>3
  <2> QED BY <2>4, <2>5
<1>13. c \in [0 .. n + k -> Nat]
  <2>1. c = [i \in 0 .. n + k |-> c[i]]
    OBVIOUS
  <2> HIDE DEF c
  <2>2. ASSUME NEW i \in 0 .. n + k PROVE c[i] \in Nat
    <3>1. CASE i \in 0 .. n
      BY <3>1, <1>7
    <3>2. ASSUME NEW j \in 1 .. k, i = n + j PROVE c[i] \in Nat
      <4>1. j \in 0 .. k
        BY <1>3
      <4> QED BY <3>2, <4>1, <1>7
    <3> QED BY <3>1, <3>2, <1>6
  <2> QED BY <2>1, <2>2
<1> HIDE DEF c
<1>8. ASSUME NEW i \in 1 .. n + k PROVE c[i] = c[i - 1] + w[i]
  <2>1. CASE i \in 1 .. n
    <3>1. i \in 0 .. n /\ i - 1 \in 0 .. n
      BY <2>1, <1>3
    <3>2. a[i] = a[i - 1] + s[i]
      BY <2>1, <1>1 DEF RunningSums, n
    <3> QED BY <2>1, <3>1, <3>2, <1>4, <1>7
  <2>2. CASE i \notin 1 .. n
    <3>1. PICK j \in 1 .. k : i = n + j
      BY <2>2, <1>3, <1>6
    <3>2. j - 1 \in 0 .. k /\ j \in 0 .. k /\ i - 1 = n + (j - 1)
      BY <3>1, <1>3
    <3>3. b[j] = b[j - 1] + u[j] /\ u[j] \in Nat
      BY <1>2 DEF RunningSums, k
    <3>4. b[j - 1] \in Nat /\ a[n] \in Nat
      BY <3>2, <1>3, <1>5
    <3>5. c[i] = a[n] + b[j] /\ c[i - 1] = a[n] + b[j - 1] /\ w[i] = u[j]
      BY <3>1, <3>2, <1>4, <1>7
    <3> QED BY <3>3, <3>4, <3>5
  <2> QED BY <2>1, <2>2
<1>9. RunningSums(w, c)
  BY <1>3, <1>4, <1>5, <1>7, <1>8, <1>13, SMTT(30) DEF RunningSums
<1>10. Total(w) = c[n + k]
  BY <1>4, <1>9, TotalOf
<1>11. c[n + k] = a[n] + b[k]
  BY <1>3, <1>7
<1>12. Total(s) \in Nat /\ Total(u) \in Nat
  BY <1>1, <1>2, TotalOf
<1> QED BY <1>1, <1>2, <1>10, <1>11, <1>12 DEF w, n, k

\* One more size, and none at all.
LEMMA TotalOfAppend ==
  ASSUME NEW s \in Seq(Nat), NEW x \in Nat
  PROVE  Total(s) \in Nat /\ Total(Append(s, x)) = Total(s) + x /\ Total(<<>>) = 0
<1>1. <<x>> \in Seq(Nat) /\ Append(s, x) = s \o <<x>>
  OBVIOUS
<1> DEFINE t == [i \in 0 .. 1 |-> IF i = 0 THEN 0 ELSE x]
           z == [i \in 0 .. 0 |-> 0]
<1>2. RunningSums(<<x>>, t) /\ t[Len(<<x>>)] = x
  BY DEF RunningSums
<1>3. Total(<<x>>) = x
  <2> HIDE DEF t
  <2> QED BY <1>1, <1>2, TotalOf
<1>4. \A e \in Seq(Nat) : Len(e) = 0 => Total(e) = 0
  <2> SUFFICES ASSUME NEW e \in Seq(Nat), Len(e) = 0 PROVE Total(e) = 0
    OBVIOUS
  <2>1. RunningSums(e, z) /\ z[Len(e)] = 0
    BY DEF RunningSums
  <2> HIDE DEF z
  <2> QED BY <2>1, TotalOf
<1>5. Total(<<>>) = 0
  <2>1. <<>> \in Seq(Nat) /\ Len(<<>>) = 0
    OBVIOUS
  <2> QED BY <1>4, <2>1
<1> QED BY <1>1, <1>3, <1>5, TotalOfConcat
----------------------------------------------------------------------------
\* The sizes of a list of records, and of one record more.
LEMMA SizesOf ==
  ASSUME NEW s \in Seq(Record)
  PROVE  /\ Sizes(s) \in Seq(Nat)
         /\ Sizes(<<>>) = <<>>
         /\ Total(Sizes(s)) \in Nat
         /\ \A r \in Record : /\ Size[r] \in Nat
                              /\ Total(Sizes(Append(s, r))) = Total(Sizes(s)) + Size[r]
<1>1. \A q \in Seq(Record) : /\ Sizes(q) \in Seq(Nat) /\ Len(Sizes(q)) = Len(q)
                             /\ \A i \in 1 .. Len(q) : Sizes(q)[i] = Size[q[i]]
  <2> SUFFICES ASSUME NEW q \in Seq(Record)
               PROVE  /\ Sizes(q) \in Seq(Nat) /\ Len(Sizes(q)) = Len(q)
                      /\ \A i \in 1 .. Len(q) : Sizes(q)[i] = Size[q[i]]
    OBVIOUS
  <2>1. Len(q) \in Nat /\ DOMAIN q = 1 .. Len(q) /\ \A i \in 1 .. Len(q) : Size[q[i]] \in Nat
    BY SizeAssumption
  <2> QED BY <2>1 DEF Sizes
<1>2. ASSUME NEW r \in Record
      PROVE  /\ Size[r] \in Nat
             /\ Total(Sizes(Append(s, r))) = Total(Sizes(s)) + Size[r]
  <2>1. Size[r] \in Nat
    BY SizeAssumption
  <2> DEFINE more == Append(s, r)
  <2>2. more \in Seq(Record) /\ Len(more) = Len(s) + 1 /\ more[Len(s) + 1] = r
        /\ \A i \in 1 .. Len(s) : more[i] = s[i]
    OBVIOUS
  <2>3. Len(s) \in Nat
    OBVIOUS
  <2> DEFINE sizes == Sizes(more)
             shorter == Sizes(s)
  <2>4. sizes \in Seq(Nat) /\ Len(sizes) = Len(s) + 1
        /\ \A i \in 1 .. Len(s) + 1 : sizes[i] = Size[more[i]]
    BY <1>1, <2>2
  <2>5. shorter \in Seq(Nat) /\ Len(shorter) = Len(s)
        /\ \A i \in 1 .. Len(s) : shorter[i] = Size[s[i]]
    BY <1>1
  <2> HIDE DEF sizes, shorter
  <2>6. sizes = Append(shorter, Size[r])
    <3> HIDE DEF more
    <3>1. ASSUME NEW i \in 1 .. Len(s) PROVE i \in 1 .. Len(s) + 1 /\ sizes[i] = shorter[i]
      <4>1. i \in 1 .. Len(s) + 1
        BY <2>3
      <4> QED BY <4>1, <2>2, <2>4, <2>5
    <3>2. sizes[Len(s) + 1] = Size[r]
      BY <2>2, <2>3, <2>4
    <3> QED BY <3>1, <3>2, <2>1, <2>3, <2>4, <2>5
  <2> QED BY <2>1, <2>5, <2>6, TotalOfAppend DEF sizes, shorter
<1>3. Sizes(<<>>) = <<>>
  BY DEF Sizes
<1>4. Total(Sizes(s)) \in Nat
  BY <1>1, TotalOfAppend, 0 \in Nat
<1> QED BY <1>1, <1>2, <1>3, <1>4

\* TotalBytes adds up the sizes of the segments.
Weights(segs) == [i \in DOMAIN segs |-> SizeBytes(segs[i])]

\* The sizes of the segments are naturals, one per segment.
LEMMA WeightsOf ==
  ASSUME NEW segs \in Seq(Segment)
  PROVE  /\ Weights(segs) \in Seq(Nat)
         /\ Len(Weights(segs)) = Len(segs)
         /\ \A i \in 1 .. Len(segs) : /\ Weights(segs)[i] = SizeBytes(segs[i])
                                      /\ SizeBytes(segs[i]) \in Nat
         /\ TotalBytes(segs) = Total(Weights(segs))
         /\ TotalBytes(segs) \in Nat
<1>1. Len(segs) \in Nat /\ DOMAIN segs = 1 .. Len(segs)
  OBVIOUS
<1>2. ASSUME NEW i \in 1 .. Len(segs) PROVE SizeBytes(segs[i]) \in Nat
  <2>1. segs[i].records \in Seq(Record)
    BY SegmentFields
  <2> QED BY <2>1, SizesOf DEF SizeBytes
<1>3. /\ Weights(segs) \in Seq(Nat)
      /\ Len(Weights(segs)) = Len(segs)
      /\ \A i \in 1 .. Len(segs) : Weights(segs)[i] = SizeBytes(segs[i])
  BY <1>1, <1>2 DEF Weights
<1>4. TotalBytes(segs) = Total(Weights(segs))
  BY DEF TotalBytes, Weights
<1> QED BY <1>2, <1>3, <1>4, TotalOfAppend, 0 \in Nat

\* What a trim takes and what it leaves add up to what was there.
LEMMA BytesSplit ==
  ASSUME NEW segs \in Seq(Segment), NEW n \in 0 .. Len(segs)
  PROVE  /\ TotalBytes(SubSeq(segs, 1, n)) \in Nat
         /\ TotalBytes(SubSeq(segs, n + 1, Len(segs))) \in Nat
         /\ TotalBytes(segs) = TotalBytes(SubSeq(segs, 1, n))
                                 + TotalBytes(SubSeq(segs, n + 1, Len(segs)))
<1> DEFINE k     == Len(segs)
           head  == SubSeq(segs, 1, n)
           tail  == SubSeq(segs, n + 1, k)
           w     == Weights(segs)
           whead == Weights(head)
           wtail == Weights(tail)
<1>1. k \in Nat /\ n \in Nat /\ n <= k
  BY LenProperties
<1>2. /\ head \in Seq(Segment) /\ Len(head) = n
      /\ \A i \in 1 .. n : head[i] = segs[i]
  <2>1. 1 \in 1 .. k + 1 /\ n \in 1 - 1 .. k
    BY <1>1
  <2> QED BY <1>1, <2>1, SubSeqProperties
<1>3. /\ tail \in Seq(Segment) /\ Len(tail) = k - n
      /\ \A i \in 1 .. k - n : tail[i] = segs[i + n]
  <2>1. n + 1 \in 1 .. k + 1 /\ k \in n .. k
    BY <1>1
  <2> QED BY <1>1, <2>1, SubSeqProperties
<1>4. /\ w \in Seq(Nat) /\ Len(w) = k
      /\ \A i \in 1 .. k : w[i] = SizeBytes(segs[i])
      /\ TotalBytes(segs) = Total(w)
  BY WeightsOf
<1> HIDE DEF head, tail
<1>5. /\ whead \in Seq(Nat) /\ Len(whead) = n
      /\ \A i \in 1 .. n : whead[i] = SizeBytes(head[i])
      /\ TotalBytes(head) = Total(whead)
  BY <1>2, WeightsOf
<1>6. /\ wtail \in Seq(Nat) /\ Len(wtail) = k - n
      /\ \A i \in 1 .. k - n : wtail[i] = SizeBytes(tail[i])
      /\ TotalBytes(tail) = Total(wtail)
  BY <1>3, WeightsOf
<1> HIDE DEF w, whead, wtail, k
<1>7. w = whead \o wtail
  <2>1. /\ whead \o wtail \in Seq(Nat) /\ Len(whead \o wtail) = n + (k - n)
        /\ \A i \in 1 .. n : (whead \o wtail)[i] = whead[i]
        /\ \A i \in 1 .. k - n : (whead \o wtail)[n + i] = wtail[i]
    <3>1. ASSUME NEW a \in Seq(Nat), NEW b \in Seq(Nat)
          PROVE  /\ a \o b \in Seq(Nat) /\ Len(a \o b) = Len(a) + Len(b)
                 /\ \A i \in 1 .. Len(a) : (a \o b)[i] = a[i]
                 /\ \A i \in 1 .. Len(b) : (a \o b)[Len(a) + i] = b[i]
      OBVIOUS
    <3>2. whead \in Seq(Nat) /\ wtail \in Seq(Nat) /\ Len(whead) = n /\ Len(wtail) = k - n
      BY <1>5, <1>6
    <3>3. /\ whead \o wtail \in Seq(Nat) /\ Len(whead \o wtail) = Len(whead) + Len(wtail)
          /\ \A i \in 1 .. Len(whead) : (whead \o wtail)[i] = whead[i]
          /\ \A i \in 1 .. Len(wtail) : (whead \o wtail)[Len(whead) + i] = wtail[i]
      BY <3>1, <3>2
    <3> QED BY <3>2, <3>3, Zenon
  <2>2. n + (k - n) = k
    BY <1>1
  <2>3. ASSUME NEW i \in 1 .. k PROVE w[i] = (whead \o wtail)[i]
    <3>1. CASE i \in 1 .. n
      BY <3>1, <2>1, <1>2, <1>4, <1>5
    <3>2. CASE i \notin 1 .. n
      <4>1. i - n \in 1 .. k - n /\ n + (i - n) = i /\ (i - n) + n = i
        BY <3>2, <1>1
      <4>2. (whead \o wtail)[n + (i - n)] = wtail[i - n]
        BY <2>1, <4>1
      <4>3. wtail[i - n] = SizeBytes(segs[(i - n) + n])
        BY <4>1, <1>3, <1>6
      <4> QED BY <4>1, <4>2, <4>3, <1>4
    <3> QED BY <3>1, <3>2
  <2> HIDE DEF k
  <2> QED BY <2>1, <2>2, <2>3, <1>4, SeqEqual
<1>8. Total(w) = Total(whead) + Total(wtail) /\ Total(whead) \in Nat /\ Total(wtail) \in Nat
  BY <1>5, <1>6, <1>7, TotalOfConcat
<1> QED BY <1>4, <1>5, <1>6, <1>8 DEF head, tail, k

\* The bytes of a log are those of its sealed segments and of the active one.
LEMMA BytesOfLast ==
  ASSUME NEW segs \in Seq(Segment), segs # <<>>
  PROVE  LET n == Len(segs)
             F == [i \in 1 .. n - 1 |-> SizeBytes(segs[i])]
         IN  /\ F \in Seq(Nat)
             /\ Total(F) \in Nat
             /\ SizeBytes(segs[n]) \in Nat
             /\ TotalBytes(segs) = Total(F) + SizeBytes(segs[n])
<1> DEFINE n == Len(segs)
           F == [i \in 1 .. n - 1 |-> SizeBytes(segs[i])]
           w == Weights(segs)
<1>1. n \in Nat /\ n >= 1
  OBVIOUS
<1>2. /\ w \in Seq(Nat) /\ Len(w) = n
      /\ \A i \in 1 .. n : w[i] = SizeBytes(segs[i]) /\ SizeBytes(segs[i]) \in Nat
      /\ TotalBytes(segs) = Total(w)
  BY WeightsOf
<1> HIDE DEF n, w
<1>3. F \in Seq(Nat) /\ Len(F) = n - 1 /\ \A i \in 1 .. n - 1 : F[i] = SizeBytes(segs[i])
  <2>1. n - 1 \in Nat /\ \A i \in 1 .. n - 1 : i \in 1 .. n
    BY <1>1
  <2>2. \A i \in 1 .. n - 1 : SizeBytes(segs[i]) \in Nat
    BY <1>2, <2>1
  <2> QED BY <2>1, <2>2
<1> HIDE DEF F
<1>4. SizeBytes(segs[n]) \in Nat /\ n \in 1 .. n
  BY <1>1, <1>2
<1>5. w = Append(F, SizeBytes(segs[n]))
  <2> DEFINE b == Append(F, SizeBytes(segs[n]))
  <2>1. /\ b \in Seq(Nat) /\ Len(b) = (n - 1) + 1
        /\ \A i \in 1 .. n - 1 : b[i] = F[i]
        /\ b[(n - 1) + 1] = SizeBytes(segs[n])
    BY <1>3, <1>4, AppendProperties
  <2> HIDE DEF b
  <2>2. (n - 1) + 1 = n
    BY <1>1
  <2>3. ASSUME NEW i \in 1 .. n PROVE w[i] = b[i]
    <3>1. CASE i = n
      BY <3>1, <2>1, <2>2, <1>2
    <3>2. CASE i # n
      <4>1. i \in 1 .. n - 1
        BY <3>2, <1>1
      <4> QED BY <4>1, <2>1, <1>2, <1>3
    <3> QED BY <3>1, <3>2
  <2>4. w = b
    BY <2>1, <2>2, <2>3, <1>2, SeqEqual
  <2> QED BY <2>4 DEF b
<1>6. Total(w) = Total(F) + SizeBytes(segs[n]) /\ Total(F) \in Nat
  BY <1>3, <1>4, <1>5, TotalOfAppend
<1> QED BY <1>2, <1>3, <1>4, <1>6 DEF n, F

\* Segment.append adds the record's bytes to the log's, and _roll none.
LEMMA AppendBytes ==
  ASSUME NEW segs \in Seq(Segment), segs # <<>>, NEW r \in Record
  PROVE  TotalBytes(AppendRecord(segs, r)) = TotalBytes(segs) + Size[r]
<1>1. ASSUME NEW base \in Seq(Segment), base # <<>>
      PROVE  TotalBytes(AppendToActive(base, r)) = TotalBytes(base) + Size[r]
  <2> DEFINE n   == Len(base)
             out == AppendToActive(base, r)
             F   == [i \in 1 .. n - 1 |-> SizeBytes(base[i])]
             G   == [i \in 1 .. n - 1 |-> SizeBytes(out[i])]
  <2>1. /\ out \in Seq(Segment) /\ Len(out) = n
        /\ \A i \in 1 .. n - 1 : out[i] = base[i]
        /\ out[n].records = Append(base[n].records, r)
    BY <1>1, AppendToActiveEffect
  <2>2. n \in Nat /\ n >= 1 /\ base[n] \in Segment
    BY <1>1
  <2>3. out # <<>>
    BY <2>1, <2>2
  <2>4. /\ Total(F) \in Nat /\ SizeBytes(base[n]) \in Nat
        /\ TotalBytes(base) = Total(F) + SizeBytes(base[n])
    BY <1>1, BytesOfLast
  <2> HIDE DEF out
  <2>5. TotalBytes(out) = Total(G) + SizeBytes(out[n])
    BY <2>1, <2>3, BytesOfLast
  <2>6. G = F
    BY <2>1
  <2>7. SizeBytes(out[n]) = SizeBytes(base[n]) + Size[r] /\ Size[r] \in Nat
    <3>1. base[n].records \in Seq(Record)
      BY <2>2, SegmentFields
    <3> QED BY <2>1, <3>1, SizesOf DEF SizeBytes
  <2> HIDE DEF F, G, n
  <2>8. TotalBytes(out) = TotalBytes(base) + Size[r]
    BY <2>4, <2>5, <2>6, <2>7
  <2> QED BY <2>8 DEF out
<1>2. Rolled(segs) \in Seq(Segment) /\ Rolled(segs) # <<>> /\ TotalBytes(Rolled(segs)) = TotalBytes(segs)
  <2> DEFINE n   == Len(segs)
             out == Rolled(segs)
             F   == [i \in 1 .. (n + 1) - 1 |-> SizeBytes(out[i])]
  <2>1. /\ out \in Seq(Segment) /\ out # <<>> /\ Len(out) = n + 1
        /\ \A i \in 1 .. n - 1 : out[i] = segs[i]
        /\ out[n].records = segs[n].records
        /\ out[n + 1].records = <<>>
    <3>1. NewSegment(EndOf(segs[n])).records = <<>>
      BY DEF NewSegment
    <3>2. /\ out \in Seq(Segment) /\ out # <<>> /\ Len(out) = n + 1
          /\ \A i \in 1 .. n - 1 : out[i] = segs[i]
          /\ out[n].records = segs[n].records
          /\ out[n + 1] = NewSegment(EndOf(segs[n]))
      BY RolledEffect
    <3> QED BY <3>1, <3>2
  <2>2. n \in Nat /\ n >= 1
    OBVIOUS
  <2> HIDE DEF out, n
  <2>3. TotalBytes(out) = Total(F) + SizeBytes(out[n + 1])
    BY <2>1, BytesOfLast
  <2>4. SizeBytes(out[n + 1]) = 0
    <3>1. Sizes(<<>>) = <<>>
      BY DEF Sizes
    <3>2. Total(<<>>) = 0
      BY TotalOfAppend, <<>> \in Seq(Nat), 0 \in Nat
    <3> QED BY <2>1, <3>1, <3>2 DEF SizeBytes
  <2>5. F = Weights(segs)
    <3>1. \A i \in 1 .. n : SizeBytes(out[i]) = SizeBytes(segs[i])
      <4> TAKE i \in 1 .. n
      <4>1. i = n \/ i \in 1 .. n - 1
        BY <2>2
      <4> QED BY <4>1, <2>1 DEF SizeBytes
    <3>2. (n + 1) - 1 = n /\ DOMAIN segs = 1 .. n
      BY <2>2 DEF n
    <3> QED BY <3>1, <3>2 DEF Weights
  <2>6. TotalBytes(segs) = Total(Weights(segs)) /\ TotalBytes(segs) \in Nat
    BY WeightsOf
  <2>7. TotalBytes(out) = TotalBytes(segs)
    <3> HIDE DEF F
    <3> QED BY <2>3, <2>4, <2>5, <2>6
  <2> QED BY <2>1, <2>7 DEF out
<1>3. CASE MustRoll(segs, r)
  BY <1>1, <1>2, <1>3 DEF AppendRecord
<1>4. CASE ~MustRoll(segs, r)
  BY <1>1, <1>4 DEF AppendRecord
<1> QED BY <1>3, <1>4

(***************************************************************************)
(* The bytes balance only while nothing but retention's own count and the  *)
(* log's content enter the sum, so the count's type is carried along.      *)
(***************************************************************************)
Balanced == reclaimed_bytes \in Nat /\ BytesAccounted

\* A new partition holds no byte.
LEMMA InitBalanced == Init => Balanced
<1> SUFFICES ASSUME Init PROVE Balanced
  OBVIOUS
<1>1. segments \in Seq(Segment) /\ segments # <<>> /\ Len(segments) = 1 /\ segments[1].records = <<>>
  BY DEF Init, NewSegment, Segment
<1> DEFINE F == [i \in 1 .. Len(segments) - 1 |-> SizeBytes(segments[i])]
<1>2. TotalBytes(segments) = Total(F) + SizeBytes(segments[1])
  BY <1>1, BytesOfLast
<1>3. F = <<>>
  BY <1>1
<1>4. Sizes(<<>>) = <<>>
  BY DEF Sizes
<1>5. Total(<<>>) = 0
  BY TotalOfAppend, <<>> \in Seq(Nat), 0 \in Nat
<1>6. TotalBytes(segments) = 0
  <2> HIDE DEF F
  <2> QED BY <1>1, <1>2, <1>3, <1>4, <1>5 DEF SizeBytes
<1>7. AppendedBytes = 0
  BY <1>4, <1>5 DEF Init, AppendedBytes
<1> QED BY <1>6, <1>7 DEF Init, Balanced, BytesAccounted

\* Every operation keeps the bytes balanced.
LEMMA NextBalanced == IInv /\ Balanced /\ [Next]_vars => Balanced'
<1> SUFFICES ASSUME IInv, Balanced, [Next]_vars PROVE Balanced'
  OBVIOUS
<1>1. /\ segments \in Seq(Segment) /\ segments # <<>> /\ Len(segments) \in Nat
      /\ appended \in Seq(Record) /\ dropped \in Nat /\ reclaimed_bytes \in Nat
  BY DEF IInv, TypeOK, Balanced
<1>2. TotalBytes(segments) \in Nat /\ AppendedBytes \in Nat
  BY <1>1, WeightsOf, SizesOf DEF AppendedBytes
<1>3. ASSUME NEW r \in Record, AppendRec(r) PROVE Balanced'
  <2>1. /\ segments' = AppendRecord(segments, r) /\ appended' = Append(appended, r)
        /\ reclaimed_bytes' = reclaimed_bytes /\ dropped' = dropped
    BY <1>3 DEF AppendRec, retVars
  <2>2. TotalBytes(segments') = TotalBytes(segments) + Size[r]
    BY <1>1, <2>1, AppendBytes
  <2>3. AppendedBytes' = AppendedBytes + Size[r] /\ Size[r] \in Nat
    BY <1>1, <2>1, SizesOf DEF AppendedBytes
  <2> QED BY <1>1, <1>2, <2>1, <2>2, <2>3 DEF Balanced, BytesAccounted
<1>4. ASSUME NEW n \in 0 .. Len(segments) - 1, segments' = DropOldest(segments, n)
      PROVE  \E gone, left \in Nat :
               /\ gone = TotalBytes(SubSeq(segments, 1, n))
               /\ left = TotalBytes(segments')
               /\ TotalBytes(segments) = gone + left
               /\ n \in Nat /\ (n = 0 => gone = 0)
  <2>1. n \in 0 .. Len(segments) /\ n \in Nat
    BY <1>1
  <2>2. /\ TotalBytes(SubSeq(segments, 1, n)) \in Nat /\ TotalBytes(segments') \in Nat
        /\ TotalBytes(segments) = TotalBytes(SubSeq(segments, 1, n)) + TotalBytes(segments')
    BY <1>1, <1>4, <2>1, BytesSplit DEF DropOldest
  <2>3. n = 0 => TotalBytes(SubSeq(segments, 1, n)) = 0
    <3> SUFFICES ASSUME n = 0 PROVE TotalBytes(SubSeq(segments, 1, n)) = 0
      OBVIOUS
    <3>1. segments' = segments
      BY <1>1, <1>4, SubSeqFull DEF DropOldest
    <3> QED BY <2>2, <3>1, <1>2
  <2> QED BY <2>1, <2>2, <2>3
<1>5. ASSUME NEW offset \in 0 .. NextOffset(segments), DropSealedBefore(offset)
      PROVE  Balanced'
  <2>1. PICK n \in 0 .. Len(segments) - 1 :
          /\ segments' = DropOldest(segments, n) /\ dropped' = dropped + n
          /\ reclaimed_bytes' = reclaimed_bytes /\ appended' = appended
    BY <1>5 DEF DropSealedBefore, retVars
  <2>2. PICK gone, left \in Nat : /\ gone = TotalBytes(SubSeq(segments, 1, n))
                                  /\ left = TotalBytes(segments')
                                  /\ TotalBytes(segments) = gone + left
                                  /\ n \in Nat /\ (n = 0 => gone = 0)
    BY <1>4, <2>1
  <2>3. AppendedBytes' = AppendedBytes
    BY <2>1 DEF AppendedBytes
  <2>4. /\ TotalBytes(segments') <= TotalBytes(segments)
        /\ n = 0 => TotalBytes(segments') = TotalBytes(segments)
    BY <2>2
  <2>5. dropped' = 0 => dropped = 0 /\ n = 0
    BY <1>1, <2>1, <2>2
  <2>6. TotalBytes(segments') \in Nat
    BY <2>2
  <2> HIDE DEF Balanced
  <2>7. reclaimed_bytes' + TotalBytes(segments') <= AppendedBytes'
    <3>1. reclaimed_bytes + TotalBytes(segments) <= AppendedBytes
      BY DEF Balanced, BytesAccounted
    <3> QED BY <1>1, <1>2, <2>1, <2>3, <2>4, <2>6, <3>1
  <2>8. dropped' = 0 => reclaimed_bytes' + TotalBytes(segments') = AppendedBytes'
    <3>1. dropped = 0 => reclaimed_bytes + TotalBytes(segments) = AppendedBytes
      BY DEF Balanced, BytesAccounted
    <3> QED BY <2>1, <2>3, <2>4, <2>5, <3>1
  <2> QED BY <1>1, <2>1, <2>7, <2>8 DEF Balanced, BytesAccounted
<1>6. ASSUME NEW floor \in 0 .. NextOffset(segments), RetentionApply(floor)
      PROVE  Balanced'
  <2>1. PICK n \in 0 .. Len(segments) - 1 :
          /\ segments' = DropOldest(segments, n) /\ dropped' = dropped
          /\ reclaimed_bytes' = reclaimed_bytes + TotalBytes(SubSeq(segments, 1, n))
          /\ appended' = appended
    BY <1>6 DEF RetentionApply, histVars
  <2>2. PICK gone, left \in Nat : /\ gone = TotalBytes(SubSeq(segments, 1, n))
                                  /\ left = TotalBytes(segments')
                                  /\ TotalBytes(segments) = gone + left
    BY <1>4, <2>1
  <2>3. AppendedBytes' = AppendedBytes
    BY <2>1 DEF AppendedBytes
  <2>4. reclaimed_bytes' = reclaimed_bytes + gone /\ TotalBytes(segments') = left
    BY <2>1, <2>2
  <2>5. /\ reclaimed_bytes' \in Nat
        /\ reclaimed_bytes' + TotalBytes(segments') = reclaimed_bytes + TotalBytes(segments)
    <3> DEFINE before == reclaimed_bytes
               after  == reclaimed_bytes'
               whole  == TotalBytes(segments)
               rest   == TotalBytes(segments')
    <3>1. before \in Nat /\ after = before + gone /\ rest = left /\ whole = gone + left
      BY <1>1, <2>2, <2>4
    <3> HIDE DEF before, after, whole, rest
    <3>2. after \in Nat /\ after + rest = before + whole
      BY <3>1
    <3> QED BY <3>2 DEF before, after, whole, rest
  <2> QED BY <2>1, <2>3, <2>5 DEF Balanced, BytesAccounted
<1>7. ASSUME UNCHANGED <<segments, reclaimed_bytes, appended, dropped>> PROVE Balanced'
  BY <1>7 DEF Balanced, BytesAccounted, AppendedBytes
<1> QED
  BY <1>3, <1>5, <1>6, <1>7
  DEF Next, AdvanceWatermark, Tick, vars, logVars, retVars, clockVars, histVars

(***************************************************************************)
(* Retention is honest: whatever the policy, the sizes and the order of    *)
(* appends and trims, every committed record is served or reported as      *)
(* trimmed, and what RetentionRun says it reclaimed is what went.          *)
(***************************************************************************)
THEOREM RetentionStaysHonest == Spec => []RetentionIsHonest
<1>1. Spec => []Balanced
  BY InitBalanced, NextBalanced, InductiveInvariant, PTL DEF Spec
<1>2. IInv /\ Balanced => RetentionIsHonest
  BY CommittedServed DEF IInv, Balanced, RetentionIsHonest, RetentionAccounts
<1> QED
  BY <1>1, <1>2, InductiveInvariant, PTL
----------------------------------------------------------------------------
\* FlattenSeq concatenates from the left.
LEMMA Flattening ==
  ASSUME NEW S, NEW parts \in Seq(Seq(S)), parts # <<>>
  PROVE  \E f : /\ FlattenSeq(parts) = f[Len(parts)]
                /\ f[1] = parts[1]
                /\ \A i \in 2 .. Len(parts) : f[i] = f[i - 1] \o parts[i]
<1> DEFINE N == Len(parts)
           Follows(h, n) == h = [i \in 1 .. n |-> IF i = 1 THEN parts[i] ELSE h[i - 1] \o parts[i]]
           flatten[i \in 1 .. N] == IF i = 1 THEN parts[i] ELSE flatten[i - 1] \o parts[i]
           Undefined == {n \in Nat : ~ \E h : Follows(h, n)}
<1>1. Undefined = {}
  <2> SUFFICES ASSUME Undefined # {} PROVE FALSE
    OBVIOUS
  <2>1. Undefined \in SUBSET Nat
    OBVIOUS
  <2>2. PICK n \in Undefined : \A o \in Undefined : n <= o
    <3> HIDE DEF Undefined
    <3> QED BY <2>1, LeastNatural
  <2>3. n # 0
    <3>1. Follows([i \in 1 .. 0 |-> 0], 0)
      OBVIOUS
    <3> QED BY <2>2, <3>1
  <2>4. n \in Nat /\ n - 1 \in Nat /\ n - 1 \notin Undefined
    <3> HIDE DEF Undefined
    <3>1. n \in Nat /\ n - 1 \in Nat
      BY <2>1, <2>2, <2>3
    <3>2. n - 1 \in Undefined => n <= n - 1
      BY <2>2
    <3> QED BY <3>1, <3>2
  <2>5. PICK h : Follows(h, n - 1)
    BY <2>4
  <2> DEFINE last == IF n = 1 THEN parts[n] ELSE h[n - 1] \o parts[n]
             g    == [i \in 1 .. n |-> IF i < n THEN h[i] ELSE last]
  <2>6. \A i \in 1 .. n : g[i] = IF i = 1 THEN parts[i] ELSE g[i - 1] \o parts[i]
    <3> SUFFICES ASSUME NEW i \in 1 .. n
                 PROVE  g[i] = IF i = 1 THEN parts[i] ELSE g[i - 1] \o parts[i]
      OBVIOUS
    <3>1. \A j \in 1 .. n - 1 : h[j] = IF j = 1 THEN parts[j] ELSE h[j - 1] \o parts[j]
      BY <2>5
    <3>2. CASE i < n
      <4>1. i \in 1 .. n - 1 /\ g[i] = h[i] /\ (i # 1 => i - 1 \in 1 .. n /\ g[i - 1] = h[i - 1])
        BY <3>2, <2>4
      <4> QED BY <4>1, <3>1
    <3>3. CASE i = n
      <4>1. g[n] = last /\ (n # 1 => g[n - 1] = h[n - 1])
        BY <2>3, <2>4
      <4> QED BY <4>1, <3>3
    <3> QED BY <3>2, <3>3, <2>4
  <2>7. Follows(g, n)
    <3>1. g = [i \in 1 .. n |-> g[i]]
      OBVIOUS
    <3> HIDE DEF g
    <3> QED BY <3>1, <2>6
  <2> QED BY <2>2, <2>7
<1>2. N \in Nat /\ N # 0
  OBVIOUS
<1>3. Follows(flatten, N)
  <2>1. \E h : Follows(h, N)
    BY <1>1, <1>2
  <2>2. flatten = CHOOSE h : Follows(h, N)
    OBVIOUS
  <2> HIDE DEF Follows, flatten
  <2> QED BY <2>1, <2>2
<1>4. FlattenSeq(parts) = flatten[N]
  BY <1>2 DEF FlattenSeq
<1> HIDE DEF flatten
<1>5. \A i \in 1 .. N : flatten[i] = IF i = 1 THEN parts[i] ELSE flatten[i - 1] \o parts[i]
  BY <1>3
<1>6. flatten[1] = parts[1]
  BY <1>2, <1>5
<1>7. \A i \in 2 .. N : flatten[i] = flatten[i - 1] \o parts[i]
  <2> TAKE i \in 2 .. N
  <2>1. i \in 1 .. N /\ i # 1
    BY <1>2
  <2> QED BY <2>1, <1>5
<1> QED BY <1>4, <1>6, <1>7

(***************************************************************************)
(* A whole chain, concatenated, is the tail of what was written that       *)
(* begins at its first offset.                                             *)
(***************************************************************************)
LEMMA WindowIsTail ==
  ASSUME NEW segs \in Seq(Segment), segs # <<>>,
         NEW written \in Seq(Record), ChainOf(segs), OrderedOf(segs),
         StableOf(segs, written), NextOffset(segs) = Len(written)
  PROVE  /\ FirstOffset(segs) \in 0 .. Len(written)
         /\ Window(segs) = SubSeq(written, FirstOffset(segs) + 1, Len(written))
<1> DEFINE N       == Len(segs)
           L       == Len(written)
           Base(i) == segs[i].base_offset
           End(i)  == EndOf(segs[i])
           parts   == [i \in 1 .. N |-> segs[i].records]
<1>1. N \in Nat /\ N >= 1 /\ DOMAIN segs = 1 .. N /\ L \in Nat
  OBVIOUS
<1>2. ASSUME NEW i \in 1 .. N
      PROVE  /\ Base(i) \in Nat /\ End(i) \in Nat /\ Base(i) <= End(i)
             /\ segs[i].records \in Seq(Record)
             /\ End(i) = Base(i) + Len(segs[i].records) /\ Len(segs[i].records) \in Nat
             /\ DOMAIN segs[i].records = 1 .. Len(segs[i].records)
  BY SegmentFields
<1>3. End(N) = L
  BY DEF NextOffset
<1>4. ASSUME NEW i \in 1 .. N PROVE End(i) <= L /\ Base(1) <= Base(i)
  <2>1. \A a, b \in 1 .. N : a < b => End(a) <= Base(b)
    BY <1>1 DEF OrderedOf
  <2>2. 1 \in 1 .. N /\ N \in 1 .. N /\ (i = 1 \/ 1 < i) /\ (i = N \/ i < N)
    <3> HIDE DEF N, L
    <3> QED BY <1>1
  <2>3. /\ Base(1) \in Nat /\ End(1) \in Nat /\ Base(1) <= End(1)
        /\ Base(N) \in Nat /\ End(N) \in Nat /\ Base(N) <= End(N)
        /\ Base(i) \in Nat /\ End(i) \in Nat /\ Base(i) <= End(i)
    BY <1>2, <2>2
  <2> HIDE DEF Base, End, N, L
  <2>4. End(i) <= L
    BY <1>3, <2>1, <2>2, <2>3
  <2>5. Base(1) <= Base(i)
    BY <2>1, <2>2, <2>3
  <2> QED BY <2>4, <2>5
<1>5. ASSUME NEW i \in 1 .. N
      PROVE  segs[i].records = SubSeq(written, Base(i) + 1, End(i))
  <2> DEFINE s == segs[i].records
             b == Base(i)
             e == End(i)
             t == SubSeq(written, b + 1, e)
  <2>1. /\ b \in Nat /\ e \in Nat /\ b <= e /\ s \in Seq(Record) /\ e = b + Len(s)
        /\ Len(s) \in Nat /\ DOMAIN s = 1 .. Len(s) /\ e <= L
    BY <1>2, <1>4
  <2>2. \A k \in 1 .. Len(s) : s[k] = written[b + k]
    BY <1>1, <2>1 DEF StableOf
  <2> HIDE DEF s, b, e
  <2>3. \A k \in b + 1 .. e : written[k] \in Record
    BY <2>1, <1>1
  <2>4. /\ t \in Seq(Record)
        /\ Len(t) = IF b + 1 <= e THEN e - (b + 1) + 1 ELSE 0
        /\ \A k \in 1 .. e - (b + 1) + 1 : t[k] = written[b + 1 + k - 1]
    BY <2>1, <2>3, SubSeqProperties
  <2>5. e - (b + 1) + 1 = Len(s) /\ \A k \in 1 .. Len(s) : b + 1 + k - 1 = b + k
    BY <2>1
  <2>6. Len(t) = Len(s)
    BY <2>1, <2>4
  <2> HIDE DEF t
  <2>7. \A k \in 1 .. Len(s) : s[k] = t[k]
    BY <2>2, <2>4, <2>5
  <2>8. s = t
    BY <2>1, <2>4, <2>6, <2>7, SeqEqual
  <2> QED BY <2>8 DEF s, t, b, e
<1>6. parts \in Seq(Seq(Record)) /\ parts # <<>> /\ Len(parts) = N
  <2>1. \A i \in 1 .. N : segs[i].records \in Seq(Record)
    BY <1>2
  <2> HIDE DEF N
  <2> QED BY <1>1, <2>1
<1>7. Window(segs) = FlattenSeq(parts)
  BY <1>1 DEF Window
<1>8. PICK f : /\ FlattenSeq(parts) = f[N]
               /\ f[1] = parts[1]
               /\ \A i \in 2 .. N : f[i] = f[i - 1] \o parts[i]
  <2> HIDE DEF parts, N
  <2> QED BY <1>6, Flattening
<1> DEFINE Wrong == {i \in 1 .. N : f[i] # SubSeq(written, Base(1) + 1, End(i))}
<1>9. Wrong = {}
  <2> SUFFICES ASSUME Wrong # {} PROVE FALSE
    OBVIOUS
  <2>1. Wrong \in SUBSET Nat
    BY <1>1
  <2>2. PICK n \in Wrong : \A o \in Wrong : n <= o
    <3> HIDE DEF Wrong
    <3> QED BY <2>1, LeastNatural
  <2>3. n \in 1 .. N /\ f[n] # SubSeq(written, Base(1) + 1, End(n))
    BY <2>2
  <2>4. n # 1
    BY <2>3, <1>5, <1>8
  <2>5. n - 1 \in 1 .. N - 1 /\ n - 1 \in 1 .. N /\ n \in 2 .. N /\ (n - 1) + 1 = n
    BY <2>3, <2>4, <1>1
  <2>6. n - 1 \notin Wrong
    <3> HIDE DEF Wrong
    <3>1. n - 1 \in Wrong => n <= n - 1
      BY <2>2
    <3> QED BY <3>1, <2>3, <1>1
  <2>7. f[n - 1] = SubSeq(written, Base(1) + 1, End(n - 1))
    BY <2>5, <2>6
  <2>8. f[n] = f[n - 1] \o SubSeq(written, Base(n) + 1, End(n))
    BY <2>3, <2>5, <1>5, <1>8
  <2>9. Base(n) = End(n - 1)
    BY <2>5 DEF ChainOf
  <2> DEFINE m == Base(1) + 1
             k == End(n - 1)
             e == End(n)
  <2>10. m \in 1 .. L + 1 /\ k \in m - 1 .. L /\ e \in k .. L
    <3>1. /\ Base(1) \in Nat /\ Base(n - 1) \in Nat /\ End(n - 1) \in Nat /\ End(n) \in Nat
          /\ Base(n) <= End(n) /\ Base(n - 1) <= End(n - 1) /\ 1 \in 1 .. N
      BY <1>1, <1>2, <2>3, <2>5, SMTT(30)
    <3>2. Base(1) <= Base(n - 1) /\ End(n - 1) <= L /\ End(n) <= L
      BY <1>4, <2>3, <2>5
    <3> HIDE DEF Base, End
    <3> QED BY <3>1, <3>2, <2>9, <1>1, SMTT(30)
  <2>11. SubSeq(written, m, k) \o SubSeq(written, k + 1, e) = SubSeq(written, m, e)
    <3> HIDE DEF m, k, e
    <3> QED BY <2>10, ConcatAdjacentSubSeq
  <2> HIDE DEF Base, End
  <2> QED BY <2>3, <2>7, <2>8, <2>9, <2>11
<1>10. f[N] = SubSeq(written, Base(1) + 1, End(N))
  BY <1>1, <1>9
<1>11. Base(1) \in 0 .. L
  <2>1. 1 \in 1 .. N
    BY <1>1
  <2>2. Base(1) \in Nat /\ End(1) \in Nat /\ Base(1) <= End(1) /\ End(1) <= L
    BY <2>1, <1>2, <1>4
  <2> HIDE DEF Base, End
  <2> QED BY <2>2, <1>1
<1> QED BY <1>3, <1>7, <1>8, <1>10, <1>11 DEF FirstOffset

\* The window of the invariant's states.
LEMMA WindowOf ==
  ASSUME IInv
  PROVE  /\ FirstOffset(segments) \in 0 .. Len(appended)
         /\ Window(segments) = SubSeq(appended, FirstOffset(segments) + 1, Len(appended))
<1>1. /\ segments \in Seq(Segment) /\ segments # <<>> /\ appended \in Seq(Record)
      /\ ChainOf(segments) /\ OrderedOf(segments) /\ StableOf(segments, appended)
      /\ NextOffset(segments) = Len(appended)
  BY IInvParts DEF TypeOK
<1> QED BY <1>1, WindowIsTail

\* The same of the state after a step.
LEMMA WindowNext ==
  ASSUME IInv'
  PROVE  /\ FirstOffset(segments') \in 0 .. Len(appended')
         /\ Window(segments)' = SubSeq(appended', FirstOffset(segments') + 1, Len(appended'))
<1>1. /\ segments' \in Seq(Segment) /\ segments' # <<>> /\ appended' \in Seq(Record)
      /\ ChainOf(segments') /\ OrderedOf(segments') /\ StableOf(segments', appended')
      /\ NextOffset(segments') = Len(appended')
  BY DEF IInv, TypeOK, SegmentChain, OffsetsAreStable, ChainOf, StableOf
<1> QED BY <1>1, WindowIsTail

\* A tail of a list: its length and its records.
LEMMA TailOf ==
  ASSUME NEW s \in Seq(Record), NEW b \in 0 .. Len(s)
  PROVE  LET t == SubSeq(s, b + 1, Len(s))
         IN  /\ t \in Seq(Record) /\ Len(t) = Len(s) - b
             /\ \A k \in 1 .. Len(s) - b : t[k] = s[b + k]
<1> DEFINE e == Len(s)
           t == SubSeq(s, b + 1, e)
<1>1. e \in Nat /\ b \in Nat /\ b <= e
  OBVIOUS
<1>2. \A k \in 1 .. e : s[k] \in Record
  OBVIOUS
<1> HIDE DEF e
<1>3. \A k \in b + 1 .. e : s[k] \in Record
  BY <1>1, <1>2
<1>4. /\ t \in Seq(Record)
      /\ Len(t) = IF b + 1 <= e THEN e - (b + 1) + 1 ELSE 0
      /\ \A k \in 1 .. e - (b + 1) + 1 : t[k] = s[b + 1 + k - 1]
  BY <1>1, <1>3, SubSeqProperties
<1> HIDE DEF t
<1>5. e - (b + 1) + 1 = e - b /\ \A k \in 1 .. e - b : b + 1 + k - 1 = b + k
  BY <1>1
<1>6. Len(t) = e - b
  BY <1>1, <1>4
<1>7. \A k \in 1 .. e - b : t[k] = s[b + k]
  BY <1>4, <1>5
<1> QED BY <1>4, <1>6, <1>7 DEF t, e

\* SegmentLog.append extends the window and leaves its start alone.
LEMMA AppendExtends ==
  ASSUME IInv, NEW r \in Record, AppendRec(r)
  PROVE  /\ FirstOffset(segments') = FirstOffset(segments)
         /\ Window(segments)' = Append(Window(segments), r)
         /\ segments'[Len(segments')].records # <<>>
<1> DEFINE n    == Len(segments)
           base == IF MustRoll(segments, r) THEN Rolled(segments) ELSE segments
           k    == Len(base)
<1>1. /\ segments \in Seq(Segment) /\ segments # <<>> /\ n \in Nat /\ n >= 1
      /\ appended \in Seq(Record)
  BY DEF IInv, TypeOK
<1>2. /\ base \in Seq(Segment) /\ base # <<>> /\ k \in Nat /\ k >= 1
      /\ base[1].base_offset = segments[1].base_offset
  <2>1. CASE MustRoll(segments, r)
    <3> DEFINE out == Rolled(segments)
    <3>1. /\ out \in Seq(Segment) /\ out # <<>> /\ Len(out) = n + 1
          /\ \A i \in 1 .. n - 1 : out[i] = segments[i]
          /\ out[n].base_offset = segments[n].base_offset
      BY <1>1, RolledEffect
    <3> HIDE DEF out, n
    <3>2. n = 1 \/ 1 \in 1 .. n - 1
      BY <1>1
    <3>3. out[1].base_offset = segments[1].base_offset
      BY <3>1, <3>2
    <3>4. base = out
      BY <2>1 DEF out
    <3> HIDE DEF base
    <3> QED BY <1>1, <3>1, <3>3, <3>4
  <2>2. CASE ~MustRoll(segments, r)
    BY <2>2, <1>1
  <2> QED BY <2>1, <2>2
<1>3. segments' = AppendToActive(base, r) /\ appended' = Append(appended, r)
  BY DEF AppendRec, AppendRecord
<1> HIDE DEF base
<1>4. /\ Len(segments') = k
      /\ \A i \in 1 .. k - 1 : segments'[i] = base[i]
      /\ segments'[k].base_offset = base[k].base_offset
      /\ segments'[k].records = Append(base[k].records, r)
  BY <1>2, <1>3, AppendToActiveEffect
<1> HIDE DEF k
<1>5. FirstOffset(segments') = FirstOffset(segments)
  <2>1. k = 1 \/ 1 \in 1 .. k - 1
    BY <1>2
  <2> QED BY <2>1, <1>2, <1>4 DEF FirstOffset
<1>6. segments'[k].records # <<>>
  <2>1. k \in 1 .. k
    BY <1>2
  <2>2. base[k].records \in Seq(Record)
    BY <2>1, <1>2, SegmentFields DEF k
  <2> QED BY <2>2, <1>4, SMTT(30)
<1> DEFINE F   == FirstOffset(segments)
           L   == Len(appended)
           old == SubSeq(appended, F + 1, L)
           new == SubSeq(appended', F + 1, L + 1)
<1>7. IInv'
  BY AppendRecIInv
<1>8. F \in 0 .. L /\ Window(segments) = old
  BY WindowOf
<1>9. appended' \in Seq(Record) /\ Len(appended') = L + 1
      /\ (\A i \in 1 .. L : appended'[i] = appended[i]) /\ appended'[L + 1] = r
  BY <1>1, <1>3, AppendProperties
<1>10. Window(segments)' = new
  <2>1. Window(segments)' = SubSeq(appended', FirstOffset(segments') + 1, Len(appended'))
    BY <1>7, WindowNext
  <2> QED BY <2>1, <1>5, <1>9
<1>11. new = Append(old, r)
  <2>1. L \in Nat /\ F \in Nat /\ F <= L
    BY <1>1, <1>8
  <2>2. old \in Seq(Record) /\ Len(old) = L - F /\ \A i \in 1 .. L - F : old[i] = appended[F + i]
    BY <1>1, <1>8, TailOf
  <2>3. F \in 0 .. L + 1
    <3> HIDE DEF F, L
    <3> QED BY <2>1
  <2>4. new \in Seq(Record) /\ Len(new) = (L + 1) - F
        /\ \A i \in 1 .. (L + 1) - F : new[i] = appended'[F + i]
    <3> HIDE DEF F
    <3> QED BY <1>9, <2>3, TailOf
  <2> DEFINE more == Append(old, r)
  <2> HIDE DEF old, new, F, L
  <2>5. more \in Seq(Record) /\ Len(more) = (L - F) + 1
        /\ (\A i \in 1 .. L - F : more[i] = old[i]) /\ more[(L - F) + 1] = r
    BY <2>2, AppendProperties
  <2> HIDE DEF more
  <2>6. ASSUME NEW i \in 1 .. (L + 1) - F PROVE new[i] = more[i]
    <3>1. CASE i \in 1 .. L - F
      <4>1. F + i \in 1 .. L
        BY <3>1, <2>1
      <4> QED BY <3>1, <4>1, <2>2, <2>4, <2>5, <1>9
    <3>2. CASE i \notin 1 .. L - F
      <4>1. i = (L - F) + 1 /\ F + i = L + 1
        BY <3>2, <2>1
      <4> QED BY <4>1, <2>4, <2>5, <1>9
    <3> QED BY <3>1, <3>2
  <2>7. (L + 1) - F = (L - F) + 1
    BY <2>1
  <2>8. new = more
    BY <2>4, <2>5, <2>6, <2>7, SeqEqual
  <2> QED BY <2>8 DEF more
<1> QED BY <1>4, <1>5, <1>6, <1>8, <1>10, <1>11

(***************************************************************************)
(* Of several segments the active one is never empty: _roll is followed by *)
(* an append in the same call.  It is why a trim never takes the record at *)
(* the log's end.                                                          *)
(***************************************************************************)
ActiveIsUsed == Len(segments) > 1 => segments[Len(segments)].records # <<>>

\* Both trimming loops shorten the window from its start, by less than all of it.
LEMMA TrimShortens ==
  ASSUME IInv, ActiveIsUsed, NEW n \in 0 .. Len(segments) - 1,
         segments' = DropOldest(segments, n), appended' = appended, IInv'
  PROVE  /\ ActiveIsUsed'
         /\ \/ FirstOffset(segments') = FirstOffset(segments) /\ Window(segments)' = Window(segments)
            \/ \E d \in 1 .. Len(Window(segments)) - 1 :
                 /\ FirstOffset(segments') = FirstOffset(segments) + d
                 /\ Window(segments)' = SubSeq(Window(segments), d + 1, Len(Window(segments)))
<1> DEFINE N == Len(segments)
           F == FirstOffset(segments)
           G == FirstOffset(segments')
           L == Len(appended)
<1>1. /\ segments \in Seq(Segment) /\ N \in Nat /\ N >= 1 /\ n \in Nat /\ n <= N - 1
      /\ appended \in Seq(Record) /\ L \in Nat
  <2>1. segments \in Seq(Segment) /\ N \in Nat /\ appended \in Seq(Record) /\ L \in Nat
    BY DEF IInv, TypeOK
  <2> HIDE DEF N, L
  <2>2. n \in 0 .. N - 1
    BY DEF N
  <2> QED BY <2>1, <2>2
<1>2. /\ segments' \in Seq(Segment) /\ Len(segments') = N - n
      /\ \A i \in 1 .. N - n : segments'[i] = segments[i + n]
  BY <1>1, DropOldestEffect
<1>3. F \in 0 .. L /\ Window(segments) = SubSeq(appended, F + 1, L)
  BY WindowOf
<1>4. G \in 0 .. L /\ Window(segments)' = SubSeq(appended, G + 1, L)
  <2>1. /\ FirstOffset(segments') \in 0 .. Len(appended')
        /\ Window(segments)' = SubSeq(appended', FirstOffset(segments') + 1, Len(appended'))
    BY WindowNext
  <2> QED BY <2>1
<1>5. G = segments[n + 1].base_offset /\ n + 1 \in 1 .. N
  <2> HIDE DEF N
  <2>1. 1 \in 1 .. N - n /\ 1 + n = n + 1 /\ n + 1 \in 1 .. N
    BY <1>1
  <2> QED BY <1>2, <2>1 DEF FirstOffset
<1>6. ActiveIsUsed'
  <2> SUFFICES ASSUME N - n > 1 PROVE segments'[N - n].records # <<>>
    BY <1>2 DEF ActiveIsUsed
  <2>1. N > 1 /\ N - n \in 1 .. N - n /\ (N - n) + n = N
    BY <1>1
  <2> QED BY <1>2, <2>1 DEF ActiveIsUsed
<1>7. n = 0 => G = F
  BY <1>5 DEF FirstOffset
<1>8. n # 0 => F < G /\ G < L
  <2> SUFFICES ASSUME n # 0 PROVE F < G /\ G < L
    OBVIOUS
  <2>1. 1 \in 1 .. N - 1 /\ 1 \in 1 .. N /\ 1 < n + 1 /\ DOMAIN segments = 1 .. N
    BY <1>1
  <2>2. \A i \in 1 .. N : /\ segments[i].base_offset \in Nat
                          /\ EndOf(segments[i]) \in Nat
                          /\ Len(segments[i].records) \in Nat
                          /\ EndOf(segments[i]) = segments[i].base_offset + Len(segments[i].records)
                          /\ (segments[i].records # <<>> => Len(segments[i].records) > 0)
    <3> TAKE i \in 1 .. N
    <3>1. segments[i] \in Segment
      BY <1>1
    <3>2. segments[i].records \in Seq(Record)
      BY <3>1, SegmentFields
    <3>3. segments[i].records # <<>> => Len(segments[i].records) > 0
      BY <3>2
    <3> QED BY <3>1, <3>3, SegmentFields
  <2>3. EndOf(segments[1]) <= G /\ segments[1].records # <<>>
    BY <2>1, <1>5, SMTT(30) DEF IInv, OrderedOf, SegmentChain
  <2>4. segments[n + 1].records # <<>>
    <3>1. CASE n + 1 = N
      BY <3>1, <1>1 DEF ActiveIsUsed
    <3>2. CASE n + 1 # N
      <4>1. n + 1 \in 1 .. N - 1
        BY <3>2, <1>1
      <4> QED BY <4>1 DEF IInv, SegmentChain
    <3> QED BY <3>1, <3>2
  <2>5. EndOf(segments[n + 1]) <= L
    <3>1. EndOf(segments[N]) = L /\ N \in 1 .. N
      BY <1>1 DEF IInv, SegmentChain, NextOffset
    <3>2. n + 1 = N \/ EndOf(segments[n + 1]) <= segments[N].base_offset
      <4>1. n + 1 = N \/ n + 1 < N
        BY <1>1
      <4>2. \A i, j \in 1 .. N : i < j => EndOf(segments[i]) <= segments[j].base_offset
        BY <2>1 DEF IInv, OrderedOf
      <4> HIDE DEF N
      <4> QED BY <4>1, <4>2, <1>5, <3>1
    <3>3. segments[N].base_offset <= L /\ segments[N].base_offset \in Nat
      <4> HIDE DEF N, L
      <4>1. /\ segments[N].base_offset \in Nat /\ Len(segments[N].records) \in Nat
            /\ EndOf(segments[N]) = segments[N].base_offset + Len(segments[N].records)
        BY <3>1, <2>2
      <4> QED BY <3>1, <4>1
    <3>4. EndOf(segments[n + 1]) \in Nat
      BY <2>2, <1>5
    <3> HIDE DEF N, L
    <3> QED BY <3>1, <3>2, <3>3, <3>4, <1>1
  <2>6. F = segments[1].base_offset
    BY DEF FirstOffset
  <2> HIDE DEF F, G, L, N
  <2>7. F < G
    <3> DEFINE e == EndOf(segments[1])
               k == Len(segments[1].records)
    <3>1. F \in Nat /\ e \in Nat /\ k \in Nat /\ e = F + k /\ k > 0
      BY <2>1, <2>2, <2>3, <2>6
    <3>2. e <= G /\ G \in Int
      BY <2>3, <1>4
    <3> HIDE DEF e, k
    <3> QED BY <3>1, <3>2
  <2>8. G < L
    <3> DEFINE e == EndOf(segments[n + 1])
               k == Len(segments[n + 1].records)
    <3>1. G \in Nat /\ e \in Nat /\ k \in Nat /\ e = G + k /\ k > 0
      BY <2>2, <2>4, <1>5
    <3>2. e <= L /\ L \in Nat
      BY <2>5, <1>1
    <3> HIDE DEF e, k
    <3> QED BY <3>1, <3>2
  <2> QED BY <2>7, <2>8
<1>9. CASE G = F
  BY <1>3, <1>4, <1>6, <1>9
<1>10. CASE F < G /\ G < L
  <2> DEFINE old == Window(segments)
             new == Window(segments)'
             d   == G - F
  <2>1. old \in Seq(Record) /\ Len(old) = L - F /\ \A i \in 1 .. L - F : old[i] = appended[F + i]
    BY <1>1, <1>3, TailOf
  <2>2. new \in Seq(Record) /\ Len(new) = L - G /\ \A i \in 1 .. L - G : new[i] = appended[G + i]
    <3> HIDE DEF G, L
    <3>1. SubSeq(appended, G + 1, L) \in Seq(Record) /\ Len(SubSeq(appended, G + 1, L)) = L - G
          /\ \A i \in 1 .. L - G : SubSeq(appended, G + 1, L)[i] = appended[G + i]
      BY <1>1, <1>4, TailOf DEF L
    <3> QED BY <3>1, <1>4
  <2> HIDE DEF F, G, L, old, new
  <2>3. F \in Nat /\ G \in Nat /\ L \in Nat
    BY <1>1, <1>3, <1>4
  <2>4. d \in 1 .. (L - F) - 1 /\ d \in 0 .. L - F /\ G = F + d /\ (L - F) - d = L - G
    BY <1>10, <2>3
  <2> DEFINE cut == SubSeq(old, d + 1, L - F)
  <2> HIDE DEF d
  <2>5. cut \in Seq(Record) /\ Len(cut) = (L - F) - d
        /\ \A i \in 1 .. (L - F) - d : cut[i] = old[d + i]
    BY <2>1, <2>4, TailOf
  <2>6. ASSUME NEW i \in 1 .. L - G PROVE new[i] = cut[i]
    <3>1. d + i \in 1 .. L - F /\ F + (d + i) = G + i
      BY <2>3, <2>4
    <3> HIDE DEF cut
    <3>2. cut[i] = old[d + i]
      BY <2>4, <2>5
    <3>3. old[d + i] = appended[F + (d + i)]
      BY <2>1, <3>1
    <3> QED BY <2>2, <3>1, <3>2, <3>3
  <2>7. new = cut
    <3> HIDE DEF cut
    <3> QED BY <2>2, <2>4, <2>5, <2>6, SeqEqual
  <2>8. d \in 1 .. Len(old) - 1 /\ G = F + d /\ new = SubSeq(old, d + 1, Len(old))
    BY <2>1, <2>4, <2>7
  <2> QED BY <2>8, <1>6 DEF old, new, F, G
<1> QED BY <1>7, <1>8, <1>9, <1>10

\* A step of the partition is a step of CommitLog, or changes nothing it shows.
LEMMA StepImplements ==
  IInv /\ IInv' /\ ActiveIsUsed /\ [Next]_vars => ActiveIsUsed' /\ [Abstract!Next]_(Abstract!vars)
<1> SUFFICES ASSUME IInv, IInv', ActiveIsUsed, [Next]_vars
             PROVE  ActiveIsUsed' /\ [Abstract!Next]_(Abstract!vars)
  OBVIOUS
<1>1. ASSUME segments' = segments, high_watermark' = high_watermark
      PROVE  ActiveIsUsed' /\ [Abstract!Next]_(Abstract!vars)
  BY <1>1 DEF ActiveIsUsed, Abstract!vars
<1>2. ASSUME NEW r \in Record, AppendRec(r)
      PROVE  ActiveIsUsed' /\ [Abstract!Next]_(Abstract!vars)
  <2>1. high_watermark' = high_watermark
    BY <1>2 DEF AppendRec
  <2>2. /\ FirstOffset(segments') = FirstOffset(segments)
        /\ Window(segments)' = Append(Window(segments), r)
        /\ segments'[Len(segments')].records # <<>>
    BY <1>2, AppendExtends
  <2>3. Abstract!Produce(r)
    BY <2>1, <2>2 DEF Abstract!Produce
  <2> QED BY <2>2, <2>3 DEF ActiveIsUsed, Abstract!Next
<1>3. ASSUME NEW to_offset \in 0 .. NextOffset(segments), AdvanceWatermark(to_offset)
      PROVE  ActiveIsUsed' /\ [Abstract!Next]_(Abstract!vars)
  <2>1. /\ to_offset >= high_watermark /\ to_offset <= NextOffset(segments)
        /\ high_watermark' = to_offset /\ segments' = segments
    BY <1>3 DEF AdvanceWatermark
  <2>2. /\ NextOffset(segments) = Len(appended) /\ Len(appended) \in Nat
        /\ high_watermark \in Nat /\ appended \in Seq(Record)
    BY DEF IInv, TypeOK, SegmentChain
  <2>3. Abstract!End = Len(appended)
    <3> DEFINE F == FirstOffset(segments)
               L == Len(appended)
    <3>1. F \in 0 .. L /\ Window(segments) = SubSeq(appended, F + 1, L)
      BY WindowOf
    <3>2. Len(SubSeq(appended, F + 1, L)) = L - F
      <4> HIDE DEF F
      <4> QED BY <2>2, <3>1, TailOf
    <3>3. Abstract!End = F + Len(Window(segments))
      BY DEF Abstract!End
    <3> HIDE DEF F, L
    <3>4. Abstract!End = L
      BY <3>1, <3>2, <3>3, <2>2 DEF L
    <3> QED BY <3>4 DEF L
  <2>4. to_offset \in high_watermark .. Abstract!End
    BY <2>1, <2>2, <2>3
  <2>5. Abstract!Commit(to_offset)
    BY <2>1 DEF Abstract!Commit
  <2>6. ActiveIsUsed'
    BY <2>1 DEF ActiveIsUsed
  <2> QED BY <2>4, <2>5, <2>6 DEF Abstract!Next
<1>4. ASSUME NEW n \in 0 .. Len(segments) - 1, segments' = DropOldest(segments, n),
             appended' = appended, high_watermark' = high_watermark
      PROVE  ActiveIsUsed' /\ [Abstract!Next]_(Abstract!vars)
  <2>1. /\ ActiveIsUsed'
        /\ \/ FirstOffset(segments') = FirstOffset(segments) /\ Window(segments)' = Window(segments)
           \/ \E d \in 1 .. Len(Window(segments)) - 1 :
                /\ FirstOffset(segments') = FirstOffset(segments) + d
                /\ Window(segments)' = SubSeq(Window(segments), d + 1, Len(Window(segments)))
    BY <1>4, TrimShortens
  <2>2. CASE FirstOffset(segments') = FirstOffset(segments) /\ Window(segments)' = Window(segments)
    BY <1>4, <2>1, <2>2 DEF Abstract!vars
  <2>3. ASSUME NEW d \in 1 .. Len(Window(segments)) - 1,
               FirstOffset(segments') = FirstOffset(segments) + d,
               Window(segments)' = SubSeq(Window(segments), d + 1, Len(Window(segments)))
        PROVE  Abstract!Next
    <3>1. Abstract!Trim(d)
      BY <1>4, <2>3 DEF Abstract!Trim
    <3> QED BY <3>1 DEF Abstract!Next
  <2> QED BY <2>1, <2>2, <2>3
<1>5. ASSUME NEW offset \in 0 .. NextOffset(segments), DropSealedBefore(offset)
      PROVE  ActiveIsUsed' /\ [Abstract!Next]_(Abstract!vars)
  <2>1. PICK n \in 0 .. Len(segments) - 1 :
          /\ segments' = DropOldest(segments, n) /\ appended' = appended
          /\ high_watermark' = high_watermark
    BY <1>5 DEF DropSealedBefore
  <2> QED BY <2>1, <1>4
<1>6. ASSUME NEW floor \in 0 .. NextOffset(segments), RetentionApply(floor)
      PROVE  ActiveIsUsed' /\ [Abstract!Next]_(Abstract!vars)
  <2>1. PICK n \in 0 .. Len(segments) - 1 :
          /\ segments' = DropOldest(segments, n) /\ appended' = appended
          /\ high_watermark' = high_watermark
    BY <1>6 DEF RetentionApply, histVars
  <2> QED BY <2>1, <1>4
<1>7. ASSUME Tick \/ UNCHANGED vars PROVE segments' = segments /\ high_watermark' = high_watermark
  BY <1>7 DEF Tick, vars, logVars
<1> QED
  BY <1>1, <1>2, <1>3, <1>5, <1>6, <1>7 DEF Next

(***************************************************************************)
(* A segmented partition is a CommitLog: to its clients, appends, rolls,   *)
(* drop_sealed_before and the retention runs are records produced at the   *)
(* end of one window, a commit line that advances, and trims of the        *)
(* window's head that never take the record at its end.                    *)
(***************************************************************************)
THEOREM PartitionIsACommitLog == Spec => ImplementsCommitLog
<1>1. Init => Abstract!Init /\ ActiveIsUsed
  <2> SUFFICES ASSUME Init PROVE Abstract!Init /\ ActiveIsUsed
    OBVIOUS
  <2>1. IInv
    BY InitIInv
  <2>2. /\ appended = <<>> /\ high_watermark = 0 /\ Len(segments) = 1
        /\ segments[1].base_offset = 0
    BY DEF Init, NewSegment
  <2>3. FirstOffset(segments) = 0 /\ Window(segments) = SubSeq(<<>>, 1, 0)
    BY <2>1, <2>2, WindowOf DEF FirstOffset
  <2>4. SubSeq(<<>>, 1, 0) = <<>>
    BY SubSeqEmpty
  <2> QED BY <2>2, <2>3, <2>4 DEF Abstract!Init, ActiveIsUsed
<1> QED
  BY <1>1, StepImplements, InductiveInvariant, PTL DEF Spec, ImplementsCommitLog, Abstract!Spec
----------------------------------------------------------------------------
(***************************************************************************)
(* What ConsumerGroup promises each contract, for any number of groups,    *)
(* any reset policies and any interleaving of consumers, crashes, seeks,   *)
(* retention runs and head drops.                                          *)
(***************************************************************************)

\* Where a group stands: what it committed, or the beginning.
PositionOf(com) == IF com = None THEN 0 ELSE com

\* An offset was processed, or is in a skip that was logged.
Covered(done, skips, o) ==
  done[o] > 0 \/ \E skip \in skips : skip[1] <= o /\ o < skip[2] - 1

(***************************************************************************)
(* One group: the committed offset, the logged skips, the consumer's       *)
(* cursor and stage, and how often each offset was processed.              *)
(*                                                                         *)
(* An at-least-once group whose consumer is between its two steps has      *)
(* processed the record in hand.  An at-most-once group has processed      *)
(* nothing from its position on, and its consumer never reads below the    *)
(* position, except for the record it has committed and not yet processed. *)
(***************************************************************************)
AtLeast(com, skips, cur, st, done) ==
  /\ st = "half" => done[cur] > 0
  /\ \A o \in 0 .. PositionOf(com) - 1 : Covered(done, skips, o)

\* An at-most-once group.
AtMost(com, cur, st, done) ==
  /\ \A o \in Offset : done[o] <= 1 /\ (o >= PositionOf(com) => done[o] = 0)
  /\ cur # None => IF st = "half" THEN cur + 1 = PositionOf(com) /\ done[cur] = 0
                                  ELSE cur >= PositionOf(com)

\* Where the position and the cursor lie in a log with this watermark and this end.
Placed(com, cur, st, hw, end) ==
  /\ com # None => com <= hw
  /\ cur # None => cur <= end
  /\ st # "idle" => cur # None /\ cur < hw

\* A head that retention alone has moved.
NotOvertaken(com, cur, st, first) ==
  /\ com # None => first <= com
  /\ com = None /\ st # "idle" => first <= cur

\* The types of the groups.
Tables ==
  /\ registered \in SUBSET Group
  /\ committed \in [Group -> Nat \cup {None}]
  /\ cursor \in [Group -> Nat \cup {None}]
  /\ stage \in [Group -> {"idle", "read", "half"}]
  /\ processed \in [Group -> [Offset -> Nat]]
  /\ skips_logged \in [Group -> SUBSET (Nat \X Nat)]
  /\ Len(appended) <= MaxRecords

\* Every group keeps its contract, and stands within the log.
Contracts ==
  \A g \in Group :
    /\ Contract[g] = "at-least-once" =>
         AtLeast(committed[g], skips_logged[g], cursor[g], stage[g], processed[g])
    /\ Contract[g] = "at-most-once" =>
         AtMost(committed[g], cursor[g], stage[g], processed[g])
    /\ Placed(committed[g], cursor[g], stage[g], high_watermark, Len(appended))

\* A group that is not registered has no position and no consumer.
Outsiders ==
  \A g \in Group \ registered : committed[g] = None /\ cursor[g] = None /\ stage[g] = "idle"

\* Until the head is dropped by hand, no group has been overtaken.
Heads ==
  dropped = 0 =>
    /\ fell_behind_resets = 0
    /\ \A g \in Group : NotOvertaken(committed[g], cursor[g], stage[g], FirstOffset(segments))

\* The inductive invariant: that of the log, and that of the groups.
DInv == IInv /\ Tables /\ Contracts /\ Outsiders /\ Heads

----------------------------------------------------------------------------
\* One group's share of the invariant, over the group's own state.
GroupOK(g, com, skips, cur, st, done) ==
  /\ com \in Nat \cup {None} /\ cur \in Nat \cup {None} /\ st \in {"idle", "read", "half"}
  /\ done \in [Offset -> Nat] /\ skips \in SUBSET (Nat \X Nat)
  /\ Contract[g] = "at-least-once" => AtLeast(com, skips, cur, st, done)
  /\ Contract[g] = "at-most-once" => AtMost(com, cur, st, done)
  /\ Placed(com, cur, st, high_watermark, Len(appended))
  /\ dropped = 0 => NotOvertaken(com, cur, st, FirstOffset(segments))

\* The invariant gives every group its share.
LEMMA DInvGroups ==
  ASSUME DInv, NEW g \in Group
  PROVE  GroupOK(g, committed[g], skips_logged[g], cursor[g], stage[g], processed[g])
<1>1. Tables /\ Contracts /\ Heads
  BY DEF DInv
<1>2. /\ committed[g] \in Nat \cup {None} /\ cursor[g] \in Nat \cup {None}
      /\ stage[g] \in {"idle", "read", "half"} /\ processed[g] \in [Offset -> Nat]
      /\ skips_logged[g] \in SUBSET (Nat \X Nat)
  BY <1>1 DEF Tables
<1> QED BY <1>1, <1>2 DEF GroupOK, Contracts, Heads

\* A step that touches one group only.
Turn(g, com, skips, cur, st, done) ==
  /\ committed' = [committed EXCEPT ![g] = com]
  /\ skips_logged' = [skips_logged EXCEPT ![g] = skips]
  /\ cursor' = [cursor EXCEPT ![g] = cur]
  /\ stage' = [stage EXCEPT ![g] = st]
  /\ processed' = [processed EXCEPT ![g] = done]
  /\ UNCHANGED <<partitionVars, registered>>
  /\ dropped = 0 => fell_behind_resets' = 0

(***************************************************************************)
(* A step of one group's consumer keeps the invariant when it keeps that   *)
(* group's share.                                                          *)
(***************************************************************************)
LEMMA GroupStep ==
  ASSUME DInv, NEW g \in registered,
         NEW com, NEW skips, NEW cur, NEW st, NEW done,
         GroupOK(g, com, skips, cur, st, done),
         Turn(g, com, skips, cur, st, done)
  PROVE  DInv'
<1>1. Tables /\ Contracts /\ Heads /\ Outsiders /\ IInv
  BY DEF DInv
<1>2. g \in Group
  BY <1>1 DEF Tables
<1>3. /\ segments' = segments /\ rolls' = rolls /\ high_watermark' = high_watermark
      /\ reclaimed_segments' = reclaimed_segments /\ now' = now
      /\ appended' = appended /\ dropped' = dropped
  BY DEF Turn, partitionVars, vars, logVars, retVars, clockVars, histVars
<1>4. IInv'
  BY <1>1, <1>3 DEF IInv, TypeOK, SegmentChain, OffsetsAreStable, SegmentsAccounted, OrderedOf
<1>5. /\ com \in Nat \cup {None} /\ cur \in Nat \cup {None} /\ st \in {"idle", "read", "half"}
      /\ done \in [Offset -> Nat] /\ skips \in SUBSET (Nat \X Nat)
  BY DEF GroupOK
<1>6. Tables'
  BY <1>1, <1>2, <1>3, <1>5 DEF Tables, Turn
<1>7. ASSUME NEW h \in Group
      PROVE  /\ committed'[h] = IF h = g THEN com ELSE committed[h]
             /\ skips_logged'[h] = IF h = g THEN skips ELSE skips_logged[h]
             /\ cursor'[h] = IF h = g THEN cur ELSE cursor[h]
             /\ stage'[h] = IF h = g THEN st ELSE stage[h]
             /\ processed'[h] = IF h = g THEN done ELSE processed[h]
  BY <1>1 DEF Tables, Turn
<1>8. ASSUME NEW h \in Group
      PROVE  GroupOK(h, committed'[h], skips_logged'[h], cursor'[h], stage'[h], processed'[h])
  <2>1. CASE h = g
    BY <2>1, <1>7
  <2>2. CASE h # g
    <3>1. GroupOK(h, committed[h], skips_logged[h], cursor[h], stage[h], processed[h])
      BY DInvGroups
    <3> QED BY <2>2, <3>1, <1>7
  <2> QED BY <2>1, <2>2
<1>9. Contracts'
  BY <1>3, <1>8 DEF Contracts, GroupOK
<1>10. Heads'
  BY <1>3, <1>8 DEF Heads, GroupOK, Turn
<1>11. Outsiders'
  BY <1>1, <1>7 DEF Outsiders, Turn
<1> QED BY <1>4, <1>6, <1>9, <1>10, <1>11 DEF DInv

(***************************************************************************)
(* A step of the partition keeps the invariant when it moves the lines     *)
(* forward and, unless by a head drop, overtakes no group.                 *)
(***************************************************************************)
LEMMA LogStep ==
  ASSUME DInv, IInv', Len(appended') <= MaxRecords,
         high_watermark' >= high_watermark, Len(appended') >= Len(appended),
         UNCHANGED <<groupVars, ledgerVars, consumerVars>>,
         dropped' = 0 => /\ dropped = 0
                         /\ \A g \in Group : NotOvertaken(committed[g], cursor[g], stage[g],
                                                          FirstOffset(segments'))
  PROVE  DInv'
<1>1. Tables /\ Contracts /\ Heads /\ Outsiders /\ IInv
  BY DEF DInv
<1>2. /\ registered' = registered /\ committed' = committed /\ skips_logged' = skips_logged
      /\ cursor' = cursor /\ stage' = stage /\ processed' = processed
      /\ fell_behind_resets' = fell_behind_resets
  BY DEF groupVars, ledgerVars, consumerVars
<1>3. Tables' /\ Outsiders'
  BY <1>1, <1>2 DEF Tables, Outsiders
<1>4. /\ high_watermark \in Nat /\ high_watermark' \in Nat
      /\ Len(appended) \in Nat /\ Len(appended') \in Nat
  BY <1>1 DEF IInv, TypeOK
<1>5. ASSUME NEW g \in Group
      PROVE  Placed(committed[g], cursor[g], stage[g], high_watermark', Len(appended'))
  <2>1. Placed(committed[g], cursor[g], stage[g], high_watermark, Len(appended))
    BY <1>1 DEF Contracts
  <2>2. committed[g] \in Nat \cup {None} /\ cursor[g] \in Nat \cup {None}
    BY <1>1 DEF Tables
  <2> QED BY <1>4, <2>1, <2>2 DEF Placed
<1>6. Contracts'
  BY <1>1, <1>2, <1>5 DEF Contracts
<1>7. Heads'
  BY <1>1, <1>2 DEF Heads
<1> QED BY <1>3, <1>6, <1>7 DEF DInv
----------------------------------------------------------------------------
\* The lines of the log, as the groups meet them.
LEMMA Lines ==
  ASSUME DInv
  PROVE  /\ high_watermark \in Nat /\ Len(appended) \in Nat /\ MaxRecords \in Nat
         /\ high_watermark <= Len(appended) /\ Len(appended) <= MaxRecords
         /\ FirstOffset(segments) \in Nat /\ FirstOffset(segments) <= Len(appended)
<1>1. IInv /\ Len(appended) <= MaxRecords
  BY DEF DInv, Tables
<1>2. /\ high_watermark \in Nat /\ Len(appended) \in Nat
      /\ high_watermark <= NextOffset(segments) /\ NextOffset(segments) = Len(appended)
  BY <1>1 DEF IInv, TypeOK, SegmentChain
<1>3. FirstOffset(segments) \in 0 .. Len(appended)
  BY <1>1, WindowOf
<1> QED BY <1>1, <1>2, <1>3, BoundsAssumption

\* A record Partition.consume hands out is below the watermark and retained.
LEMMA ConsumedIsRetained ==
  ASSUME DInv, NEW o \in Nat, Consume(o).status = "ok"
  PROVE  o < high_watermark /\ FirstOffset(segments) <= o
<1>1. IInv /\ high_watermark \in Nat /\ FirstOffset(segments) \in Nat
  BY Lines DEF DInv
<1>2. o < high_watermark
  BY <1>1 DEF Consume
<1>3. o \in 0 .. high_watermark - 1
  BY <1>1, <1>2
<1>4. Consume(o) = IF o < FirstOffset(segments) THEN [status |-> "lagging"]
                   ELSE [status |-> "ok", record |-> appended[o + 1]]
  BY <1>1, <1>3, CommittedServed DEF CommittedIsServed
<1>5. ~(o < FirstOffset(segments))
  BY <1>4
<1> QED BY <1>1, <1>2, <1>5

\* A consumer that runs is one of a registered group.
LEMMA RunningIsRegistered ==
  ASSUME DInv, NEW g \in Group, cursor[g] # None \/ stage[g] # "idle"
  PROVE  g \in registered
  BY DEF DInv, Outsiders

\* GroupRegistry.register adds a group that has no state yet.
LEMMA RegisterStep ==
  ASSUME DInv, NEW g \in Group, Register(g)
  PROVE  DInv'
<1>1. Tables /\ Contracts /\ Heads /\ Outsiders /\ IInv
  BY DEF DInv
<1>2. /\ segments' = segments /\ rolls' = rolls /\ high_watermark' = high_watermark
      /\ reclaimed_segments' = reclaimed_segments /\ now' = now
      /\ appended' = appended /\ dropped' = dropped
      /\ committed' = committed /\ skips_logged' = skips_logged
      /\ cursor' = cursor /\ stage' = stage /\ processed' = processed
      /\ fell_behind_resets' = fell_behind_resets /\ registered' = registered \cup {g}
  BY DEF Register, partitionVars, vars, logVars, retVars, clockVars, histVars, ledgerVars,
         consumerVars
<1>3. IInv'
  BY <1>1, <1>2 DEF IInv, TypeOK, SegmentChain, OffsetsAreStable, SegmentsAccounted, OrderedOf
<1>4. Tables'
  BY <1>1, <1>2 DEF Tables
<1>5. Contracts' /\ Heads'
  BY <1>1, <1>2 DEF Contracts, Heads
<1>6. Outsiders'
  BY <1>1, <1>2 DEF Outsiders
<1> QED BY <1>3, <1>4, <1>5, <1>6 DEF DInv

\* resolve_reset puts a consumer at its position or past it.
LEMMA StartStep ==
  ASSUME DInv, NEW g \in Group, Start(g)
  PROVE  DInv'
<1> DEFINE com == committed[g]
           cur == ResetTo(g)
<1>1. /\ g \in registered /\ cursor[g] = None
      /\ cursor' = [cursor EXCEPT ![g] = cur]
      /\ fell_behind_resets' = fell_behind_resets + (IF FellBehind(g) THEN 1 ELSE 0)
      /\ UNCHANGED <<partitionVars, registered, committed, skips_logged, stage, processed>>
  BY DEF Start, groupVars
<1>2. GroupOK(g, com, skips_logged[g], cursor[g], stage[g], processed[g])
  BY DInvGroups
<1>3. /\ high_watermark \in Nat /\ high_watermark <= Len(appended)
      /\ FirstOffset(segments) \in Nat /\ FirstOffset(segments) <= Len(appended)
      /\ Len(appended) \in Nat
  BY Lines
<1>4. stage[g] = "idle"
  BY <1>1, <1>2 DEF GroupOK, Placed
<1>5. /\ com \in Nat \cup {None} /\ (com # None => com <= high_watermark)
      /\ com = None \/ com \in Nat
  BY <1>2 DEF GroupOK, Placed
<1>6. cur \in Nat /\ cur <= Len(appended) /\ cur >= PositionOf(com)
  BY <1>3, <1>5 DEF ResetTo, Resets, FellBehind, First, PositionOf
<1>7. GroupOK(g, com, skips_logged[g], cur, stage[g], processed[g])
  <2> HIDE DEF cur, com
  <2>1. AtLeast(com, skips_logged[g], cursor[g], stage[g], processed[g])
          => AtLeast(com, skips_logged[g], cur, stage[g], processed[g])
    BY <1>4 DEF AtLeast
  <2>2. AtMost(com, cursor[g], stage[g], processed[g])
          => AtMost(com, cur, stage[g], processed[g])
    BY <1>4, <1>6 DEF AtMost
  <2>3. Placed(com, cur, stage[g], high_watermark, Len(appended))
    BY <1>4, <1>5, <1>6 DEF Placed
  <2>4. NotOvertaken(com, cursor[g], stage[g], FirstOffset(segments))
          => NotOvertaken(com, cur, stage[g], FirstOffset(segments))
    BY <1>4 DEF NotOvertaken
  <2> QED BY <1>2, <1>6, <2>1, <2>2, <2>3, <2>4 DEF GroupOK
<1>8. dropped = 0 => fell_behind_resets' = 0
  <2> SUFFICES ASSUME dropped = 0 PROVE fell_behind_resets' = 0
    OBVIOUS
  <2>1. fell_behind_resets = 0 /\ (com # None => FirstOffset(segments) <= com)
    BY DEF DInv, Heads, NotOvertaken
  <2>2. ~FellBehind(g)
    BY <1>3, <1>5, <2>1 DEF FellBehind, First
  <2> QED BY <1>1, <2>1, <2>2
<1>9. /\ committed' = [committed EXCEPT ![g] = com]
      /\ skips_logged' = [skips_logged EXCEPT ![g] = skips_logged[g]]
      /\ stage' = [stage EXCEPT ![g] = stage[g]]
      /\ processed' = [processed EXCEPT ![g] = processed[g]]
  BY <1>1 DEF DInv, Tables
<1>10. Turn(g, com, skips_logged[g], cur, stage[g], processed[g])
  BY <1>1, <1>8, <1>9 DEF Turn
<1> HIDE DEF com, cur
<1> QED BY <1>1, <1>7, <1>10, GroupStep

\* Partition.consume puts the record in the consumer's hand, or sends it to reset.
LEMMA FetchStep ==
  ASSUME DInv, NEW g \in Group, Fetch(g)
  PROVE  DInv'
<1> DEFINE com == committed[g]
<1>1. /\ cursor[g] # None /\ stage[g] = "idle"
      /\ UNCHANGED <<partitionVars, registered, committed, skips_logged, fell_behind_resets,
                     processed>>
  BY DEF Fetch, groupVars, ledgerVars
<1>2. GroupOK(g, com, skips_logged[g], cursor[g], stage[g], processed[g])
  BY DInvGroups
<1>3. g \in registered /\ cursor[g] \in Nat
  BY <1>1, <1>2, RunningIsRegistered DEF GroupOK
<1>4. /\ committed' = [committed EXCEPT ![g] = com]
      /\ skips_logged' = [skips_logged EXCEPT ![g] = skips_logged[g]]
      /\ processed' = [processed EXCEPT ![g] = processed[g]]
      /\ cursor = [cursor EXCEPT ![g] = cursor[g]]
      /\ stage = [stage EXCEPT ![g] = stage[g]]
  BY <1>1 DEF DInv, Tables
<1>5. dropped = 0 => fell_behind_resets' = 0
  BY <1>1 DEF DInv, Heads
<1> HIDE DEF com
<1>6. CASE /\ Consume(cursor[g]).status = "ok"
           /\ stage' = [stage EXCEPT ![g] = "read"]
           /\ UNCHANGED cursor
  <2>1. cursor[g] < high_watermark /\ FirstOffset(segments) <= cursor[g]
    BY <1>3, <1>6, ConsumedIsRetained
  <2>2. GroupOK(g, com, skips_logged[g], cursor[g], "read", processed[g])
    <3>1. AtLeast(com, skips_logged[g], cursor[g], stage[g], processed[g])
            => AtLeast(com, skips_logged[g], cursor[g], "read", processed[g])
      BY DEF AtLeast
    <3>2. AtMost(com, cursor[g], stage[g], processed[g])
            => AtMost(com, cursor[g], "read", processed[g])
      BY <1>1 DEF AtMost
    <3>3. Placed(com, cursor[g], "read", high_watermark, Len(appended))
      BY <1>1, <1>2, <2>1 DEF GroupOK, Placed
    <3>4. dropped = 0 => NotOvertaken(com, cursor[g], "read", FirstOffset(segments))
      BY <1>2, <2>1 DEF GroupOK, NotOvertaken
    <3> QED BY <1>2, <3>1, <3>2, <3>3, <3>4 DEF GroupOK
  <2>3. cursor' = [cursor EXCEPT ![g] = cursor[g]]
    BY <1>4, <1>6
  <2>4. Turn(g, com, skips_logged[g], cursor[g], "read", processed[g])
    BY <1>1, <1>4, <1>5, <1>6, <2>3 DEF Turn
  <2> QED BY <1>3, <2>2, <2>4, GroupStep
<1>7. CASE cursor' = [cursor EXCEPT ![g] = None] /\ UNCHANGED stage
  <2>1. GroupOK(g, com, skips_logged[g], None, stage[g], processed[g])
    <3>1. AtLeast(com, skips_logged[g], cursor[g], stage[g], processed[g])
            => AtLeast(com, skips_logged[g], None, stage[g], processed[g])
      BY <1>1 DEF AtLeast
    <3>2. AtMost(com, cursor[g], stage[g], processed[g])
            => AtMost(com, None, stage[g], processed[g])
      BY DEF AtMost
    <3>3. Placed(com, None, stage[g], high_watermark, Len(appended))
      BY <1>1, <1>2 DEF GroupOK, Placed
    <3>4. dropped = 0 => NotOvertaken(com, None, stage[g], FirstOffset(segments))
      BY <1>1, <1>2 DEF GroupOK, NotOvertaken
    <3> QED BY <1>2, <3>1, <3>2, <3>3, <3>4 DEF GroupOK
  <2>2. stage' = [stage EXCEPT ![g] = stage[g]]
    BY <1>4, <1>7
  <2>3. Turn(g, com, skips_logged[g], None, stage[g], processed[g])
    BY <1>1, <1>4, <1>5, <1>7, <2>2 DEF Turn
  <2> QED BY <1>3, <2>1, <2>3, GroupStep
<1> QED BY <1>6, <1>7 DEF Fetch

\* The tables of a group whose entries a step leaves alone.
LEMMA SameEntries ==
  ASSUME DInv, NEW g \in Group
  PROVE  /\ committed = [committed EXCEPT ![g] = committed[g]]
         /\ skips_logged = [skips_logged EXCEPT ![g] = skips_logged[g]]
         /\ cursor = [cursor EXCEPT ![g] = cursor[g]]
         /\ stage = [stage EXCEPT ![g] = stage[g]]
         /\ processed = [processed EXCEPT ![g] = processed[g]]
  BY DEF DInv, Tables

\* Processing the record in hand counts it once more.
LEMMA ProcessEffect ==
  ASSUME DInv, NEW g \in Group, stage[g] # "idle", Process(g)
  PROVE  \E done \in [Offset -> Nat] :
           /\ processed' = [processed EXCEPT ![g] = done]
           /\ cursor[g] \in Offset
           /\ \A o \in Offset :
                done[o] = processed[g][o] + (IF o = cursor[g] THEN 1 ELSE 0)
<1> DEFINE c    == cursor[g]
           done == [processed[g] EXCEPT ![c] = @ + 1]
<1>1. GroupOK(g, committed[g], skips_logged[g], c, stage[g], processed[g])
  BY DInvGroups
<1>2. c \in Nat /\ c < high_watermark
  BY <1>1 DEF GroupOK, Placed
<1>3. c \in Offset
  BY <1>2, Lines DEF Offset
<1>4. processed[g] \in [Offset -> Nat]
  BY <1>1 DEF GroupOK
<1>5. \A o \in Offset : done[o] = processed[g][o] + (IF o = c THEN 1 ELSE 0)
  BY <1>3, <1>4
<1>6. done \in [Offset -> Nat]
  BY <1>3, <1>4
<1>7. processed' = [processed EXCEPT ![g] = done]
  BY DEF Process, DInv, Tables
<1> QED BY <1>3, <1>5, <1>6, <1>7

(***************************************************************************)
(* ConsumerGroup.commit of the record in hand: the position becomes the    *)
(* offset after it, and every offset it jumps over is in a logged skip.    *)
(***************************************************************************)
LEMMA CommitEffect ==
  ASSUME DInv, NEW g \in Group, stage[g] # "idle",
         CommitAllowed(g, cursor[g] + 1), Commit(g, cursor[g] + 1)
  PROVE  \E skips \in SUBSET (Nat \X Nat) :
           /\ committed' = [committed EXCEPT ![g] = cursor[g] + 1]
           /\ skips_logged' = [skips_logged EXCEPT ![g] = skips]
           /\ cursor[g] + 1 \in Nat /\ cursor[g] + 1 # None
           /\ cursor[g] + 1 <= high_watermark /\ cursor[g] + 1 >= PositionOf(committed[g])
           /\ skips_logged[g] \subseteq skips
           /\ \A o \in PositionOf(committed[g]) .. cursor[g] - 1 :
                \E skip \in skips : skip[1] <= o /\ o < skip[2] - 1
<1> DEFINE c   == cursor[g]
           pos == PositionOf(committed[g])
           new == <<pos, c + 1>>
<1>1. GroupOK(g, committed[g], skips_logged[g], c, stage[g], processed[g])
  BY DInvGroups
<1>2. c \in Nat /\ c < high_watermark /\ pos \in Nat /\ skips_logged[g] \in SUBSET (Nat \X Nat)
  BY <1>1 DEF GroupOK, Placed, PositionOf
<1>3. Position(g) = pos
  BY DEF Position, PositionOf
<1>4. c + 1 \in Nat /\ c + 1 # None /\ c + 1 <= high_watermark /\ c + 1 >= pos
  BY <1>2, <1>3, NoneAssumption DEF CommitAllowed
<1>5. committed' = [committed EXCEPT ![g] = c + 1]
  BY DEF Commit
<1>6. CASE (c + 1) - pos > 1
  <2> DEFINE skips == skips_logged[g] \cup {new}
  <2>1. skips_logged' = [skips_logged EXCEPT ![g] = skips]
    BY <1>3, <1>6 DEF Commit
  <2>2. new \in Nat \X Nat /\ new[1] = pos /\ new[2] = c + 1
    BY <1>2, <1>4
  <2>3. \A o \in pos .. c - 1 : new[1] <= o /\ o < new[2] - 1
    BY <1>2, <2>2
  <2>4. skips \in SUBSET (Nat \X Nat) /\ skips_logged[g] \subseteq skips /\ new \in skips
    BY <1>2, <2>2
  <2> HIDE DEF new, c, pos, skips
  <2> QED BY <1>4, <1>5, <2>1, <2>3, <2>4 DEF c, pos
<1>7. CASE ~((c + 1) - pos > 1)
  <2>1. skips_logged' = [skips_logged EXCEPT ![g] = skips_logged[g]]
    BY <1>3, <1>7, SameEntries DEF Commit
  <2>2. pos .. c - 1 = {}
    <3> HIDE DEF c, pos
    <3> QED BY <1>2, <1>7
  <2> HIDE DEF c, pos
  <2> QED BY <1>2, <1>4, <1>5, <2>1, <2>2 DEF c, pos
<1> QED BY <1>6, <1>7

\* At-least-once: process, then commit if the group allows it.
LEMMA AtLeastOnceStep ==
  ASSUME DInv, NEW g \in Group, AtLeastOnce(g)
  PROVE  DInv'
<1> DEFINE com   == committed[g]
           skips == skips_logged[g]
           cur   == cursor[g]
           done  == processed[g]
<1>1. /\ Contract[g] = "at-least-once"
      /\ UNCHANGED <<partitionVars, registered, fell_behind_resets>>
  BY DEF AtLeastOnce, ledgerVars
<1>2. GroupOK(g, com, skips, cur, stage[g], done)
  BY DInvGroups
<1>3. dropped = 0 => fell_behind_resets' = 0
  BY <1>1 DEF DInv, Heads
<1>4. AtLeast(com, skips, cur, stage[g], done)
  BY <1>1, <1>2 DEF GroupOK
<1>5. com \in Nat \cup {None} /\ done \in [Offset -> Nat] /\ skips \in SUBSET (Nat \X Nat)
      /\ cur \in Nat \cup {None}
  BY <1>2 DEF GroupOK
<1>6. CASE stage[g] = "read" /\ Process(g) /\ Half(g) /\ UNCHANGED <<committed, skips_logged>>
  <2>1. g \in registered
    BY <1>6, RunningIsRegistered
  <2>2. PICK more \in [Offset -> Nat] :
          /\ processed' = [processed EXCEPT ![g] = more]
          /\ cur \in Offset
          /\ \A o \in Offset : more[o] = done[o] + (IF o = cur THEN 1 ELSE 0)
    BY <1>6, ProcessEffect
  <2>3. /\ committed' = [committed EXCEPT ![g] = com]
        /\ skips_logged' = [skips_logged EXCEPT ![g] = skips]
        /\ cursor' = [cursor EXCEPT ![g] = cur]
        /\ stage' = [stage EXCEPT ![g] = "half"]
    BY <1>6, SameEntries DEF Half
  <2>4. Turn(g, com, skips, cur, "half", more)
    BY <1>1, <1>3, <2>2, <2>3 DEF Turn
  <2> HIDE DEF com, skips, cur, done
  <2>5. more[cur] > 0 /\ \A o \in Offset : done[o] > 0 => more[o] > 0
    BY <1>5, <2>2
  <2>6. AtLeast(com, skips, cur, "half", more)
    <3>1. \A o \in 0 .. PositionOf(com) - 1 : Covered(done, skips, o) /\ o \in Offset
      <4>1. com # None => com <= high_watermark
        BY <1>2 DEF GroupOK, Placed
      <4>2. PositionOf(com) \in Nat /\ PositionOf(com) <= MaxRecords
        BY <1>5, <4>1, Lines DEF PositionOf
      <4> QED BY <1>4, <4>2, Lines DEF AtLeast, Offset
    <3> QED BY <2>5, <3>1 DEF AtLeast, Covered
  <2>7. Placed(com, cur, "half", high_watermark, Len(appended))
    BY <1>2, <1>6 DEF GroupOK, Placed
  <2>8. dropped = 0 => NotOvertaken(com, cur, "half", FirstOffset(segments))
    BY <1>2, <1>6 DEF GroupOK, NotOvertaken
  <2>9. GroupOK(g, com, skips, cur, "half", more)
    BY <1>1, <1>5, <2>2, <2>6, <2>7, <2>8 DEF GroupOK
  <2> QED BY <2>1, <2>4, <2>9, GroupStep
<1>7. CASE /\ stage[g] = "half"
           /\ IF CommitAllowed(g, cur + 1)
              THEN Commit(g, cur + 1)
              ELSE UNCHANGED <<committed, skips_logged>>
           /\ Finish(g)
           /\ UNCHANGED processed
  <2>1. g \in registered
    BY <1>7, RunningIsRegistered
  <2>2. /\ processed' = [processed EXCEPT ![g] = done]
        /\ cursor' = [cursor EXCEPT ![g] = cur + 1]
        /\ stage' = [stage EXCEPT ![g] = "idle"]
    BY <1>7, SameEntries DEF Finish
  <2>3. /\ cur \in Nat /\ cur < high_watermark /\ cur # None /\ cur + 1 \in Nat
        /\ cur + 1 <= Len(appended) /\ cur \in Offset
    BY <1>2, <1>5, <1>7, Lines DEF GroupOK, Placed, Offset
  <2>4. CASE CommitAllowed(g, cur + 1)
    <3>1. PICK after \in SUBSET (Nat \X Nat) :
             /\ committed' = [committed EXCEPT ![g] = cur + 1]
             /\ skips_logged' = [skips_logged EXCEPT ![g] = after]
             /\ cur + 1 # None
             /\ cur + 1 <= high_watermark /\ cur + 1 >= PositionOf(com)
             /\ skips \subseteq after
             /\ \A o \in PositionOf(com) .. cur - 1 :
                  \E skip \in after : skip[1] <= o /\ o < skip[2] - 1
      BY <1>7, <2>4, CommitEffect
    <3>2. Turn(g, cur + 1, after, cur + 1, "idle", done)
      BY <1>1, <1>3, <2>2, <3>1 DEF Turn
    <3> HIDE DEF com, skips, cur, done
    <3>3. ASSUME NEW o \in 0 .. cur PROVE Covered(done, after, o)
      <4>1. PositionOf(com) \in Nat
        BY <1>5 DEF PositionOf
      <4>2. CASE o \in 0 .. PositionOf(com) - 1
        <5>1. Covered(done, skips, o)
          BY <1>4, <4>2 DEF AtLeast
        <5> QED BY <5>1, <3>1 DEF Covered
      <4>3. CASE o \in PositionOf(com) .. cur - 1
        BY <3>1, <4>3 DEF Covered
      <4>4. CASE o = cur
        BY <1>4, <1>7, <4>4 DEF AtLeast, Covered
      <4> QED BY <2>3, <4>1, <4>2, <4>3, <4>4
    <3>4. AtLeast(cur + 1, after, cur + 1, "idle", done)
      <4>1. PositionOf(cur + 1) = cur + 1 /\ (cur + 1) - 1 = cur
        BY <2>3, <3>1 DEF PositionOf
      <4> QED BY <3>3, <4>1 DEF AtLeast
    <3>5. Placed(cur + 1, cur + 1, "idle", high_watermark, Len(appended))
      BY <2>3, <3>1 DEF Placed
    <3>6. dropped = 0 => NotOvertaken(cur + 1, cur + 1, "idle", FirstOffset(segments))
      <4> SUFFICES ASSUME dropped = 0 PROVE FirstOffset(segments) <= cur + 1
        BY <3>1 DEF NotOvertaken
      <4>1. NotOvertaken(com, cur, stage[g], FirstOffset(segments))
        BY <1>2 DEF GroupOK
      <4>2. PositionOf(com) \in Nat /\ FirstOffset(segments) \in Nat
        BY <1>5, Lines DEF PositionOf
      <4> QED BY <1>5, <1>7, <2>3, <3>1, <4>1, <4>2 DEF NotOvertaken, PositionOf
    <3>7. GroupOK(g, cur + 1, after, cur + 1, "idle", done)
      BY <1>1, <1>5, <2>3, <3>1, <3>4, <3>5, <3>6 DEF GroupOK
    <3> QED BY <2>1, <3>2, <3>7, GroupStep
  <2>5. CASE ~CommitAllowed(g, cur + 1)
    <3>1. /\ committed' = [committed EXCEPT ![g] = com]
          /\ skips_logged' = [skips_logged EXCEPT ![g] = skips]
      BY <1>7, <2>5, SameEntries
    <3>2. Turn(g, com, skips, cur + 1, "idle", done)
      BY <1>1, <1>3, <2>2, <3>1 DEF Turn
    <3> HIDE DEF com, skips, cur, done
    <3>3. AtLeast(com, skips, cur + 1, "idle", done)
      BY <1>4 DEF AtLeast
    <3>4. Placed(com, cur + 1, "idle", high_watermark, Len(appended))
      BY <1>2, <2>3 DEF GroupOK, Placed
    <3>5. dropped = 0 => NotOvertaken(com, cur + 1, "idle", FirstOffset(segments))
      BY <1>2 DEF GroupOK, NotOvertaken
    <3>6. GroupOK(g, com, skips, cur + 1, "idle", done)
      BY <1>1, <1>5, <2>3, <3>3, <3>4, <3>5 DEF GroupOK
    <3> QED BY <2>1, <3>2, <3>6, GroupStep
  <2> QED BY <2>4, <2>5
<1> QED BY <1>6, <1>7 DEF AtLeastOnce

\* At-most-once: commit, then process; a refused commit gives the record up.
LEMMA AtMostOnceStep ==
  ASSUME DInv, NEW g \in Group, AtMostOnce(g)
  PROVE  DInv'
<1> DEFINE com   == committed[g]
           skips == skips_logged[g]
           cur   == cursor[g]
           done  == processed[g]
<1>1. /\ Contract[g] = "at-most-once"
      /\ UNCHANGED <<partitionVars, registered, fell_behind_resets>>
  BY DEF AtMostOnce, ledgerVars
<1>2. GroupOK(g, com, skips, cur, stage[g], done)
  BY DInvGroups
<1>3. dropped = 0 => fell_behind_resets' = 0
  BY <1>1 DEF DInv, Heads
<1>4. AtMost(com, cur, stage[g], done)
  BY <1>1, <1>2 DEF GroupOK
<1>5. com \in Nat \cup {None} /\ done \in [Offset -> Nat] /\ skips \in SUBSET (Nat \X Nat)
      /\ cur \in Nat \cup {None} /\ PositionOf(com) \in Nat
  BY <1>2 DEF GroupOK, PositionOf
<1>6. stage[g] # "idle"
  BY DEF AtMostOnce
<1>7. g \in registered
  BY <1>6, RunningIsRegistered
<1>8. /\ cur \in Nat /\ cur < high_watermark /\ cur # None /\ cur + 1 \in Nat
      /\ cur + 1 <= Len(appended) /\ cur \in Offset /\ cur + 1 # None
  BY <1>2, <1>5, <1>6, Lines, NoneAssumption DEF GroupOK, Placed, Offset
<1>9. CASE stage[g] = "read" /\ CommitAllowed(g, cur + 1) /\ Commit(g, cur + 1) /\ Half(g)
           /\ UNCHANGED processed
  <2>1. PICK after \in SUBSET (Nat \X Nat) :
          /\ committed' = [committed EXCEPT ![g] = cur + 1]
          /\ skips_logged' = [skips_logged EXCEPT ![g] = after]
          /\ cur + 1 <= high_watermark /\ cur + 1 >= PositionOf(com)
    BY <1>9, CommitEffect
  <2>2. /\ processed' = [processed EXCEPT ![g] = done]
        /\ cursor' = [cursor EXCEPT ![g] = cur]
        /\ stage' = [stage EXCEPT ![g] = "half"]
    BY <1>9, SameEntries DEF Half
  <2>3. Turn(g, cur + 1, after, cur, "half", done)
    BY <1>1, <1>3, <2>1, <2>2 DEF Turn
  <2> HIDE DEF com, skips, cur, done
  <2>4. AtMost(cur + 1, cur, "half", done)
    <3>1. PositionOf(cur + 1) = cur + 1
      BY <1>8 DEF PositionOf
    <3>2. cur >= PositionOf(com)
      BY <1>4, <1>8, <1>9 DEF AtMost
    <3>3. done[cur] = 0
      BY <1>4, <1>8, <3>2 DEF AtMost
    <3>4. ASSUME NEW o \in Offset PROVE done[o] <= 1 /\ (o >= cur + 1 => done[o] = 0)
      <4>1. o >= cur + 1 => o >= PositionOf(com)
        BY <1>5, <1>8, <2>1, BoundsAssumption DEF Offset
      <4> QED BY <1>4, <4>1 DEF AtMost
    <3> QED BY <3>1, <3>3, <3>4 DEF AtMost
  <2>5. Placed(cur + 1, cur, "half", high_watermark, Len(appended))
    BY <1>2, <1>8, <2>1 DEF GroupOK, Placed
  <2>6. dropped = 0 => NotOvertaken(cur + 1, cur, "half", FirstOffset(segments))
    <3> SUFFICES ASSUME dropped = 0 PROVE FirstOffset(segments) <= cur + 1
      BY <1>8 DEF NotOvertaken
    <3>1. NotOvertaken(com, cur, stage[g], FirstOffset(segments))
      BY <1>2 DEF GroupOK
    <3>2. FirstOffset(segments) \in Nat
      BY Lines
    <3> QED BY <1>5, <1>6, <1>8, <2>1, <3>1, <3>2 DEF NotOvertaken, PositionOf
  <2>7. GroupOK(g, cur + 1, after, cur, "half", done)
    BY <1>1, <1>5, <1>8, <2>1, <2>4, <2>5, <2>6 DEF GroupOK
  <2> QED BY <1>7, <2>3, <2>7, GroupStep
<1>10. CASE stage[g] = "read" /\ Finish(g) /\ UNCHANGED <<committed, skips_logged>>
            /\ UNCHANGED processed
  <2>1. /\ committed' = [committed EXCEPT ![g] = com]
        /\ skips_logged' = [skips_logged EXCEPT ![g] = skips]
        /\ processed' = [processed EXCEPT ![g] = done]
        /\ cursor' = [cursor EXCEPT ![g] = cur + 1]
        /\ stage' = [stage EXCEPT ![g] = "idle"]
    BY <1>10, SameEntries DEF Finish
  <2>2. Turn(g, com, skips, cur + 1, "idle", done)
    BY <1>1, <1>3, <2>1 DEF Turn
  <2> HIDE DEF com, skips, cur, done
  <2>3. AtMost(com, cur + 1, "idle", done)
    <3>1. cur >= PositionOf(com)
      BY <1>4, <1>8, <1>10 DEF AtMost
    <3>2. cur + 1 >= PositionOf(com)
      BY <1>5, <1>8, <3>1
    <3> QED BY <1>4, <3>2 DEF AtMost
  <2>4. Placed(com, cur + 1, "idle", high_watermark, Len(appended))
    BY <1>2, <1>8 DEF GroupOK, Placed
  <2>5. dropped = 0 => NotOvertaken(com, cur + 1, "idle", FirstOffset(segments))
    BY <1>2 DEF GroupOK, NotOvertaken
  <2>6. GroupOK(g, com, skips, cur + 1, "idle", done)
    BY <1>1, <1>5, <1>8, <2>3, <2>4, <2>5 DEF GroupOK
  <2> QED BY <1>7, <2>2, <2>6, GroupStep
<1>11. CASE stage[g] = "half" /\ Process(g) /\ Finish(g) /\ UNCHANGED <<committed, skips_logged>>
  <2>1. PICK more \in [Offset -> Nat] :
          /\ processed' = [processed EXCEPT ![g] = more]
          /\ \A o \in Offset : more[o] = done[o] + (IF o = cur THEN 1 ELSE 0)
    BY <1>11, ProcessEffect
  <2>2. /\ committed' = [committed EXCEPT ![g] = com]
        /\ skips_logged' = [skips_logged EXCEPT ![g] = skips]
        /\ cursor' = [cursor EXCEPT ![g] = cur + 1]
        /\ stage' = [stage EXCEPT ![g] = "idle"]
    BY <1>11, SameEntries DEF Finish
  <2>3. Turn(g, com, skips, cur + 1, "idle", more)
    BY <1>1, <1>3, <2>1, <2>2 DEF Turn
  <2> HIDE DEF com, skips, cur, done
  <2>4. cur + 1 = PositionOf(com) /\ done[cur] = 0
    BY <1>4, <1>8, <1>11 DEF AtMost
  <2>5. AtMost(com, cur + 1, "idle", more)
    <3>1. ASSUME NEW o \in Offset PROVE more[o] <= 1 /\ (o >= PositionOf(com) => more[o] = 0)
      <4>1. done[o] \in Nat /\ done[o] <= 1 /\ (o >= PositionOf(com) => done[o] = 0) /\ o \in Nat
        BY <1>4, <1>5, BoundsAssumption DEF AtMost, Offset
      <4>2. CASE o = cur
        <5>1. more[o] = 1
          BY <2>1, <2>4, <4>2
        <5>2. ~(o >= PositionOf(com))
          BY <1>8, <2>4, <4>2
        <5> QED BY <5>1, <5>2
      <4>3. CASE o # cur
        BY <2>1, <4>1, <4>3
      <4> QED BY <4>2, <4>3
    <3>2. cur + 1 >= PositionOf(com)
      BY <1>5, <2>4
    <3> QED BY <3>1, <3>2 DEF AtMost
  <2>6. Placed(com, cur + 1, "idle", high_watermark, Len(appended))
    BY <1>2, <1>8 DEF GroupOK, Placed
  <2>7. dropped = 0 => NotOvertaken(com, cur + 1, "idle", FirstOffset(segments))
    BY <1>2 DEF GroupOK, NotOvertaken
  <2>8. GroupOK(g, com, skips, cur + 1, "idle", more)
    BY <1>1, <1>5, <1>8, <2>1, <2>5, <2>6, <2>7 DEF GroupOK
  <2> QED BY <1>7, <2>3, <2>8, GroupStep
<1> QED BY <1>9, <1>10, <1>11 DEF AtMostOnce

\* A crash forgets the cursor and the record in hand.
LEMMA CrashStep ==
  ASSUME DInv, NEW g \in Group, Crash(g)
  PROVE  DInv'
<1> DEFINE com   == committed[g]
           skips == skips_logged[g]
           done  == processed[g]
<1>1. /\ g \in registered
      /\ cursor' = [cursor EXCEPT ![g] = None]
      /\ stage' = [stage EXCEPT ![g] = "idle"]
      /\ UNCHANGED <<partitionVars, registered, committed, skips_logged, fell_behind_resets,
                     processed>>
  BY RunningIsRegistered DEF Crash, groupVars, ledgerVars
<1>2. GroupOK(g, com, skips, cursor[g], stage[g], done)
  BY DInvGroups
<1>3. dropped = 0 => fell_behind_resets' = 0
  BY <1>1 DEF DInv, Heads
<1>4. Turn(g, com, skips, None, "idle", done)
  BY <1>1, <1>3, SameEntries DEF Turn
<1> HIDE DEF com, skips, done
<1>5. GroupOK(g, com, skips, None, "idle", done)
  <2>1. AtLeast(com, skips, cursor[g], stage[g], done) => AtLeast(com, skips, None, "idle", done)
    BY DEF AtLeast
  <2>2. AtMost(com, cursor[g], stage[g], done) => AtMost(com, None, "idle", done)
    BY DEF AtMost
  <2>3. Placed(com, None, "idle", high_watermark, Len(appended))
    BY <1>2 DEF GroupOK, Placed
  <2>4. dropped = 0 => NotOvertaken(com, None, "idle", FirstOffset(segments))
    BY <1>2 DEF GroupOK, NotOvertaken
  <2> QED BY <1>2, <2>1, <2>2, <2>3, <2>4 DEF GroupOK
<1> QED BY <1>1, <1>4, <1>5, GroupStep

\* A seek moves an at-least-once cursor within the window.
LEMMA SeekStep ==
  ASSUME DInv, NEW g \in Group, NEW requested \in Offset, Seek(g, requested)
  PROVE  DInv'
<1> DEFINE com   == committed[g]
           skips == skips_logged[g]
           done  == processed[g]
           cur   == SeekToOffset(requested)
<1>1. /\ g \in registered /\ Contract[g] = "at-least-once" /\ stage[g] = "idle"
      /\ cursor' = [cursor EXCEPT ![g] = cur]
      /\ UNCHANGED <<partitionVars, registered, committed, skips_logged, fell_behind_resets,
                     stage, processed>>
  BY RunningIsRegistered DEF Seek, groupVars, ledgerVars
<1>2. GroupOK(g, com, skips, cursor[g], stage[g], done)
  BY DInvGroups
<1>3. dropped = 0 => fell_behind_resets' = 0
  BY <1>1 DEF DInv, Heads
<1>4. Turn(g, com, skips, cur, stage[g], done)
  BY <1>1, <1>3, SameEntries DEF Turn
<1>5. cur \in Nat /\ cur <= Len(appended)
  BY Lines DEF SeekToOffset, First, Offset
<1> HIDE DEF com, skips, done, cur
<1>6. GroupOK(g, com, skips, cur, stage[g], done)
  <2>1. AtLeast(com, skips, cursor[g], stage[g], done) => AtLeast(com, skips, cur, stage[g], done)
    BY <1>1 DEF AtLeast
  <2>2. Placed(com, cur, stage[g], high_watermark, Len(appended))
    BY <1>1, <1>2, <1>5 DEF GroupOK, Placed
  <2>3. dropped = 0 => NotOvertaken(com, cur, stage[g], FirstOffset(segments))
    BY <1>1, <1>2 DEF GroupOK, NotOvertaken
  <2> QED BY <1>1, <1>2, <1>5, <2>1, <2>2, <2>3 DEF GroupOK
<1> QED BY <1>1, <1>4, <1>6, GroupStep
----------------------------------------------------------------------------
(***************************************************************************)
(* RetentionRun.apply moves the head past no committed floor it is given.  *)
(***************************************************************************)
LEMMA RetentionEffect ==
  ASSUME IInv, NEW floor \in Nat, RetentionApply(floor)
  PROVE  /\ IInv'
         /\ UNCHANGED <<high_watermark, appended, dropped>>
         /\ FirstOffset(segments') \in Nat
         /\ \/ /\ FirstOffset(segments') = FirstOffset(segments)
               /\ reclaimed_segments' = reclaimed_segments
            \/ FirstOffset(segments') <= floor
<1>1. PICK n \in 0 .. Len(segments) - 1 :
        /\ PopsExactly(segments, n, LAMBDA i : RetentionCondemns(i, floor))
        /\ segments' = DropOldest(segments, n)
        /\ reclaimed_segments' = reclaimed_segments + n
        /\ UNCHANGED <<rolls, high_watermark, clockVars, histVars>>
  BY DEF RetentionApply
<1>2. \A i \in 1 .. n : EndOf(segments[i]) <= floor
  BY <1>1 DEF PopsExactly, RetentionCondemns
<1> HIDE <1>1
<1>3. /\ segments' = DropOldest(segments, n)
      /\ reclaimed_segments' = reclaimed_segments + n
      /\ UNCHANGED <<rolls, high_watermark, now, appended, dropped>>
  BY <1>1 DEF clockVars, histVars
<1>4. /\ n \in Nat /\ dropped \in Nat /\ reclaimed_segments \in Nat
      /\ segments \in Seq(Segment) /\ Len(segments) \in Nat /\ Len(segments) >= 1
      /\ n <= Len(segments) - 1
  BY LenProperties, EmptySeq DEF IInv, TypeOK
<1>5. IInv'
  BY <1>3, <1>4, TrimIInv, 0 \in Nat, n = n + 0, dropped = dropped + 0
<1>6. FirstOffset(segments') \in Nat
  BY <1>5, WindowNext
<1>7. segments'[1] = segments[n + 1]
  <2>1. 1 \in 1 .. Len(segments) - n /\ 1 + n = n + 1
    BY <1>4
  <2>2. \A i \in 1 .. Len(segments) - n : segments'[i] = segments[i + n]
    BY <1>3, <1>4, DropOldestEffect
  <2> QED BY <2>1, <2>2
<1>8. CASE n = 0
  BY <1>3, <1>4, <1>5, <1>6, <1>7, <1>8 DEF FirstOffset
<1>9. CASE n # 0
  <2>1. n \in 1 .. n /\ n \in 1 .. Len(segments) - 1
    BY <1>4, <1>9
  <2>2. segments[n + 1].base_offset = EndOf(segments[n])
    BY <2>1 DEF IInv, SegmentChain
  <2> QED BY <1>2, <1>3, <1>5, <1>6, <1>7, <2>1, <2>2 DEF FirstOffset
<1> QED BY <1>8, <1>9

\* The committed floor is at or below every registered group's position.
LEMMA FloorIsLowest ==
  ASSUME DInv
  PROVE  CommittedFloor \in Nat /\ \A g \in registered : CommittedFloor <= Position(g)
<1> DEFINE S == {Position(g) : g \in registered}
<1>1. Tables /\ IInv
  BY DEF DInv
<1>2. S \in SUBSET Nat
  BY <1>1 DEF Tables, Position
<1>3. CASE registered = {}
  <2>1. NextOffset(segments) \in Nat
    BY <1>1 DEF IInv, TypeOK, SegmentChain
  <2> QED BY <1>3, <2>1 DEF CommittedFloor
<1>4. CASE registered # {}
  <2>1. S # {} /\ \A g \in registered : Position(g) \in S
    BY <1>4
  <2>2. CommittedFloor = Min(S)
    BY <1>4 DEF CommittedFloor
  <2> HIDE DEF S
  <2>3. Min(S) \in S /\ \A y \in S : Min(S) <= y
    BY <1>2, <2>1, MinOfNaturals
  <2> QED BY <1>2, <2>1, <2>2, <2>3
<1> QED BY <1>3, <1>4

\* A retention run overtakes no group.
LEMMA RetainStep ==
  ASSUME DInv, Retain, UNCHANGED <<groupVars, ledgerVars, consumerVars, faults>>
  PROVE  DInv'
<1>1. CommittedFloor \in Nat /\ \A g \in registered : CommittedFloor <= Position(g)
  BY FloorIsLowest
<1>2. /\ IInv' /\ high_watermark' = high_watermark /\ appended' = appended /\ dropped' = dropped
      /\ FirstOffset(segments') \in Nat
      /\ \/ FirstOffset(segments') = FirstOffset(segments)
         \/ FirstOffset(segments') <= CommittedFloor
  BY <1>1, RetentionEffect DEF DInv, Retain
<1>3. ASSUME dropped' = 0, NEW g \in Group
      PROVE  NotOvertaken(committed[g], cursor[g], stage[g], FirstOffset(segments'))
  <2>1. GroupOK(g, committed[g], skips_logged[g], cursor[g], stage[g], processed[g])
    BY DInvGroups
  <2>2. NotOvertaken(committed[g], cursor[g], stage[g], FirstOffset(segments))
    BY <1>2, <1>3, <2>1 DEF GroupOK
  <2>3. CASE FirstOffset(segments') = FirstOffset(segments)
    BY <2>2, <2>3
  <2>4. CASE g \notin registered
    BY <2>4 DEF DInv, Outsiders, NotOvertaken
  <2>5. CASE g \in registered /\ FirstOffset(segments') <= CommittedFloor
    <3>1. /\ committed[g] \in Nat \cup {None} /\ cursor[g] \in Nat \cup {None}
          /\ (stage[g] # "idle" => cursor[g] # None)
      BY <2>1 DEF GroupOK, Placed
    <3>2. FirstOffset(segments') <= Position(g) /\ Position(g) \in Nat
      BY <1>1, <1>2, <2>5, <3>1 DEF Position
    <3>3. committed[g] # None => FirstOffset(segments') <= committed[g]
      BY <3>2 DEF Position
    <3>4. committed[g] = None => FirstOffset(segments') = 0
      BY <1>2, <3>2 DEF Position
    <3> QED BY <3>1, <3>3, <3>4 DEF NotOvertaken
  <2> QED BY <1>2, <2>3, <2>4, <2>5
<1>4. /\ Len(appended') <= MaxRecords /\ Len(appended') >= Len(appended)
      /\ high_watermark' >= high_watermark
  BY <1>2, Lines
<1>5. dropped' = 0 => /\ dropped = 0
                      /\ \A g \in Group : NotOvertaken(committed[g], cursor[g], stage[g],
                                                       FirstOffset(segments'))
  BY <1>2, <1>3
<1> QED BY <1>2, <1>4, <1>5, LogStep

\* Appends, the watermark and the clock leave the head where it is.
LEMMA GrowStep ==
  ASSUME DInv, UNCHANGED <<groupVars, ledgerVars, consumerVars, faults>>,
         \/ \E r \in Record : AppendRec(r)
         \/ \E to \in Offset : AdvanceWatermark(to)
         \/ Tick
  PROVE  DInv'
<1>1. IInv /\ high_watermark \in Nat /\ Len(appended) \in Nat /\ MaxRecords \in Nat
      /\ Len(appended) <= MaxRecords
  BY Lines DEF DInv
<1>2. /\ IInv' /\ high_watermark' >= high_watermark /\ Len(appended') >= Len(appended)
      /\ Len(appended') <= MaxRecords /\ dropped' = dropped
      /\ FirstOffset(segments') = FirstOffset(segments)
  <2>1. ASSUME NEW r \in Record, AppendRec(r) PROVE <1>2!:
    <3>1. /\ Len(appended) < MaxRecords /\ appended' = Append(appended, r)
          /\ high_watermark' = high_watermark /\ dropped' = dropped
      BY <2>1 DEF AppendRec
    <3>2. IInv'
      BY <1>1, <2>1, AppendRecIInv
    <3>3. FirstOffset(segments') = FirstOffset(segments)
      BY <1>1, <2>1, AppendExtends
    <3>4. Len(appended') = Len(appended) + 1
      BY <1>1, <3>1 DEF IInv, TypeOK
    <3> QED BY <1>1, <3>1, <3>2, <3>3, <3>4
  <2>2. ASSUME NEW to \in Offset, AdvanceWatermark(to) PROVE <1>2!:
    <3>1. /\ high_watermark' = to /\ to >= high_watermark /\ to <= NextOffset(segments)
          /\ UNCHANGED <<segments, appended, dropped>>
      BY <2>2 DEF AdvanceWatermark, histVars
    <3>2. NextOffset(segments) \in Nat /\ to \in Nat
      BY <1>1 DEF IInv, SegmentChain, Offset
    <3>3. to \in 0 .. NextOffset(segments)
      BY <3>1, <3>2
    <3>4. IInv'
      BY <1>1, <2>2, <3>3, NextIInv DEF Next
    <3> QED BY <1>1, <3>1, <3>4
  <2>3. CASE Tick
    <3>1. UNCHANGED <<segments, high_watermark, appended, dropped>>
      BY <2>3 DEF Tick, logVars, histVars
    <3>2. IInv'
      BY <1>1, <2>3, NextIInv DEF Next
    <3> QED BY <1>1, <3>1, <3>2
  <2> QED BY <2>1, <2>2, <2>3
<1>3. dropped' = 0 => /\ dropped = 0
                      /\ \A g \in Group : NotOvertaken(committed[g], cursor[g], stage[g],
                                                       FirstOffset(segments'))
  BY <1>2 DEF DInv, Heads
<1> QED BY <1>2, <1>3, LogStep

\* An operator's drop may overtake a group, and says so.
LEMMA DropStep ==
  ASSUME DInv, NEW offset \in Offset, DropHead(offset)
  PROVE  DInv'
<1>1. IInv /\ dropped \in Nat /\ reclaimed_segments \in Nat /\ Len(segments) \in Nat
  BY LenProperties DEF DInv, IInv, TypeOK
<1>2. PICK n \in 0 .. Len(segments) - 1 :
        /\ segments' = DropOldest(segments, n)
        /\ dropped' = dropped + n
        /\ UNCHANGED <<rolls, high_watermark, retVars, clockVars, appended>>
  BY DEF DropHead, DropSealedBefore
<1>3. /\ UNCHANGED <<rolls, high_watermark, now, appended, reclaimed_segments>>
      /\ UNCHANGED <<groupVars, ledgerVars, consumerVars>>
  BY <1>2 DEF DropHead, retVars, clockVars
<1>4. n \in Nat
  BY <1>1
<1>5. IInv'
  BY <1>1, <1>2, <1>3, <1>4, TrimIInv, 0 \in Nat, n = 0 + n,
     reclaimed_segments = reclaimed_segments + 0
<1>6. dropped' = 0 => /\ dropped = 0
                      /\ \A g \in Group : NotOvertaken(committed[g], cursor[g], stage[g],
                                                       FirstOffset(segments'))
  <2> SUFFICES ASSUME dropped' = 0
               PROVE  /\ dropped = 0
                      /\ \A g \in Group : NotOvertaken(committed[g], cursor[g], stage[g],
                                                       FirstOffset(segments'))
    OBVIOUS
  <2>1. dropped = 0 /\ n = 0
    BY <1>1, <1>2, <1>4
  <2>2. segments' = segments
    BY <1>1, <1>2, <2>1, SubSeqFull DEF DropOldest, IInv, TypeOK
  <2> QED BY <2>1, <2>2 DEF DInv, Heads
<1>7. /\ Len(appended') <= MaxRecords /\ Len(appended') >= Len(appended)
      /\ high_watermark' >= high_watermark
  BY <1>3, Lines
<1> QED BY <1>3, <1>5, <1>6, <1>7, LogStep

\* A new partition with no group satisfies the invariant.
LEMMA InitDInv == DeliveryInit => DInv
<1> SUFFICES ASSUME DeliveryInit PROVE DInv
  OBVIOUS
<1>1. IInv
  BY InitIInv DEF DeliveryInit
<1>2. Tables
  <2>1. appended = <<>> /\ MaxRecords \in Nat
    BY BoundsAssumption DEF DeliveryInit, Init
  <2> QED BY <2>1 DEF DeliveryInit, Tables
<1>3. ASSUME NEW g \in Group
      PROVE  /\ AtLeast(committed[g], skips_logged[g], cursor[g], stage[g], processed[g])
             /\ AtMost(committed[g], cursor[g], stage[g], processed[g])
             /\ Placed(committed[g], cursor[g], stage[g], high_watermark, Len(appended))
             /\ NotOvertaken(committed[g], cursor[g], stage[g], FirstOffset(segments))
  <2>1. /\ committed[g] = None /\ cursor[g] = None /\ stage[g] = "idle"
        /\ \A o \in Offset : processed[g][o] = 0
    BY DEF DeliveryInit
  <2> QED BY <2>1 DEF AtLeast, AtMost, Placed, NotOvertaken, PositionOf
<1>4. Contracts /\ Heads
  BY <1>3 DEF Contracts, Heads, DeliveryInit
<1>5. Outsiders
  BY DEF Outsiders, DeliveryInit
<1> QED BY <1>1, <1>2, <1>4, <1>5 DEF DInv

\* Every step of the partition, the groups and the consumers preserves it.
LEMMA NextDInv == DInv /\ [DeliveryNext]_deliveryVars => DInv'
<1> SUFFICES ASSUME DInv, [DeliveryNext]_deliveryVars PROVE DInv'
  OBVIOUS
<1>1. CASE PartitionStep
  BY <1>1, RetainStep, GrowStep DEF PartitionStep
<1>2. ASSUME NEW offset \in Offset, DropHead(offset) PROVE DInv'
  BY <1>2, DropStep
<1>3. ASSUME NEW g \in Group, Register(g) \/ ConsumerStep(g) \/ Crash(g) PROVE DInv'
  BY <1>3, RegisterStep, StartStep, FetchStep, AtLeastOnceStep, AtMostOnceStep, CrashStep
  DEF ConsumerStep
<1>4. ASSUME NEW g \in Group, NEW requested \in Offset, Seek(g, requested) PROVE DInv'
  BY <1>4, SeekStep
<1>5. CASE UNCHANGED deliveryVars
  <2>1. /\ segments' = segments /\ rolls' = rolls /\ high_watermark' = high_watermark
        /\ reclaimed_segments' = reclaimed_segments /\ now' = now
        /\ appended' = appended /\ dropped' = dropped
        /\ UNCHANGED <<groupVars, ledgerVars, consumerVars>>
    BY <1>5 DEF deliveryVars, partitionVars, vars, logVars, retVars, clockVars, histVars
  <2>2. IInv'
    BY <2>1 DEF DInv, IInv, TypeOK, SegmentChain, OffsetsAreStable, SegmentsAccounted, OrderedOf
  <2>3. dropped' = 0 => /\ dropped = 0
                        /\ \A g \in Group : NotOvertaken(committed[g], cursor[g], stage[g],
                                                         FirstOffset(segments'))
    BY <2>1 DEF DInv, Heads
  <2>4. /\ Len(appended') <= MaxRecords /\ Len(appended') >= Len(appended)
        /\ high_watermark' >= high_watermark
    BY <2>1, Lines
  <2> QED BY <2>1, <2>2, <2>3, <2>4, LogStep
<1> QED BY <1>1, <1>2, <1>3, <1>4, <1>5 DEF DeliveryNext

\* The invariant of the partition and its groups.
THEOREM DeliveryInvariant == DeliverySpec => []DInv
  BY InitDInv, NextDInv, PTL DEF DeliverySpec

(***************************************************************************)
(* Each group gets what its contract says: at-least-once loses no record   *)
(* in silence, at-most-once processes none twice, and only an operator's   *)
(* drop makes a group fall behind.                                         *)
(***************************************************************************)
THEOREM EveryContractKept == DeliverySpec => []ContractsKept
<1>1. DInv => ContractsKept
  <2> SUFFICES ASSUME DInv PROVE ContractsKept
    OBVIOUS
  <2>1. \A g \in Group : Position(g) = PositionOf(committed[g])
    BY DEF Position, PositionOf
  <2>2. registered \in SUBSET Group
    BY DEF DInv, Tables
  <2>3. NothingLostInSilence
    BY <2>1, <2>2 DEF NothingLostInSilence, DInv, Contracts, AtLeast, Covered
  <2>4. NeverTwice
    BY <2>2 DEF NeverTwice, DInv, Contracts, AtMost
  <2>5. OnlyDropsOvertake
    BY <2>2 DEF OnlyDropsOvertake, DInv, Heads, NotOvertaken, First
  <2> QED BY <2>3, <2>4, <2>5 DEF ContractsKept
<1> QED BY <1>1, DeliveryInvariant, PTL

\* What retention must not do in one step.
SparesStep ==
  \A g \in registered :
    (reclaimed_segments' > reclaimed_segments) => FirstOffset(segments') <= Position(g)

\* Only Retain reclaims, and it stops at the lowest position.
LEMMA NextSpares == DInv /\ [DeliveryNext]_deliveryVars => SparesStep
<1> SUFFICES ASSUME DInv, [DeliveryNext]_deliveryVars PROVE SparesStep
  OBVIOUS
<1>1. reclaimed_segments \in Nat
  BY DEF DInv, IInv, TypeOK
<1>2. ASSUME reclaimed_segments' = reclaimed_segments PROVE SparesStep
  BY <1>1, <1>2 DEF SparesStep
<1>3. CASE Retain
  <2>1. CommittedFloor \in Nat /\ \A g \in registered : CommittedFloor <= Position(g)
    BY FloorIsLowest
  <2>2. /\ FirstOffset(segments') \in Nat
        /\ \/ reclaimed_segments' = reclaimed_segments
           \/ FirstOffset(segments') <= CommittedFloor
    BY <1>3, <2>1, RetentionEffect DEF DInv, Retain
  <2>3. \A g \in registered : Position(g) \in Nat
    BY DEF DInv, Tables, Position
  <2>4. CASE FirstOffset(segments') <= CommittedFloor
    BY <2>1, <2>2, <2>3, <2>4 DEF SparesStep
  <2> QED BY <1>2, <2>2, <2>4
<1>4. ASSUME \/ \E r \in Record : AppendRec(r)
             \/ \E to \in Offset : AdvanceWatermark(to)
             \/ Tick
             \/ \E offset \in Offset : DropHead(offset)
      PROVE  reclaimed_segments' = reclaimed_segments
  BY <1>4 DEF AppendRec, AdvanceWatermark, Tick, DropHead, DropSealedBefore, retVars
<1>5. ASSUME UNCHANGED partitionVars PROVE reclaimed_segments' = reclaimed_segments
  BY <1>5 DEF partitionVars, vars, retVars
<1>6. ASSUME NEW g \in Group, \/ Register(g) \/ ConsumerStep(g) \/ Crash(g)
                              \/ \E requested \in Offset : Seek(g, requested)
      PROVE  UNCHANGED partitionVars
  <2>1. CASE Register(g)
    BY <2>1 DEF Register
  <2>2. CASE Start(g)
    BY <2>2 DEF Start
  <2>3. CASE Fetch(g)
    BY <2>3 DEF Fetch
  <2>4. CASE AtLeastOnce(g)
    BY <2>4 DEF AtLeastOnce
  <2>5. CASE AtMostOnce(g)
    BY <2>5 DEF AtMostOnce
  <2>6. CASE Crash(g)
    BY <2>6 DEF Crash
  <2>7. CASE \E requested \in Offset : Seek(g, requested)
    BY <2>7 DEF Seek
  <2> QED BY <1>6, <2>1, <2>2, <2>3, <2>4, <2>5, <2>6, <2>7 DEF ConsumerStep
<1>7. CASE UNCHANGED deliveryVars
  BY <1>2, <1>5, <1>7 DEF deliveryVars
<1> QED BY <1>2, <1>3, <1>4, <1>5, <1>6, <1>7 DEF DeliveryNext, PartitionStep

(***************************************************************************)
(* A retention run given the groups' committed floor removes no record     *)
(* that a registered group has still to read, whatever its policy.         *)
(***************************************************************************)
THEOREM UnreadIsSpared == DeliverySpec => RetentionSparesUnread
<1>1. DInv /\ [DeliveryNext]_deliveryVars => [SparesStep]_deliveryVars
  BY NextSpares
<1>2. DeliverySpec => [][SparesStep]_deliveryVars
  BY <1>1, DeliveryInvariant, PTL DEF DeliverySpec
<1> QED BY <1>2, PTL DEF RetentionSparesUnread, SparesStep
=============================================================================
