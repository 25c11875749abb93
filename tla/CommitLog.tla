----------------------------- MODULE CommitLog -----------------------------
(***************************************************************************)
(* What a partition promises its clients, with no segments in sight: a     *)
(* window of records addressed by offset that grows at the end, is trimmed *)
(* at the head, and carries a commit line that only advances.              *)
(***************************************************************************)
EXTENDS Naturals, Sequences

CONSTANT Record

VARIABLES
  start,      \* the offset of the oldest retained record
  retained,   \* the retained records, oldest first
  watermark   \* consumers read below this offset only

vars == <<start, retained, watermark>>

Init ==
  /\ start = 0
  /\ retained = <<>>
  /\ watermark = 0

End == start + Len(retained)

Produce(r) ==
  /\ retained' = Append(retained, r)
  /\ UNCHANGED <<start, watermark>>

Commit(to) ==
  /\ watermark' = to
  /\ UNCHANGED <<start, retained>>

\* The record at the log's end is never trimmed.
Trim(n) ==
  /\ start' = start + n
  /\ retained' = SubSeq(retained, n + 1, Len(retained))
  /\ UNCHANGED watermark

Next ==
  \/ \E r \in Record : Produce(r)
  \/ \E to \in watermark .. End : Commit(to)
  \/ \E n \in 1 .. Len(retained) - 1 : Trim(n)

Spec == Init /\ [][Next]_vars
=============================================================================
