----------------------------- MODULE GroupParts -----------------------------
(***************************************************************************)
(* The groups beyond the eager protocol, both checked by TLC and proved    *)
(* about.                                                                  *)
(***************************************************************************)
EXTENDS PartState

CONSTANTS
  Partitions, GroupTimeout, OffsetRetention, MaxRetries, BaseDelay, MaxDelay,  \* see GroupCare
  MaxGeneration, MaxOffset, MaxTicks

Groups == INSTANCE GroupCare WITH SessionTimeout <- GroupTimeout, Retention <- OffsetRetention

-----------------------------------------------------------------------------
\* Assignors, cooperative rebalances and offsets: see GroupCare.
GroupsAreSound == Groups!GroupsAreSound
=============================================================================
