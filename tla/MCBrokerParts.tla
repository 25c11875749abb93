--------------------------- MODULE MCBrokerParts ---------------------------
(***************************************************************************)
(* The parts of the broker around its core, for TLC.  In the code they are *)
(* classes that share no state, so a behaviour is one of one part: the     *)
(* initial state picks it, and with it the actions that apply.             *)
(* BrokerParts and GroupParts hold those the proofs are about.             *)
(***************************************************************************)
EXTENDS BrokerParts, GroupParts, TLC

CONSTANTS
  Key,      \* keys of the compacted log
  Consumer  \* its readers

Store == INSTANCE LogStore WITH
  Interval <- 2, SizeLimit <- 3, AgeLimit <- 2, IndexLimit <- 2, Reserved <- 4, Delay <- 2,
  MaxLog <- 4, MaxTick <- 3

Care == INSTANCE StorageCare WITH
  Retention <- 1, MinLag <- 1, MaxLag <- 2, MinDirty <- 30, MaxWrites <- 4, MaxClock <- 2,
  LocalWindow <- 1, MaxSegment <- 4, Disk <- {1, 2}, MaxPlaced <- 4

Forms == INSTANCE Formats WITH MaxSize <- 2, MaxItems <- 3

Init ==
  Store!Init \/ Care!Init \/ Control!Init \/ Replicas!Init \/ Groups!Init \/ Admin!Init \/ Forms!Init

Next ==
  \/ obj.class \in {"boot", "deletion", "head", "store", "time"} /\ Store!Next
  \/ obj.class \in {"compacted", "disks", "tiered"} /\ Care!Next
  \/ obj.class \in {"leadership", "metadata", "upkeep"} /\ Control!Next
  \/ obj.class \in {"flap", "move", "placing", "voters"} /\ Replicas!Next
  \/ obj.class \in {"coop", "delay", "offsets", "weights"} /\ Groups!Next
  \/ obj.class \in {"auth", "static", "topic"} /\ Admin!Next
  \/ obj.class \in {"batches", "column", "frames", "keys", "runs", "schemas", "varints"} /\ Forms!Next

Spec == Init /\ [][Next]_obj

Symmetry == Permutations(Key) \cup Permutations(Consumer)

-----------------------------------------------------------------------------
\* Lookups by offset and time, epochs, file removal and start-up: see LogStore.
StoreServesReaders == Store!StoreServesReaders

\* Compaction, tiering and disks: see StorageCare.
DataAtRestIsSafe == Care!DataAtRestIsSafe

\* Framing, encodings, batches and schemas: see Formats.
FormatsRoundTrip == Forms!FormatsRoundTrip
=============================================================================
