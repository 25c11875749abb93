---------------------------- MODULE DeliveryParts ----------------------------
(***************************************************************************)
(* What moves data between systems, both checked by TLC and proved about:  *)
(* the exactly-once pipelines and the distributed protocols.               *)
(***************************************************************************)
EXTENDS PartState

CONSTANTS
  DedupWindow, CommitInterval, MaxItems, MaxOutput,    \* see Pipelines
  ReadQuorum, WriteQuorum, HintWindow, LeaseDuration,  \* see Protocols
  MaxVersions, MaxWrites, MaxAge                       \* its bounds: MaxAge is MaxNow

Pipe == INSTANCE Pipelines

Protocol == INSTANCE Protocols WITH MaxNow <- MaxAge

-----------------------------------------------------------------------------
\* Transactions across topics, outbox, saga, connectors, mirrors: see Pipelines.
PipelinesKeepPromises == Pipe!PipelinesKeepPromises

\* Commit, chain, quorum, lease, log, broadcast and causal delivery: see Protocols.
ProtocolsHold == Protocol!ProtocolsHold
=============================================================================
