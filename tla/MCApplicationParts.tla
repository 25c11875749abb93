------------------------- MODULE MCApplicationParts -------------------------
(***************************************************************************)
(* What runs beside and on top of the broker, for TLC: clients, overload   *)
(* control, pipelines, distributed protocols, stream processing,           *)
(* replicated data types and data structures.  In the code they are        *)
(* classes that share no state, so a behaviour is one of one part: the     *)
(* initial state picks it, and with it the actions that apply.             *)
(* DeliveryParts and TypeParts hold those the proofs are about.            *)
(***************************************************************************)
EXTENDS DeliveryParts, TypeParts

Client == INSTANCE Clients WITH
  Budget <- 1, MaxWait <- 2, HighMark <- 2, LowMark <- 1, MaxAttempts <- 2, Tiers <- 2, Capacity <- 3,
  BlockTimeout <- 1, SendBudget <- 1, BlockSize <- 2, MaxRounds <- 5, MaxRecords <- 2

Load == INSTANCE Overload WITH
  Threshold <- 2, Cooldown <- 2, RetryShare <- 2, Ceiling <- 2, Patience <- 3, MaxCalls <- 4,
  MaxClock <- 4, Rate <- 1, Room <- 2, Window <- 2

Stream == INSTANCE Streams WITH
  WindowSize <- 3, Lateness <- 1, Bound <- 1, Retention <- 4, Gap <- 1, JoinWindow <- 1, Interval <- 2,
  MaxEvents <- 3, MaxTime <- 4

Structure == INSTANCE Structures WITH Capacity <- 2, Slots <- 3, Size <- 5, MaxOps <- 5

Init ==
  \/ Client!Init \/ Load!Init \/ Pipe!Init \/ Protocol!Init \/ Stream!Init \/ Types!Init \/ Structure!Init

Next ==
  \/ obj.class \in {"ids", "poll", "ranges", "reader", "sender", "session", "split", "spread", "wait"} /\ Client!Next
  \/ obj.class \in {"bucket", "busy", "call", "credit", "fair", "queue", "quota", "share", "socket"} /\ Load!Next
  \/ obj.class \in {"auto", "connector", "ctp", "mirror", "outbox", "saga"} /\ Pipe!Next
  \/ obj.class \in {"broadcast", "causal", "chain", "commit", "lease", "occ", "quorum", "wal"} /\ Protocol!Next
  \/ obj.class \in {"barrier", "clock", "gaps", "join", "outer", "store", "table", "window"} /\ Stream!Next
  \/ obj.class \in {"clocks", "counter", "orset", "register"} /\ Types!Next
  \/ obj.class \in {"bitcask", "circle", "groups", "heap", "lru", "lsm", "ring", "skip", "stream", "sums", "trie", "wheel"} /\ Structure!Next

Spec == Init /\ [][Next]_obj

-----------------------------------------------------------------------------
\* Fetch sessions, buffers, purgatory, retries and caches: see Clients.
ClientsLoseNothing == Client!ClientsLoseNothing

\* Breakers, buckets, queues, quotas and credits: see Overload.
LoadStaysBounded == Load!LoadStaysBounded

\* Windows, joins, tables, checkpoints: see Streams.
StreamsAreExact == Stream!StreamsAreExact

\* Caches, trees, heaps, logs and rings: see Structures.
StructuresMatch == Structure!StructuresMatch
=============================================================================
