----------------------------- MODULE Delivery -----------------------------
(***************************************************************************)
(* Consumer groups over one partition (relay/consumergroup.py), the way a  *)
(* consumer with no usable position begins (relay/offsetreset.py), seeks   *)
(* (relay/seek.py), and the retention floor the committed offsets set.     *)
(*                                                                         *)
(* The consumer process is outside the broker.  It follows its group's     *)
(* contract line: at-least-once processes the record in hand and then      *)
(* commits it, at-most-once commits it and then processes it.  A crash     *)
(* forgets the cursor and the record in hand, never a commit.              *)
(***************************************************************************)
EXTENDS PartitionLog

CONSTANTS
  Group,
  Contract,     \* ConsumerGroup.contract of each group
  ResetPolicy,  \* the policy the group's consumer passes to resolve_reset
  MaxFaults     \* bound: crashes, seeks and head drops in a behaviour

ASSUME GroupAssumption ==
  /\ Contract \in [Group -> {"at-least-once", "at-most-once"}]
  /\ ResetPolicy \in [Group -> {"earliest", "latest", "error"}]

ASSUME NoneAssumption == None \notin Nat

VARIABLES
  registered,           \* GroupRegistry.groups
  committed,            \* ConsumerGroup.committed for this partition, None when absent
  skips_logged,         \* the <<held, offset>> of each skip line of a group
  new_consumer_resets,  \* ResetLedger
  fell_behind_resets,
  cursor,               \* consumer: the offset it reads next, None before it starts
  stage,                \* consumer: "idle", "read", or "half" of the contract's two steps
  processed,            \* history: how often each group processed each offset
  faults                \* history: faults so far

partitionVars == vars
groupVars     == <<registered, committed, skips_logged>>
ledgerVars    == <<new_consumer_resets, fell_behind_resets>>
consumerVars  == <<cursor, stage, processed>>
deliveryVars  == <<partitionVars, groupVars, ledgerVars, consumerVars, faults>>

Offset == 0 .. MaxRecords

DeliveryInit ==
  /\ Init
  /\ registered = {}
  /\ committed = [g \in Group |-> None]
  /\ skips_logged = [g \in Group |-> {}]
  /\ new_consumer_resets = 0
  /\ fell_behind_resets = 0
  /\ cursor = [g \in Group |-> None]
  /\ stage = [g \in Group |-> "idle"]
  /\ processed = [g \in Group |-> [o \in Offset |-> 0]]
  /\ faults = 0

First == FirstOffset(segments)

\* ConsumerGroup.position
Position(g) == IF committed[g] = None THEN 0 ELSE committed[g]

\* GroupRegistry.register: a name is taken once.
Register(g) ==
  /\ g \notin registered
  /\ registered' = registered \cup {g}
  /\ UNCHANGED <<partitionVars, committed, skips_logged, ledgerVars, consumerVars, faults>>

(***************************************************************************)
(* resolve_reset, and ResetLedger.record on the situation it names.  A     *)
(* committed offset still in the window is kept; otherwise the policy      *)
(* decides, and "error" raises (the consumer does not start).              *)
(***************************************************************************)
FellBehind(g) == committed[g] # None /\ committed[g] < First

Resets(g) == committed[g] = None \/ FellBehind(g)

ResetTo(g) ==
  IF ~Resets(g) THEN committed[g]
  ELSE IF ResetPolicy[g] = "earliest" THEN First ELSE high_watermark

Start(g) ==
  /\ g \in registered
  /\ cursor[g] = None
  /\ Resets(g) => ResetPolicy[g] # "error"
  /\ cursor' = [cursor EXCEPT ![g] = ResetTo(g)]
  /\ new_consumer_resets' = new_consumer_resets + (IF committed[g] = None THEN 1 ELSE 0)
  /\ fell_behind_resets' = fell_behind_resets + (IF FellBehind(g) THEN 1 ELSE 0)
  /\ UNCHANGED <<partitionVars, groupVars, stage, processed, faults>>

\* A plausible slip: a Lagging read is retried where it was.
FetchIgnoringLagging(g) ==
  /\ cursor[g] # None
  /\ stage[g] = "idle"
  /\ Consume(cursor[g]).status = "ok"
  /\ stage' = [stage EXCEPT ![g] = "read"]
  /\ UNCHANGED <<cursor, partitionVars, groupVars, ledgerVars, processed, faults>>

\* The consumer's read through Partition.consume; a Lagging read sends it to reset.
Fetch(g) ==
  /\ cursor[g] # None
  /\ stage[g] = "idle"
  /\ \/ /\ Consume(cursor[g]).status = "ok"
        /\ stage' = [stage EXCEPT ![g] = "read"]
        /\ UNCHANGED cursor
     \/ /\ Consume(cursor[g]).status = "lagging"
        /\ cursor' = [cursor EXCEPT ![g] = None]
        /\ UNCHANGED stage
  /\ UNCHANGED <<partitionVars, groupVars, ledgerVars, processed, faults>>

(***************************************************************************)
(* ConsumerGroup.commit: refused when it moves back or passes the          *)
(* watermark; a move of more than one is logged as a skip.                 *)
(***************************************************************************)
CommitAllowed(g, offset) == offset >= Position(g) /\ offset <= high_watermark

\* A plausible slip: a jump over a single record is not taken for a skip.
CommitMissingSkip(g, offset) ==
  /\ committed' = [committed EXCEPT ![g] = offset]
  /\ skips_logged' = IF offset - Position(g) > 2
                     THEN [skips_logged EXCEPT ![g] = @ \cup {<<Position(g), offset>>}]
                     ELSE skips_logged

Commit(g, offset) ==
  /\ committed' = [committed EXCEPT ![g] = offset]
  /\ skips_logged' = IF offset - Position(g) > 1
                     THEN [skips_logged EXCEPT ![g] = @ \cup {<<Position(g), offset>>}]
                     ELSE skips_logged

Process(g) == processed' = [processed EXCEPT ![g][cursor[g]] = @ + 1]

Finish(g) ==
  /\ cursor' = [cursor EXCEPT ![g] = @ + 1]
  /\ stage' = [stage EXCEPT ![g] = "idle"]

Half(g) == stage' = [stage EXCEPT ![g] = "half"] /\ UNCHANGED cursor

\* A commit the group refuses (after a seek back) ends the turn without it.
AtLeastOnce(g) ==
  /\ Contract[g] = "at-least-once"
  /\ \/ /\ stage[g] = "read"
        /\ Process(g)
        /\ Half(g)
        /\ UNCHANGED <<committed, skips_logged>>
     \/ /\ stage[g] = "half"
        /\ IF CommitAllowed(g, cursor[g] + 1)
           THEN Commit(g, cursor[g] + 1)
           ELSE UNCHANGED <<committed, skips_logged>>
        /\ Finish(g)
        /\ UNCHANGED processed
  /\ UNCHANGED <<partitionVars, registered, ledgerVars, faults>>

AtMostOnce(g) ==
  /\ Contract[g] = "at-most-once"
  /\ \/ /\ stage[g] = "read"
        /\ IF CommitAllowed(g, cursor[g] + 1)
           THEN Commit(g, cursor[g] + 1) /\ Half(g)
           ELSE Finish(g) /\ UNCHANGED <<committed, skips_logged>>
        /\ UNCHANGED processed
     \/ /\ stage[g] = "half"
        /\ Process(g)
        /\ Finish(g)
        /\ UNCHANGED <<committed, skips_logged>>
  /\ UNCHANGED <<partitionVars, registered, ledgerVars, faults>>

Crash(g) ==
  /\ faults < MaxFaults
  /\ cursor[g] # None
  /\ cursor' = [cursor EXCEPT ![g] = None]
  /\ stage' = [stage EXCEPT ![g] = "idle"]
  /\ faults' = faults + 1
  /\ UNCHANGED <<partitionVars, groupVars, ledgerVars, processed>>

\* seek_to_offset clamps to the window; LogBounds refuses a start past the watermark.
\* A seek back asks for records again, so an at-most-once consumer makes none.
SeekToOffset(requested) ==
  IF requested < First THEN First
  ELSE IF requested > high_watermark THEN high_watermark ELSE requested

Seek(g, requested) ==
  /\ faults < MaxFaults
  /\ First <= high_watermark
  /\ Contract[g] = "at-least-once"
  /\ cursor[g] # None
  /\ stage[g] = "idle"
  /\ cursor' = [cursor EXCEPT ![g] = SeekToOffset(requested)]
  /\ faults' = faults + 1
  /\ UNCHANGED <<partitionVars, groupVars, ledgerVars, stage, processed>>

(***************************************************************************)
(* The caller of RetentionRun.apply passes the lowest position of the live *)
(* groups as the committed floor, or the log's end when there is none.     *)
(***************************************************************************)
\* A plausible slip: only the groups that have committed set the floor.
CommittedFloorOfCommitters ==
  LET committers == {g \in registered : committed[g] # None}
  IN  IF committers = {} THEN NextOffset(segments)
      ELSE Min({Position(g) : g \in committers})

CommittedFloor ==
  IF registered = {} THEN NextOffset(segments)
  ELSE Min({Position(g) : g \in registered})

Retain == RetentionApply(CommittedFloor)

\* An operator's drop_sealed_before knows no floor.
DropHead(offset) ==
  /\ faults < MaxFaults
  /\ faults' = faults + 1
  /\ DropSealedBefore(offset)
  /\ UNCHANGED <<groupVars, ledgerVars, consumerVars>>

PartitionStep ==
  /\ \/ \E r \in Record : AppendRec(r)
     \/ \E to \in Offset : AdvanceWatermark(to)
     \/ Retain
     \/ Tick
  /\ UNCHANGED <<groupVars, ledgerVars, consumerVars, faults>>

ConsumerStep(g) == Start(g) \/ Fetch(g) \/ AtLeastOnce(g) \/ AtMostOnce(g)

DeliveryNext ==
  \/ PartitionStep
  \/ \E offset \in Offset : DropHead(offset)
  \/ \E g \in Group :
       \/ Register(g)
       \/ ConsumerStep(g)
       \/ Crash(g)
       \/ \E requested \in Offset : Seek(g, requested)

DeliverySpec == DeliveryInit /\ [][DeliveryNext]_deliveryVars

\* Consumers are processes of their own that keep running; nothing else is fair.
FairSpec == DeliverySpec /\ \A g \in Group : WF_deliveryVars(ConsumerStep(g))
----------------------------------------------------------------------------
\* The groups' tables and the consumers keep their types; a fault repeats a record twice at most.
DeliveryTypeOK ==
  /\ registered \subseteq Group
  /\ committed \in [Group -> Offset \cup {None}]
  /\ cursor \in [Group -> Offset \cup {None}]
  /\ stage \in [Group -> {"idle", "read", "half"}]
  /\ processed \in [Group -> [Offset -> 0 .. 2 * (MaxFaults + 1)]]
  /\ \A g \in Group : skips_logged[g] \subseteq Offset \X Offset

(***************************************************************************)
(* At-least-once loses nothing in silence: a record below the group's      *)
(* committed offset was processed, or a logged skip (`skipped n record(s)  *)
(* between held and offset - 1`) covers it.  Crashes, seeks, resets and    *)
(* head drops may come at any point.                                       *)
(***************************************************************************)
NothingLostInSilence ==
  \A g \in registered : Contract[g] = "at-least-once" =>
    \A o \in 0 .. Position(g) - 1 :
      \/ processed[g][o] > 0
      \/ \E skip \in skips_logged[g] : skip[1] <= o /\ o < skip[2] - 1

(***************************************************************************)
(* At-most-once never processes a record twice: a consumer that crashed    *)
(* starts again at the committed offset or at a reset point past it.       *)
(***************************************************************************)
NeverTwice ==
  \A g \in registered : Contract[g] = "at-most-once" =>
    \A o \in Offset : processed[g][o] <= 1

(***************************************************************************)
(* Retention never makes a group fall behind: while nobody dropped the     *)
(* head by hand, no reset is ever a fell-behind one, and no consumer that  *)
(* holds a committed offset reads below the retained window.               *)
(***************************************************************************)
OnlyDropsOvertake ==
  dropped = 0 => /\ fell_behind_resets = 0
                 /\ \A g \in registered : committed[g] # None => First <= committed[g]

(***************************************************************************)
(* ConsumerGroup keeps the contract of each group: nothing skipped in      *)
(* silence, nothing twice, and nobody overtaken but by an operator.        *)
(***************************************************************************)
ContractsKept == NothingLostInSilence /\ NeverTwice /\ OnlyDropsOvertake

(***************************************************************************)
(* A retention run removes no record a live group has still to read.       *)
(***************************************************************************)
RetentionSparesUnread ==
  [][ \A g \in registered :
        (reclaimed_segments' > reclaimed_segments) =>
          FirstOffset(segments') <= Position(g) ]_deliveryVars

(***************************************************************************)
(* Every consumer whose policy lets it start again catches up with the     *)
(* watermark, however crashes, seeks and trims interleave.                 *)
(***************************************************************************)
CaughtUp(g) == cursor[g] # None /\ cursor[g] >= high_watermark /\ stage[g] = "idle"

ConsumersCatchUp ==
  \A g \in Group : <>[](g \in registered /\ ResetPolicy[g] # "error" => CaughtUp(g))
=============================================================================
