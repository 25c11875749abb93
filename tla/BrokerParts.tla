----------------------------- MODULE BrokerParts -----------------------------
(***************************************************************************)
(* Parts of the broker and its cluster that are both checked by TLC and    *)
(* proved about: the control plane, administration and replica care.       *)
(***************************************************************************)
EXTENDS PartState

CONSTANTS
  FenceAfter, HoldDown, MaxEnd, MaxVersion,                         \* see ControlPlane
  Grace, SessionTimeout, MaxPoll, MaxLifetime, MaxRecords, MaxIds,  \* see Administration
  LagWindow, Throttle, MaxLag, FlapWindow, FlapLimit,               \* see ReplicaCare
  MaxMoved, MaxFlaps, MaxVoters                                     \* its bounds: MaxEnd, MaxNow, MaxVoters

Control == INSTANCE ControlPlane

Admin == INSTANCE Administration

Replicas == INSTANCE ReplicaCare WITH MaxEnd <- MaxMoved, MaxNow <- MaxFlaps

-----------------------------------------------------------------------------
\* Metadata, fencing and the hand-over of leadership: see ControlPlane.
ControlIsSafe == Control!ControlIsSafe

\* Topics, static members and sessions: see Administration.
AdministrationIsSound == Admin!AdministrationIsSound

\* Moving, placing and judging replicas: see ReplicaCare.
ReplicasAreSafe == Replicas!ReplicasAreSafe
=============================================================================
