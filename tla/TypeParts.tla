------------------------------ MODULE TypeParts ------------------------------
(***************************************************************************)
(* The replicated data types and clocks, both checked by TLC and proved    *)
(* about.                                                                  *)
(***************************************************************************)
EXTENDS PartState

CONSTANTS Nodes, MaxOps, MaxEvents, MaxWall   \* see ReplicatedTypes

Types == INSTANCE ReplicatedTypes

-----------------------------------------------------------------------------
\* Replicated data types and clocks: see ReplicatedTypes.
TypesConverge == Types!TypesConverge
=============================================================================
