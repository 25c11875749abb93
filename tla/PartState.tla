------------------------------ MODULE PartState ------------------------------
(***************************************************************************)
(* The parts around the broker's core are classes that share no state: the *)
(* state of a behaviour is that of one object of one of them.              *)
(***************************************************************************)
CONSTANT MaxNow   \* bound: the clock of those that have one

VARIABLE obj   \* the object, a record; obj.class says which class it is of
=============================================================================
