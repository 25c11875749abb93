----------------------------- MODULE MCDelivery -----------------------------
(* Two groups, one of each contract, over a partition that rolls after     *)
(* every record, so that every committed prefix can be trimmed.            *)
EXTENDS Delivery

MCSize     == [r \in Record |-> 1]
MCContract == [g \in Group |-> IF g = "ledger" THEN "at-least-once" ELSE "at-most-once"]
MCPolicy   == [g \in Group |-> IF g = "ledger" THEN "earliest" ELSE "latest"]
=============================================================================
