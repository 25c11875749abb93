------------------------ MODULE MCIdempotentProduce ------------------------
EXTENDS IdempotentProduce

\* Two batches in flight, but one at a time after a restart at the partition gate.
RestartsSlowly(g, e) == IF g = "partition" /\ e > 1 THEN 1 ELSE 2

AlwaysTwo(g, e) == 2
=============================================================================
