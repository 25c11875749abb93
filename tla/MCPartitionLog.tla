-------------------------- MODULE MCPartitionLog --------------------------
(* PartitionLog with three record sizes: one fits three to a segment, one  *)
(* fills a segment, one is larger than a segment.                          *)
EXTENDS PartitionLog

MCSize == [r \in Record |-> CASE r = "small" -> 1 [] r = "full" -> 3 [] OTHER -> 5]
=============================================================================
