-------------------------- MODULE MCMetadataQuorum --------------------------
EXTENDS MetadataQuorum, TLC

\* A quorum starts with two voters; the third node observes until it is promoted.
Pairs == {v \in SUBSET Node : Cardinality(v) = 2}

\* Nodes that have been through two terms.
Late == {n \in Node : term[n] > 2}

\* Bound: behaviours up to their first lapse, and after the second term only one request
\* at a time and one candidate.
UntilLapse ==
  /\ lapses = {}
  /\ Late # {} => Cardinality(wire) <= 1 /\ Cardinality({n \in Late : role[n] = "candidate"}) <= 1

NodeSymmetry == Permutations(Node)
=============================================================================
